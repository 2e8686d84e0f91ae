------------------------ MODULE ReplicationInvariant ------------------------
(***************************************************************************)
(* The inductive invariant of Replication, for any number of nodes, terms, *)
(* batches, messages under way and broken connections: what is on the wire *)
(* and when it was sent.  With it, the steps that send least: an election, *)
(* a heartbeat, a broken connection.                                       *)
(***************************************************************************)
EXTENDS Replication, WellFoundedInduction, TLAPS

Positions == Nat \X Nat

Heartbeats ==
    [type : {"Append"}, term : Nat, prev : Positions, id : {0}, commit : Nat, entry : {<<>>}]
AppendRequests ==
    [type : {"Append"}, term : Nat, prev : Positions, id : Nat, commit : Nat, entry : {<<e>> : e \in Entries}]
Truncations == [type : {"Truncate"}, prev : Positions]
Acks == [type : {"Ack"}, id : Nat, ok : BOOLEAN, end : Positions]
Messages == Heartbeats \cup AppendRequests \cup Truncations \cup {Truncated} \cup Acks

Events == Truncations \cup [type : {"Backfill"}, peer : Node, end : Positions]
Tasks == [owner : Node, id : Nat, end : Positions]
Pending ==
    [id : Nat, kind : {"Write", "NoOp"}, index : Nat, term : Nat, done : BOOLEAN, acks : Nat, left : Int]
Workers == [on : BOOLEAN, term : Nat, prev : Positions, commit : Nat, backfill : BOOLEAN]

\* The append requests of s have ascending terms between lo and hi.
Fits(s, lo, hi) ==
    /\ s \in Seq(Messages)
    /\ \A i \in 1 .. Len(s) : s[i].type = "Append" => lo <= s[i].term /\ s[i].term <= hi
    /\ \A i, j \in 1 .. Len(s) :
          i < j /\ s[i].type = "Append" /\ s[j].type = "Append" => s[i].term <= s[j].term

\* The term in which n recognises m as its leader, 0 if it does not.
Known(m, n) == IF leaderId[n] = m /\ m # n THEN currentTerm[n] ELSE 0

Types ==
    /\ role \in [Node -> {"Follower", "Candidate", "Elected", "Leader"}]
    /\ currentTerm \in [Node -> Nat] /\ leaderId \in [Node -> Node \cup {None}]
    /\ log \in [Node -> Seq(Entries)] /\ last \in [Node -> Positions]
    /\ nextLogIndex \in [Node -> Nat] /\ commit \in [Node -> Nat]
    /\ nextId \in [Node -> Nat] /\ outstanding \in [Node -> SUBSET Pending]
    /\ persisting \in [Node -> Seq(Tasks)] /\ responses \in [Node -> Seq(Events)]
    /\ worker \in [Node -> [Node -> Workers]] /\ wire \in [Node -> [Node -> Seq(Messages)]]
    /\ led \in Nat

\* A node recognises a leader in a term no later than the terms of what that
\* leader's worker still sends it: the worker's queue keeps its order.
TermInv ==
    /\ \A n \in Node : currentTerm[n] <= led
    /\ \A m, n \in Node :
          /\ Known(m, n) <= worker[m][n].term
          /\ worker[m][n].term <= currentTerm[m]
          /\ Fits(wire[m][n], Known(m, n), worker[m][n].term)

IInv == Types /\ TermInv

-----------------------------------------------------------------------------
(* Messages.                                                                *)

\* What a message is, by its type.
LEMMA MessageKinds ==
    ASSUME NEW msg \in Messages
    PROVE  /\ msg.type = "Append" => msg.term \in Nat
           /\ msg.type = "Ack" => msg \in Acks
           /\ msg.type = "Truncate" => msg \in Truncations
<1>1. CASE msg \in Heartbeats
  BY <1>1 DEF Heartbeats
<1>2. CASE msg \in AppendRequests
  BY <1>2 DEF AppendRequests
<1>3. CASE msg \in Truncations
  BY <1>3 DEF Truncations
<1>4. CASE msg = Truncated
  BY <1>4 DEF Truncated
<1>5. CASE msg \in Acks
  BY <1>5 DEF Acks
<1> QED
  BY <1>1, <1>2, <1>3, <1>4, <1>5 DEF Messages

\* A heartbeat is an append request with the worker's term (send_heartbeat).
LEMMA HeartbeatMessage ==
    ASSUME NEW w \in Workers
    PROVE  LET msg == HeartbeatRequest(w.term, w.prev, w.commit) IN
           msg \in Messages /\ msg.type = "Append" /\ msg.term = w.term
<1>1. w.term \in Nat /\ w.prev \in Positions /\ w.commit \in Nat
  BY DEF Workers
<1>2. HeartbeatRequest(w.term, w.prev, w.commit) \in Heartbeats
  BY <1>1 DEF HeartbeatRequest, Heartbeats
<1> QED
  BY <1>2 DEF Messages, HeartbeatRequest

\* The position of an entry.
LEMMA EntryPosition ==
    ASSUME NEW e \in Entries
    PROVE  Position(e) \in Positions
<1>1. e.index \in Nat /\ e.term \in Nat
  BY DEF Entries
<1> QED
  BY <1>1 DEF Position, Positions

\* An entry as a leader makes it (write_batch, initialize_leadership).
LEMMA NewEntryType ==
    ASSUME IInv, NEW n \in Node, NEW i \in Nat, NEW d \in Nat
    PROVE  NewEntry(n, i, d) \in Entries /\ NewEntry(n, i, d).id = d
<1>1. currentTerm[n] \in Nat /\ last[n] \in Nat \X Nat
  BY DEF IInv, Types, Positions
<1> QED
  BY <1>1 DEF NewEntry, Entries

\* The numbers a leader makes an entry of.
LEMMA NextNumbers ==
    ASSUME IInv, NEW n \in Node
    PROVE  /\ Len(log[n]) \in Nat /\ nextLogIndex[n] \in Nat
           /\ nextId[n] \in Nat /\ nextId[n] + 1 \in Nat
<1>1. log[n] \in Seq(Entries) /\ nextLogIndex[n] \in Nat /\ nextId[n] \in Nat
  BY DEF IInv, Types
<1> QED
  BY <1>1

-----------------------------------------------------------------------------
(* Sequences of messages.                                                   *)

\* Taking the first message leaves nothing older behind it.
LEMMA FitsTail ==
    ASSUME NEW s, NEW lo \in Nat, NEW hi \in Nat, Fits(s, lo, hi), s # <<>>
    PROVE  /\ Head(s) \in Messages
           /\ Fits(Tail(s), lo, hi)
           /\ Head(s).type = "Append" =>
                 /\ lo <= Head(s).term /\ Head(s).term <= hi
                 /\ Fits(Tail(s), Head(s).term, hi)
<1>1. /\ s \in Seq(Messages) /\ Head(s) = s[1] /\ Head(s) \in Messages /\ Len(s) \in Nat \ {0}
      /\ Tail(s) \in Seq(Messages) /\ Len(Tail(s)) = Len(s) - 1
      /\ \A i \in 1 .. Len(Tail(s)) : Tail(s)[i] = s[i + 1] /\ i + 1 \in 1 .. Len(s)
  BY SMT DEF Fits
<1> QED
  BY <1>1, SMT DEF Fits

\* A worker sends with its own term, or an answer.
LEMMA FitsAppend ==
    ASSUME NEW s, NEW lo \in Nat, NEW hi \in Nat, lo <= hi, Fits(s, lo, hi),
           NEW msg \in Messages, msg.type = "Append" => msg.term = hi
    PROVE  Fits(Append(s, msg), lo, hi)
<1>1. /\ s \in Seq(Messages) /\ Len(s) \in Nat
      /\ Append(s, msg) \in Seq(Messages) /\ Len(Append(s, msg)) = Len(s) + 1
      /\ Append(s, msg)[Len(s) + 1] = msg
      /\ \A i \in 1 .. Len(s) : Append(s, msg)[i] = s[i]
  BY SMT DEF Fits
<1> QED
  BY <1>1, SMT DEF Fits

\* Messages sent together carry the worker's term.
LEMMA FitsConcat ==
    ASSUME NEW s, NEW lo \in Nat, NEW hi \in Nat, lo <= hi, Fits(s, lo, hi),
           NEW u \in Seq(Messages), \A i \in 1 .. Len(u) : u[i].type = "Append" => u[i].term = hi
    PROVE  Fits(s \o u, lo, hi)
<1>1. /\ s \in Seq(Messages) /\ Len(s) \in Nat /\ Len(u) \in Nat
      /\ s \o u \in Seq(Messages) /\ Len(s \o u) = Len(s) + Len(u)
      /\ \A i \in 1 .. Len(s) : (s \o u)[i] = s[i]
      /\ \A i \in Len(s) + 1 .. Len(s) + Len(u) : (s \o u)[i] = u[i - Len(s)] /\ i - Len(s) \in 1 .. Len(u)
  BY SMT DEF Fits
<1> DEFINE c == s \o u
<1>2. \A i \in 1 .. Len(c) :
        \/ i \in 1 .. Len(s) /\ c[i] = s[i]
        \/ i > Len(s) /\ (c[i].type = "Append" => c[i].term = hi)
  <2> SUFFICES ASSUME NEW i \in 1 .. Len(c), i \notin 1 .. Len(s)
               PROVE  i > Len(s) /\ (c[i].type = "Append" => c[i].term = hi)
    BY <1>1
  <2>1. i \in Len(s) + 1 .. Len(s) + Len(u)
    BY <1>1, SMT
  <2> QED
    BY <2>1, <1>1, SMT
<1>3. c \in Seq(Messages) /\ Len(s) \in Nat
  BY <1>1
<1> HIDE DEF c
<1>4. \A i \in 1 .. Len(c) : c[i].type = "Append" => lo <= c[i].term /\ c[i].term <= hi
  BY <1>2, SMT DEF Fits
<1>5. \A i, j \in 1 .. Len(c) :
        i < j /\ c[i].type = "Append" /\ c[j].type = "Append" => c[i].term <= c[j].term
  <2> SUFFICES ASSUME NEW i \in 1 .. Len(c), NEW j \in 1 .. Len(c),
                      i < j, c[i].type = "Append", c[j].type = "Append"
               PROVE  c[i].term <= c[j].term
    OBVIOUS
  <2>1. CASE j \in 1 .. Len(s) /\ c[j] = s[j]
    <3>1. i \in 1 .. Len(s) /\ c[i] = s[i]
      BY <2>1, <1>2, <1>3, SMT
    <3> QED
      BY <2>1, <3>1 DEF Fits
  <2>2. CASE c[j].term = hi
    BY <2>2, <1>4
  <2> QED
    BY <2>1, <2>2, <1>2
<1>6. Fits(c, lo, hi)
  BY <1>3, <1>4, <1>5 DEF Fits
<1> QED
  BY <1>6 DEF c

\* A broken connection loses the messages sent last.
LEMMA FitsPrefix ==
    ASSUME NEW s, NEW lo \in Nat, NEW hi \in Nat, Fits(s, lo, hi), NEW k \in 0 .. Len(s) - 1
    PROVE  Fits(SubSeq(s, 1, k), lo, hi)
<1>1. /\ s \in Seq(Messages) /\ Len(s) \in Nat
      /\ SubSeq(s, 1, k) \in Seq(Messages) /\ Len(SubSeq(s, 1, k)) = k
      /\ \A i \in 1 .. k : SubSeq(s, 1, k)[i] = s[i] /\ i \in 1 .. Len(s)
  BY SMT DEF Fits
<1> QED
  BY <1>1, SMT DEF Fits

\* The bounds may be widened.
LEMMA FitsWider ==
    ASSUME NEW s, NEW lo \in Nat, NEW hi \in Nat, Fits(s, lo, hi),
           NEW low \in Nat, NEW high \in Nat, low <= lo, hi <= high
    PROVE  Fits(s, low, high)
<1>1. \A i \in 1 .. Len(s) : s[i].type = "Append" => s[i].term \in Nat
  BY SMT DEF Fits, Messages, Heartbeats, AppendRequests, Truncations, Acks, Truncated
<1> QED
  BY <1>1, SMT DEF Fits

-----------------------------------------------------------------------------
(* Max, as the code uses max.                                               *)

\* The greater of two numbers (commit_index.max).
LEMMA MaxOfTwo ==
    ASSUME NEW a \in Nat, NEW b \in Nat
    PROVE  Max({a, b}) \in Nat /\ Max({a, b}) >= a
<1>1. \E x \in {a, b} : \A y \in {a, b} : x >= y
  BY SMT
<1> QED
  BY <1>1, SMT DEF Max

\* A set of positions below k has a greatest one (handle_term_mismatch).
LEMMA MaxOfBounded ==
    ASSUME NEW k \in Nat, NEW S \in SUBSET (0 .. k - 1), S # {}
    PROVE  Max(S) \in Nat /\ Max(S) < k
<1> DEFINE R == OpToRel(<, Nat)
           D == {y \in Nat : y <= k /\ k - y \in S}
<1>1. IsWellFoundedOn(R, Nat)
  BY NatLessThanWellFounded
<1>2. \A a, b \in Nat : a < b => <<a, b>> \in R
  BY DEF OpToRel
<1> HIDE DEF R
<1>3. PICK z \in S : TRUE
  OBVIOUS
<1>4. k - z \in D
  BY <1>3, SMT
<1>5. PICK d \in D : \A y \in D : ~(<<y, d>> \in R)
  <2> HIDE DEF D
  <2>1. D \subseteq Nat /\ D # {}
    BY <1>4, Zenon DEF D
  <2> QED
    BY <1>1, <2>1, WFMin
<1>6. k - d \in S /\ k - d \in Nat /\ k - d < k
  BY <1>5, SMT
<1>7. \A y \in S : k - d >= y
  <2> SUFFICES ASSUME NEW y \in S PROVE k - d >= y
    OBVIOUS
  <2>1. k - y \in D /\ y \in Nat /\ d \in Nat
    BY <1>5, SMT
  <2>2. ~(k - y < d)
    BY <2>1, <1>2, <1>5
  <2> QED
    BY <2>1, <2>2, SMT
<1>8. Max(S) \in S
  BY <1>6, <1>7, Zenon DEF Max
<1>9. \A y \in S : y \in Nat /\ y < k
  BY SMT
<1> QED
  BY <1>8, <1>9, Zenon

-----------------------------------------------------------------------------
(* Terms and wires.                                                         *)

\* The bounds of a wire are numbers, and are in order.
LEMMA Bounds ==
    ASSUME IInv, NEW a \in Node, NEW b \in Node
    PROVE  /\ wire[a][b] \in Seq(Messages) /\ Fits(wire[a][b], Known(a, b), worker[a][b].term)
           /\ Known(a, b) \in Nat /\ worker[a][b].term \in Nat /\ currentTerm[a] \in Nat
           /\ Known(a, b) <= worker[a][b].term /\ worker[a][b].term <= currentTerm[a]
<1>1. Fits(wire[a][b], Known(a, b), worker[a][b].term)
  BY DEF IInv, TermInv
<1>2. Known(a, b) <= worker[a][b].term /\ worker[a][b].term <= currentTerm[a]
  BY DEF IInv, TermInv
<1>3. worker[a][b] \in Workers /\ currentTerm[a] \in Nat /\ currentTerm[b] \in Nat
  BY DEF IInv, Types
<1>4. Known(a, b) \in Nat
  BY <1>3, SMT DEF Known
<1>5. worker[a][b].term \in Nat
  BY <1>3 DEF Workers
<1> QED
  BY <1>1, <1>2, <1>3, <1>4, <1>5 DEF Fits

\* A handler takes the first message of a wire and may answer it.
LEMMA Delivery ==
    ASSUME IInv, NEW n \in Node, NEW m \in Peers(n), wire[m][n] # <<>>,
           \/ Consume(n, m)
           \/ \E msg \in Messages : msg.type # "Append" /\ Reply(n, m, msg)
    PROVE  /\ wire' \in [Node -> [Node -> Seq(Messages)]]
           /\ \A a, b \in Node : Fits(wire'[a][b], Known(a, b), worker[a][b].term)
           /\ Head(wire[m][n]) \in Messages
           /\ Head(wire[m][n]).type = "Append" =>
                 /\ Known(m, n) <= Head(wire[m][n]).term
                 /\ Head(wire[m][n]).term <= worker[m][n].term
                 /\ Fits(wire'[m][n], Head(wire[m][n]).term, worker[m][n].term)
<1>1. m \in Node /\ m # n /\ wire \in [Node -> [Node -> Seq(Messages)]]
  BY DEF Peers, IInv, Types
<1>2. /\ Head(wire[m][n]) \in Messages
      /\ Fits(Tail(wire[m][n]), Known(m, n), worker[m][n].term)
      /\ Head(wire[m][n]).type = "Append" =>
            /\ Known(m, n) <= Head(wire[m][n]).term
            /\ Head(wire[m][n]).term <= worker[m][n].term
            /\ Fits(Tail(wire[m][n]), Head(wire[m][n]).term, worker[m][n].term)
  BY <1>1, Bounds, FitsTail
<1>3. Tail(wire[m][n]) \in Seq(Messages)
  BY <1>2 DEF Fits
<1> DEFINE Sent(a, b) ==
        \/ wire'[a][b] = wire[a][b]
        \/ \E msg \in Messages : msg.type # "Append" /\ wire'[a][b] = Append(wire[a][b], msg)
<1>4. /\ wire'[m][n] = Tail(wire[m][n])
      /\ \A a, b \in Node : ~(a = m /\ b = n) => Sent(a, b)
      /\ wire' \in [Node -> [Node -> Seq(Messages)]]
  <2>1. CASE Consume(n, m)
    BY <2>1, <1>1, <1>3, SMT DEF Consume
  <2>2. ASSUME NEW msg \in Messages, msg.type # "Append", Reply(n, m, msg)
        PROVE <1>4!1 /\ <1>4!2 /\ <1>4!3
    <3> DEFINE taken == [wire EXCEPT ![m][n] = Tail(@)]
    <3>1. wire' = [taken EXCEPT ![n][m] = Append(@, msg)]
      BY <2>2, <1>1 DEF Reply
    <3>2. /\ taken \in [Node -> [Node -> Seq(Messages)]]
          /\ taken[m][n] = Tail(wire[m][n])
          /\ \A a, b \in Node : ~(a = m /\ b = n) => taken[a][b] = wire[a][b]
      BY <1>1, <1>3, SMT
    <3> HIDE DEF taken
    <3>3. /\ wire' \in [Node -> [Node -> Seq(Messages)]]
          /\ wire'[n][m] = Append(taken[n][m], msg)
          /\ \A a, b \in Node : ~(a = n /\ b = m) => wire'[a][b] = taken[a][b]
      BY <3>1, <3>2, <1>1, SMT
    <3>4. wire'[m][n] = Tail(wire[m][n])
      BY <1>1, <3>2, <3>3
    <3>5. \A a, b \in Node : ~(a = m /\ b = n) => Sent(a, b)
      <4> SUFFICES ASSUME NEW a \in Node, NEW b \in Node, ~(a = m /\ b = n) PROVE Sent(a, b)
        OBVIOUS
      <4>1. CASE a = n /\ b = m
        BY <4>1, <2>2, <1>1, <3>2, <3>3
      <4>2. CASE ~(a = n /\ b = m)
        <5>1. wire'[a][b] = taken[a][b] /\ taken[a][b] = wire[a][b]
          BY <4>2, <3>2, <3>3, Zenon
        <5> QED
          BY <5>1
      <4> QED
        BY <4>1, <4>2
    <3> QED
      BY <3>3, <3>4, <3>5
  <2> QED
    BY <2>1, <2>2
<1>5. \A a, b \in Node : Fits(wire'[a][b], Known(a, b), worker[a][b].term)
  <2> SUFFICES ASSUME NEW a \in Node, NEW b \in Node
               PROVE  Fits(wire'[a][b], Known(a, b), worker[a][b].term)
    OBVIOUS
  <2>1. CASE a = m /\ b = n
    BY <2>1, <1>2, <1>4
  <2>2. CASE wire'[a][b] = wire[a][b]
    BY <2>2, Bounds
  <2>3. ASSUME NEW msg \in Messages, msg.type # "Append", wire'[a][b] = Append(wire[a][b], msg)
        PROVE  Fits(wire'[a][b], Known(a, b), worker[a][b].term)
    BY <2>3, Bounds, FitsAppend
  <2> QED
    BY <2>1, <2>2, <2>3, <1>4
<1> QED
  BY <1>2, <1>4, <1>5
\* A step that moves no term keeps the order of terms if the wires still fit.
LEMMA SameTerms ==
    ASSUME IInv, UNCHANGED <<currentTerm, leaderId, led>>,
           \A a, b \in Node : worker'[a][b].term = worker[a][b].term,
           \A a, b \in Node : Fits(wire'[a][b], Known(a, b), worker[a][b].term)
    PROVE  TermInv'
<1>1. \A a, b \in Node : Known(a, b)' = Known(a, b)
  BY DEF Known
<1>2. \A n \in Node : (currentTerm[n] <= led)'
  BY DEF IInv, TermInv
<1>3. ASSUME NEW a \in Node, NEW b \in Node
      PROVE  /\ Known(a, b)' <= worker'[a][b].term
             /\ worker'[a][b].term <= currentTerm'[a]
             /\ Fits(wire'[a][b], Known(a, b)', worker'[a][b].term)
  BY <1>1, Bounds
<1> QED
  BY <1>2, <1>3 DEF TermInv

\* Recognising a leader in the term of its oldest message (append_entries).
LEMMA NewTerm ==
    ASSUME IInv, NEW n \in Node, NEW m \in Peers(n), wire[m][n] # <<>>,
           Head(wire[m][n]).type = "Append", Head(wire[m][n]).term >= currentTerm[n],
           Recognise(n, m, Head(wire[m][n])), UNCHANGED led,
           \A a, b \in Node : worker'[a][b].term = worker[a][b].term,
           \/ Consume(n, m)
           \/ \E msg \in Messages : msg.type # "Append" /\ Reply(n, m, msg)
    PROVE  /\ currentTerm' \in [Node -> Nat] /\ leaderId' \in [Node -> Node \cup {None}]
           /\ wire' \in [Node -> [Node -> Seq(Messages)]]
           /\ TermInv'
<1> DEFINE t == Head(wire[m][n]).term
<1>1. /\ wire' \in [Node -> [Node -> Seq(Messages)]]
      /\ \A a, b \in Node : Fits(wire'[a][b], Known(a, b), worker[a][b].term)
      /\ Head(wire[m][n]) \in Messages
      /\ t <= worker[m][n].term /\ Fits(wire'[m][n], t, worker[m][n].term)
  BY Delivery
<1>2. m \in Node /\ m # n
  BY DEF Peers
<1>3. t \in Nat
  BY <1>1, MessageKinds, Zenon
<1>4. /\ currentTerm \in [Node -> Nat] /\ leaderId \in [Node -> Node \cup {None}]
      /\ led \in Nat /\ \A a \in Node : currentTerm[a] <= led
  BY DEF IInv, Types, TermInv
<1> HIDE DEF t
<1>5. /\ currentTerm' = [currentTerm EXCEPT ![n] = t] /\ leaderId' = [leaderId EXCEPT ![n] = m]
      /\ t >= currentTerm[n]
  BY DEF Recognise, t
<1>6. currentTerm' \in [Node -> Nat] /\ leaderId' \in [Node -> Node \cup {None}]
  BY <1>2, <1>3, <1>4, <1>5, SMT
<1>7. \A a \in Node : currentTerm'[a] \in Nat /\ currentTerm[a] <= currentTerm'[a] /\ currentTerm'[a] <= led'
  <2>1. worker[m][n].term \in Nat /\ worker[m][n].term <= currentTerm[m]
    BY <1>2, Bounds
  <2>2. t <= led
    <3>1. \A x, y, z, v \in Nat : x <= y /\ y <= z /\ z <= v => x <= v
      OBVIOUS
    <3>2. currentTerm[m] \in Nat
      BY <1>2, <1>4, Zenon
    <3> QED
      BY <2>1, <1>1, <1>2, <1>3, <1>4, <3>1, <3>2, Zenon
  <2> QED
    BY <2>2, <1>3, <1>4, <1>5, SMT
<1>8. ASSUME NEW a \in Node, NEW b \in Node
      PROVE  /\ Known(a, b)' <= worker'[a][b].term
             /\ worker'[a][b].term <= currentTerm'[a]
             /\ Fits(wire'[a][b], Known(a, b)', worker'[a][b].term)
  <2> DEFINE w == worker[a][b].term
  <2>0. /\ worker'[a][b].term = w /\ w \in Nat /\ w <= currentTerm[a]
        /\ Known(a, b) \in Nat /\ Known(a, b) <= w
    BY Bounds
  <2> HIDE DEF w
  <2>1. worker'[a][b].term <= currentTerm'[a]
    BY <2>0, <1>7, <1>4, SMT
  <2>2. CASE b # n
    <3>1. Known(a, b)' = Known(a, b)
      BY <2>2, <1>4, <1>5 DEF Known
    <3> QED
      BY <2>1, <3>1, <1>1, Bounds
  <2>3. CASE b = n /\ a = m
    <3>1. Known(a, b)' = t
      BY <2>3, <1>2, <1>4, <1>5 DEF Known
    <3> QED
      BY <2>1, <2>3, <3>1, <1>1
  <2>4. CASE b = n /\ a # m
    <3>1. Known(a, b)' = 0
      BY <2>4, <1>4, <1>5 DEF Known
    <3>2. Fits(wire'[a][b], 0, worker[a][b].term)
      <4> DEFINE k == Known(a, b)
      <4>1. Fits(wire'[a][b], k, w)
        BY <1>1, Zenon DEF w
      <4>2. k \in Nat /\ w \in Nat
        BY <2>0, Zenon
      <4> HIDE DEF k
      <4>3. 0 \in Nat /\ 0 <= k /\ w <= w
        BY <4>2
      <4> QED
        BY <4>1, <4>2, <4>3, FitsWider, Zenon DEF w
    <3> QED
      BY <2>0, <2>1, <3>1, <3>2, SMT DEF w
  <2> QED
    BY <2>2, <2>3, <2>4
<1> QED
  BY <1>1, <1>6, <1>7, <1>8 DEF TermInv
-----------------------------------------------------------------------------
(* One lemma for each action.                                               *)

\* No commit index falls in this step.
Rises == \A a \in Node : commit'[a] >= commit[a]

\* A step that leaves the commit indexes alone.
LEMMA UnchangedRises ==
    ASSUME IInv, UNCHANGED commit
    PROVE  commit' \in [Node -> Nat] /\ Rises
BY SMT DEF IInv, Types, Rises

\* A step that moves no term and sends nothing.
LEMMA QuietTerms ==
    ASSUME IInv, UNCHANGED <<currentTerm, leaderId, led, wire>>,
           \A a, b \in Node : worker'[a][b].term = worker[a][b].term
    PROVE  TermInv'
<1>1. \A a, b \in Node : Fits(wire'[a][b], Known(a, b), worker[a][b].term)
  BY Bounds
<1> QED
  BY <1>1, SameTerms

\* An election timeout.
LEMMA TimeoutStep ==
    ASSUME IInv, NEW n \in Node, FollowerTimeout(n)
    PROVE  IInv' /\ Rises
<1> USE DEF FollowerTimeout, logVars, pendingVars, workerVars
<1>1. TermInv'
  BY QuietTerms
<1>2. role' \in [Node -> {"Follower", "Candidate", "Elected", "Leader"}]
  BY SMT DEF IInv, Types
<1>3. Types'
  BY <1>2 DEF IInv, Types
<1> QED
  BY <1>1, <1>3, UnchangedRises DEF IInv

\* A won election: the new term is above every other, and the winner recognises
\* nobody else.
LEMMA ElectStep ==
    ASSUME IInv, NEW n \in Node, NEW voters \in SUBSET Peers(n), Elect(n, voters)
    PROVE  IInv' /\ Rises
<1>1. /\ led \in Nat /\ currentTerm \in [Node -> Nat] /\ leaderId \in [Node -> Node \cup {None}]
      /\ \A a \in Node : currentTerm[a] <= led
  BY DEF IInv, Types, TermInv
<1>2. led' = led + 1 /\ currentTerm' = [currentTerm EXCEPT ![n] = led + 1] /\ leaderId' = [leaderId EXCEPT ![n] = n]
      /\ UNCHANGED <<logVars, outstanding, persisting, workerVars>>
  BY DEF Elect
<1>3. Types'
  <2>1. led' \in Nat /\ currentTerm' \in [Node -> Nat] /\ leaderId' \in [Node -> Node \cup {None}]
    BY <1>1, <1>2, SMT
  <2>2. role' \in [Node -> {"Follower", "Candidate", "Elected", "Leader"}]
    BY SMT DEF IInv, Types, Elect
  <2>3. nextId' \in [Node -> Nat]
    <3>1. nextId' = [v \in Node |-> IF v \in voters \cup {n} THEN nextId[v] + 1 ELSE nextId[v]]
      BY DEF Elect
    <3>2. nextId \in [Node -> Nat]
      BY DEF IInv, Types
    <3>3. \A v \in Node : (IF v \in voters \cup {n} THEN nextId[v] + 1 ELSE nextId[v]) \in Nat
      BY <3>2, SMT
    <3> QED
      BY <3>1, <3>3
  <2> QED
    BY <1>2, <2>1, <2>2, <2>3 DEF IInv, Types, logVars, workerVars
<1>4. \A a \in Node : currentTerm'[a] <= led' /\ currentTerm[a] <= currentTerm'[a]
                        /\ currentTerm[a] \in Nat /\ currentTerm'[a] \in Nat
  BY <1>1, <1>2, SMT
<1>5. ASSUME NEW a \in Node, NEW b \in Node
      PROVE  /\ Known(a, b)' <= worker'[a][b].term
             /\ worker'[a][b].term <= currentTerm'[a]
             /\ Fits(wire'[a][b], Known(a, b)', worker'[a][b].term)
  <2> DEFINE w == worker[a][b].term
  <2>1. /\ wire' = wire /\ worker'[a][b].term = w /\ w \in Nat /\ w <= currentTerm[a]
        /\ Known(a, b) \in Nat /\ Known(a, b) <= w /\ Fits(wire[a][b], Known(a, b), w)
    BY <1>2, Bounds DEF workerVars
  <2> HIDE DEF w
  <2>2. worker'[a][b].term <= currentTerm'[a]
    <3>1. \A x, y, z \in Nat : x <= y /\ y <= z => x <= z
      OBVIOUS
    <3> QED
      BY <2>1, <1>4, <3>1, Zenon
  <2>3. CASE b # n
    <3>1. Known(a, b)' = Known(a, b)
      BY <2>3, <1>1, <1>2 DEF Known
    <3> QED
      BY <2>1, <2>2, <3>1
  <2>4. CASE b = n
    <3>1. Known(a, b)' = 0
      BY <2>4, <1>1, <1>2 DEF Known
    <3>2. 0 \in Nat /\ 0 <= Known(a, b) /\ w <= w /\ 0 <= w
      BY <2>1, SMT
    <3>3. Fits(wire[a][b], 0, w)
      BY <3>2, <2>1, FitsWider
    <3> QED
      BY <2>1, <2>2, <3>1, <3>2, <3>3
  <2> QED
    BY <2>3, <2>4
<1>6. TermInv'
  BY <1>4, <1>5 DEF TermInv
<1> QED
  BY <1>2, <1>3, <1>6, UnchangedRises DEF IInv, logVars

\* A heartbeat has the worker's term.
LEMMA HeartbeatStep ==
    ASSUME IInv, NEW n \in Node, NEW m \in Peers(n), SendHeartbeat(n, m)
    PROVE  IInv' /\ Rises
<1> DEFINE msg == HeartbeatRequest(worker[n][m].term, worker[n][m].prev, worker[n][m].commit)
<1>1. m \in Node /\ worker[n][m] \in Workers /\ wire \in [Node -> [Node -> Seq(Messages)]]
  <2>1. m \in Node
    BY DEF Peers
  <2>2. worker \in [Node -> [Node -> Workers]] /\ wire \in [Node -> [Node -> Seq(Messages)]]
    BY Zenon DEF IInv, Types
  <2> QED
    BY <2>1, <2>2, Zenon
<1>2. msg \in Messages /\ msg.type = "Append" /\ msg.term = worker[n][m].term
  BY <1>1, HeartbeatMessage, Zenon
<1>3. wire' = [wire EXCEPT ![n][m] = Append(@, msg)]
  BY DEF SendHeartbeat
<1> HIDE DEF msg
<1>4. /\ wire' \in [Node -> [Node -> Seq(Messages)]]
      /\ wire'[n][m] = Append(wire[n][m], msg)
      /\ \A a, b \in Node : ~(a = n /\ b = m) => wire'[a][b] = wire[a][b]
  BY <1>1, <1>2, <1>3, SMT
<1>5. \A a, b \in Node : Fits(wire'[a][b], Known(a, b), worker[a][b].term)
  <2> SUFFICES ASSUME NEW a \in Node, NEW b \in Node
               PROVE  Fits(wire'[a][b], Known(a, b), worker[a][b].term)
    OBVIOUS
  <2>1. CASE a = n /\ b = m
    <3>1. /\ Known(n, m) \in Nat /\ worker[n][m].term \in Nat /\ Known(n, m) <= worker[n][m].term
          /\ Fits(wire[n][m], Known(n, m), worker[n][m].term)
      BY <1>1, Bounds, Zenon
    <3>2. Fits(Append(wire[n][m], msg), Known(n, m), worker[n][m].term)
      BY <1>2, <3>1, FitsAppend, Zenon
    <3> QED
      BY <2>1, <1>4, <3>2, Zenon
  <2> QED
    BY <2>1, <1>4, Bounds
<1>6. TermInv'
  BY <1>5, SameTerms DEF SendHeartbeat, serverVars, histVars
<1>7. Types'
  BY <1>4 DEF IInv, Types, SendHeartbeat, serverVars, logVars, pendingVars, histVars
<1> QED
  BY <1>6, <1>7, UnchangedRises DEF IInv, SendHeartbeat, logVars

\* A broken connection.
LEMMA DisconnectStep ==
    ASSUME IInv, NEW n \in Node, NEW m \in Peers(n), Disconnect(n, m)
    PROVE  IInv' /\ Rises
<1>1. m \in Node /\ wire \in [Node -> [Node -> Seq(Messages)]]
  BY DEF Peers, IInv, Types
<1>2. PICK kept \in 0 .. Len(wire[n][m]) - 1 : wire' = [wire EXCEPT ![n][m] = SubSeq(@, 1, kept)]
  BY DEF Disconnect
<1>3. Fits(SubSeq(wire[n][m], 1, kept), Known(n, m), worker[n][m].term)
  BY <1>1, <1>2, Bounds, FitsPrefix
<1>4. SubSeq(wire[n][m], 1, kept) \in Seq(Messages)
  BY <1>3 DEF Fits
<1>5. /\ wire' \in [Node -> [Node -> Seq(Messages)]]
      /\ wire'[n][m] = SubSeq(wire[n][m], 1, kept)
      /\ \A a, b \in Node : ~(a = n /\ b = m) => wire'[a][b] = wire[a][b]
  BY <1>1, <1>2, <1>4, SMT
<1>6. \A a, b \in Node : Fits(wire'[a][b], Known(a, b), worker[a][b].term)
  BY <1>3, <1>5, Bounds
<1>7. TermInv'
  BY <1>6, SameTerms DEF Disconnect, serverVars
<1>8. Types'
  BY <1>5 DEF IInv, Types, Disconnect, serverVars, logVars, pendingVars
<1> QED
  BY <1>7, <1>8, UnchangedRises DEF IInv, Disconnect, logVars
=============================================================================
