----------------------- MODULE CommitBroadcastProofs -----------------------
(***************************************************************************)
(* What the query worker and its readers may rely on, for every capacity   *)
(* of the bus, every chunk size below it and every length of the log:      *)
(* NoLostWakeup, the order of the entries on the bus, and, when no entry   *)
(* is given up, that a node shows its readers a prefix of the log.         *)
(*                                                                         *)
(* The first inductive invariant says what is known while the version the  *)
(* worker saw is still the current one.  If the worker is not draining,    *)
(* then the bus holds at most what the retry in progress has sent, and     *)
(* nothing is parked; since one retry sends fewer entries than the bus     *)
(* holds, it cannot then meet a full bus, the only exit that does not bump *)
(* the version.  If the worker is draining, the commit index it works with *)
(* is still current, so it parks nothing.                                  *)
(*                                                                         *)
(* The second one, PInv, is about Top, the index up to which the Raft      *)
(* thread has sent or given up entries.  Top is not a variable of the      *)
(* code: while a loop runs it is implied by the loop's position, between   *)
(* loops it is last_broadcast_index.  All that was broadcast is in order   *)
(* and at most Top, and a step that sends, sends Top + 1.                  *)
(***************************************************************************)
EXTENDS CommitBroadcast, SequenceTheorems, TLAPS

BusOK ==
  /\ Len(bus) <= BusCapacity
  /\ \A i \in 1..Len(bus) : bus[i] <= commit
  /\ parked <= commit

RetryOK ==
  pc = "retry" =>
    /\ endIndex <= commit
    /\ next <= endIndex + 1
    /\ count + (endIndex - next + 1) <= MaxPerStep

DrainOK ==
  (wpc = "drain" /\ ~changed) =>
    /\ pc # "bump" => wCommit = commit
    /\ \A i \in 1..Len(bus) : bus[i] <= wCommit
    /\ parked = NoIndex

QuietOK ==
  (wpc \in {"poll", "reads"} /\ ~changed) =>
    /\ pc = "idle" => bus = <<>> /\ parked = NoIndex
    /\ pc = "retry" => Len(bus) <= count /\ parked = NoIndex

\* The part of the inductive invariant that is not about Boolean variables.
Core ==
  /\ IndicesOK /\ BusOK /\ RetryOK /\ DrainOK /\ QuietOK
  /\ pc \in {"idle", "bump", "send", "full", "retry"}
  /\ wpc \in {"poll", "load", "drain", "reads"}

IInv == FlagsOK /\ Core

\* The invariant holds in a node that has just started.
LEMMA InitIInv == Init => IInv
<1> SUFFICES ASSUME Init PROVE IInv
  OBVIOUS
<1>1. FlagsOK
  BY DEF Init, FlagsOK
<1>2. IndicesOK
  BY BroadcastAssumption DEF Init, IndicesOK, NoIndex
<1>3. BusOK
  BY BroadcastAssumption DEF Init, BusOK, NoIndex
<1>4. RetryOK /\ DrainOK /\ QuietOK
  BY DEF Init, RetryOK, DrainOK, QuietOK
<1> QED
  BY <1>1, <1>2, <1>3, <1>4 DEF Init, IInv, Core

\* What Bus::broadcast makes of the bus, and apply_entry of the map.
LEMMA AppendNat ==
  ASSUME NEW s \in Seq(Nat), NEW e \in Nat
  PROVE  /\ Append(s, e) \in Seq(Nat)
         /\ Len(Append(s, e)) = Len(s) + 1
         /\ \A i \in 1..Len(Append(s, e)) : Append(s, e)[i] = IF i = Len(s) + 1 THEN e ELSE s[i]
  OBVIOUS

-----------------------------------------------------------------------------
(* The actions that need more than one step.                               *)

\* broadcast_committed_entries sends one entry, or skips one the log does not hold.
LEMMA SendOneKeepsCore == ASSUME Core, SendOne PROVE Core'
<1> USE BroadcastAssumption DEF Core, NoIndex, workerVars
<1>1. CASE HasEntry(next)
  <2>1. /\ bus' = Append(bus, next) /\ next <= commit /\ Len(bus) # BusCapacity
        /\ pc = "send" /\ last' = next /\ next' = next + 1
        /\ UNCHANGED <<logLen, commit, lastBroadcast, pc, endIndex, count, changed, workerVars>>
    BY <1>1 DEF SendOne, Broadcast, BusFull
  <2>2. /\ bus' \in Seq(Nat) /\ Len(bus') = Len(bus) + 1
        /\ \A i \in 1..Len(bus') : bus'[i] = IF i = Len(bus) + 1 THEN next ELSE bus[i]
    <3>1. bus' = Append(bus, next) /\ bus \in Seq(Nat) /\ next \in Nat
      BY <2>1 DEF IndicesOK
    <3> HIDE DEF Core
    <3> QED
      BY <3>1, AppendNat
  <2>3. IndicesOK'
    BY <2>1, <2>2 DEF IndicesOK
  <2>4. BusOK'
    <3>1. Len(bus') <= BusCapacity
      BY <2>1, <2>2 DEF IndicesOK, BusOK
    <3>2. ASSUME NEW i \in 1..Len(bus') PROVE bus'[i] <= commit
      <4>1. CASE i = Len(bus) + 1
        BY <2>1, <2>2, <4>1
      <4>2. CASE i # Len(bus) + 1
        <5>1. i \in 1..Len(bus)
          BY <2>2, <4>2 DEF IndicesOK
        <5> QED
          BY <2>2, <4>2, <5>1 DEF BusOK
      <4> QED
        BY <4>1, <4>2
    <3> QED
      BY <2>1, <3>1, <3>2 DEF BusOK
  <2>5. RetryOK' /\ QuietOK'
    BY <2>1 DEF RetryOK, QuietOK
  <2>6. DrainOK'
    BY <2>1, <2>2 DEF IndicesOK, DrainOK
  <2> QED
    BY <2>1, <2>3, <2>4, <2>5, <2>6
<1>2. CASE ~HasEntry(next)
  BY <1>2 DEF SendOne, IndicesOK, BusOK, RetryOK, DrainOK, QuietOK
<1> QED
  BY <1>1, <1>2

\* retry_deferred_broadcast sends one entry, or skips one.
LEMMA RetryOneKeepsCore == ASSUME Core, RetryOne PROVE Core'
<1> USE BroadcastAssumption DEF Core, NoIndex, workerVars
<1>1. CASE HasEntry(next)
  <2>1. /\ bus' = Append(bus, next) /\ next <= endIndex /\ Len(bus) # BusCapacity
        /\ pc = "retry" /\ lastBroadcast' = next /\ count' = count + 1 /\ next' = next + 1
        /\ UNCHANGED <<logLen, commit, pc, last, endIndex, changed, workerVars>>
    BY <1>1 DEF RetryOne, Broadcast, BusFull
  <2>2. /\ bus' \in Seq(Nat) /\ Len(bus') = Len(bus) + 1
        /\ \A i \in 1..Len(bus') : bus'[i] = IF i = Len(bus) + 1 THEN next ELSE bus[i]
    <3>1. bus' = Append(bus, next) /\ bus \in Seq(Nat) /\ next \in Nat
      BY <2>1 DEF IndicesOK
    <3> HIDE DEF Core
    <3> QED
      BY <3>1, AppendNat
  <2>3. IndicesOK'
    BY <2>1, <2>2 DEF IndicesOK
  <2> QED
    BY <2>1, <2>2, <2>3 DEF IndicesOK, BusOK, RetryOK, DrainOK, QuietOK
<1>2. CASE ~HasEntry(next)
  BY <1>2 DEF RetryOne, IndicesOK, BusOK, RetryOK, DrainOK, QuietOK
<1> QED
  BY <1>1, <1>2

\* retry_deferred_broadcast limits itself to MAX_BROADCAST_PER_TIMESTEP entries.
LEMMA RetryStartKeepsCore == ASSUME Core, RetryStart PROVE Core'
<1> USE BroadcastAssumption DEF Core, NoIndex, workerVars
<1>1. CASE lastBroadcast + 1 > commit
  BY <1>1 DEF RetryStart, ResumeAt, IndicesOK, BusOK, RetryOK, DrainOK, QuietOK
<1>2. CASE ~(lastBroadcast + 1 > commit)
  <2>1. /\ pc = "idle" /\ pc' = "retry" /\ next' = lastBroadcast + 1 /\ count' = 0
        /\ endIndex' = IF commit < lastBroadcast + MaxPerStep THEN commit ELSE lastBroadcast + MaxPerStep
        /\ UNCHANGED <<logLen, commit, lastBroadcast, last, bus, changed, workerVars>>
    BY <1>2 DEF RetryStart, ResumeAt
  <2>2. endIndex' \in Nat /\ endIndex' <= commit /\ next' \in Nat /\ next' <= endIndex' + 1
    BY <1>2, <2>1 DEF IndicesOK
  <2>3. IndicesOK'
    BY <2>1, <2>2 DEF IndicesOK
  <2>4. RetryOK'
    BY <2>1, <2>2 DEF IndicesOK, RetryOK
  <2>5. BusOK' /\ DrainOK' /\ QuietOK'
    BY <2>1 DEF BusOK, DrainOK, QuietOK
  <2> QED
    BY <2>1, <2>3, <2>4, <2>5
<1> QED
  BY <1>1, <1>2

\* The worker reads the commit index and tries its parked entry again.
LEMMA LoadCommitKeepsCore == ASSUME Core, LoadCommit PROVE Core'
<1>1. applied' \in Seq(Nat) /\ parked' = NoIndex
  <2>1. CASE parked = NoIndex
    BY <2>1 DEF LoadCommit, Core, IndicesOK
  <2>2. CASE parked # NoIndex
    <3>1. parked \in Nat /\ parked <= commit
      BY <2>2 DEF Core, IndicesOK, BusOK
    <3>2. applied' = Append(applied, parked) /\ parked' = NoIndex
      BY <2>2, <3>1 DEF LoadCommit
    <3> QED
      BY <3>1, <3>2, AppendNat DEF Core, IndicesOK
  <2> QED
    BY <2>1, <2>2
<1> QED
  BY <1>1 DEF LoadCommit, Core, NoIndex, raftVars, IndicesOK, BusOK, RetryOK, DrainOK, QuietOK

\* The worker takes one entry off the bus.
LEMMA ReceiveKeepsCore == ASSUME Core, Receive PROVE Core'
<1> USE BroadcastAssumption DEF Core, NoIndex, raftVars
<1>1. /\ Head(bus) = bus[1] /\ Head(bus) \in Nat /\ 1 \in 1..Len(bus)
      /\ bus' \in Seq(Nat) /\ Len(bus') = Len(bus) - 1
      /\ \A i \in 1..Len(bus') : bus'[i] = bus[i + 1] /\ i + 1 \in 1..Len(bus)
  BY DEF Receive, IndicesOK
<1>2. applied' \in Seq(Nat)
  <2>1. CASE Head(bus) <= wCommit
    <3>1. applied' = Append(applied, Head(bus))
      BY <2>1 DEF Receive
    <3> QED
      BY <1>1, <3>1, AppendNat DEF IndicesOK
  <2>2. CASE ~(Head(bus) <= wCommit)
    BY <2>2 DEF Receive, IndicesOK
  <2> QED
    BY <2>1, <2>2
<1>3. IndicesOK'
  BY <1>1, <1>2 DEF Receive, IndicesOK
<1>4. BusOK'
  BY <1>1 DEF Receive, IndicesOK, BusOK
<1>5. RetryOK'
  BY DEF Receive, RetryOK
<1>6. DrainOK'
  BY <1>1 DEF Receive, IndicesOK, DrainOK
<1>7. QuietOK'
  <2>1. CASE Head(bus) <= wCommit
    BY <2>1 DEF Receive, QuietOK
  <2>2. CASE ~(Head(bus) <= wCommit)
    BY <1>1, <2>2 DEF Receive, DrainOK, QuietOK
  <2> QED
    BY <2>1, <2>2
<1> QED
  BY <1>3, <1>4, <1>5, <1>6, <1>7 DEF Receive

-----------------------------------------------------------------------------
(* Every step keeps the invariant.                                         *)

\* The deferred flag and the version comparison stay Boolean.
LEMMA NextKeepsFlags == FlagsOK /\ [Next]_vars => FlagsOK'
<1> SUFFICES ASSUME FlagsOK, [Next]_vars PROVE FlagsOK'
  OBVIOUS
<1> USE DEF FlagsOK, raftVars, workerVars
<1>1. CASE BroadcastStep
  <2>1. ASSUME NEW l, FinishBroadcast(l) PROVE FlagsOK'
    BY <2>1, SMT DEF FinishBroadcast, LeftOver
  <2>2. CASE SendDone \/ FullLeave \/ FullDone
    BY <2>1, <2>2, Zenon DEF SendDone, FullLeave, FullDone
  <2>3. CASE BumpVersion \/ SendOne \/ SendFull \/ FullSend \/ FullRetry
    BY <2>3, Zenon DEF BumpVersion, SendOne, SendFull, FullSend, FullRetry
  <2>4. CASE RetryOne \/ RetryFull \/ RetryDone
    BY <2>4, Zenon DEF RetryOne, RetryFull, RetryDone, RetryWakes
  <2> QED
    BY <1>1, <2>2, <2>3, <2>4 DEF BroadcastStep
<1>2. CASE RetryStart \/ LeaderInit
  BY <1>2, Zenon DEF RetryStart, LeaderInit
<1>3. CASE \E c \in 0..(MaxLog - 1) : Commit(c) \/ Push(c)
  BY <1>3, Zenon DEF Commit, Push
<1>4. CASE WorkerStep \/ ClientGet
  BY <1>4, Zenon DEF WorkerStep, Poll, LoadCommit, Receive, BusEmpty, ParkedRead, NextRead, NoMoreReads, ClientGet
<1>5. CASE UNCHANGED vars
  BY <1>5, Zenon DEF vars
<1> QED
  BY <1>1, <1>2, <1>3, <1>4, <1>5 DEF Next, RaftStep

\* No step of either thread breaks the invariant.
LEMMA NextKeepsCore == Core /\ [Next]_vars => Core'
<1> SUFFICES ASSUME Core, [Next]_vars PROVE Core'
  OBVIOUS
<1> USE BroadcastAssumption DEF Core, IndicesOK, BusOK, RetryOK, DrainOK, QuietOK, NoIndex, raftVars, workerVars
<1>1. CASE BumpVersion
  BY <1>1 DEF BumpVersion, EnterBroadcast, ResumeAt
<1>2. CASE SendFull
  BY <1>2 DEF SendFull, HasEntry, BusFull
<1>3. CASE SendDone
  BY <1>3 DEF SendDone, SendReached, FinishBroadcast
<1>4. CASE FullSend
  BY <1>4 DEF FullSend, HasEntry, Broadcast, BusFull
<1>5. CASE FullRetry
  BY <1>5 DEF FullRetry, HasEntry, BusFull
<1>6. CASE FullLeave
  BY <1>6 DEF FullLeave, HasEntry, BusFull, FullReached, FinishBroadcast
<1>7. CASE FullDone
  BY <1>7 DEF FullDone, FinishBroadcast
<1>8. CASE RetryFull
  BY <1>8 DEF RetryFull, HasEntry, BusFull
<1>9. CASE RetryDone
  BY <1>9 DEF RetryDone, RetryWakes
<1>10. CASE LeaderInit
  BY <1>10 DEF LeaderInit, EnterBroadcast, ResumeAt
<1>11. CASE Poll
  BY <1>11 DEF Poll
<1>12. CASE BusEmpty
  BY <1>12 DEF BusEmpty
<1>13. CASE ParkedRead
  BY <1>13 DEF ParkedRead, Answer, WaitAt
<1>14. CASE NextRead
  BY <1>14 DEF NextRead, Answer
<1>15. CASE NoMoreReads
  BY <1>15 DEF NoMoreReads
<1>16. CASE ClientGet
  BY <1>16 DEF ClientGet
<1>17. CASE SendOne
  BY <1>17, SendOneKeepsCore
<1>18. CASE RetryOne
  BY <1>18, RetryOneKeepsCore
<1>19. CASE RetryStart
  BY <1>19, RetryStartKeepsCore
<1>20. CASE LoadCommit
  BY <1>20, LoadCommitKeepsCore
<1>21. CASE Receive
  BY <1>21, ReceiveKeepsCore
<1>22. ASSUME NEW c \in 0..(MaxLog - 1), Commit(c) PROVE Core'
  BY <1>22, SMTT(30) DEF Commit, AdvanceCommit
<1>23. ASSUME NEW c \in 0..(MaxLog - 1), Push(c) PROVE Core'
  BY <1>23, SMTT(30) DEF Push, AdvanceCommit
<1>24. CASE UNCHANGED vars
  BY <1>24 DEF vars
<1> QED
  BY <1>1, <1>2, <1>3, <1>4, <1>5, <1>6, <1>7, <1>8, <1>9, <1>10, <1>11, <1>12,
     <1>13, <1>14, <1>15, <1>16, <1>17, <1>18, <1>19, <1>20, <1>21, <1>22, <1>23, <1>24
  DEF Next, RaftStep, BroadcastStep, WorkerStep

\* Type correctness: the indices, flags and program counters of both threads stay
\* in their types, for every log length, bus capacity and chunk size.
THEOREM TypeCorrect == Spec => []TypeOK
<1>1. Init => IInv
  BY InitIInv
<1>2. IInv /\ [Next]_vars => IInv'
  BY NextKeepsFlags, NextKeepsCore DEF IInv
<1>3. IInv => TypeOK
  BY DEF IInv, Core, TypeOK
<1> QED
  BY <1>1, <1>2, <1>3, PTL DEF Spec

\* The query worker is never left asleep beside entries it should apply: when the
\* Raft thread is out of the broadcast code and the worker is not draining, a
\* non-empty bus or a parked entry implies a version the worker has yet to see.
THEOREM WakeupNotLost == Spec => []NoLostWakeup
<1>1. Init => IInv
  BY InitIInv
<1>2. IInv /\ [Next]_vars => IInv'
  BY NextKeepsFlags, NextKeepsCore DEF IInv
<1>3. IInv => NoLostWakeup
  BY DEF IInv, Core, QuietOK, NoLostWakeup
<1> QED
  BY <1>1, <1>2, <1>3, PTL DEF Spec

-----------------------------------------------------------------------------
(* Where the Raft thread is in the log, and what it has broadcast so far.  *)

\* broadcast_committed_entries has sent nothing yet and its first entry is in the
\* log, or it has sent up to last, and skips what the log does not hold.
SendPlace ==
  \/ next = lastBroadcast + 1 /\ next <= commit /\ next < logLen
  \/ /\ lastBroadcast < last /\ last < next /\ last < logLen /\ last <= commit
     /\ next <= commit + 1
     /\ next = last + 1 \/ last + 1 = logLen

\* broadcast_committed_entries_when_bus_full: all before next is sent.
FullPlace ==
  /\ lastBroadcast < last /\ last <= next /\ last < logLen /\ last <= commit
  /\ next <= logLen /\ next <= commit + 1

\* retry_deferred_broadcast notes each entry it sends.
RetryPlace ==
  /\ lastBroadcast < next
  /\ next = lastBroadcast + 1 \/ lastBroadcast + 1 = logLen

\* Nothing is broadcast that is not in the log and committed, and the worker
\* drains the bus only when nothing is parked.
PlaceOK ==
  /\ commit < MaxLog /\ lastBroadcast <= commit /\ lastBroadcast < logLen
  /\ wpc = "drain" => parked = NoIndex
  /\ pc = "bump" => lastBroadcast + 1 < logLen
  /\ pc = "send" => SendPlace
  /\ pc = "full" => FullPlace
  /\ pc = "retry" => RetryPlace

\* The index up to which entries are sent, or given up.
Top ==
  CASE pc = "send" -> IF next = lastBroadcast + 1 THEN lastBroadcast ELSE last
    [] pc = "full" -> next - 1
    [] OTHER -> lastBroadcast

\* No step breaks it: the loops of the Raft thread stay within the committed log.
LEMMA NextKeepsPlace ==
  ASSUME Core, PlaceOK, [Next]_vars
  PROVE  PlaceOK'
<1> USE BroadcastAssumption DEF PlaceOK, Core, IndicesOK, NoIndex, raftVars, workerVars
<1>1. CASE BumpVersion
  BY <1>1 DEF BumpVersion, EnterBroadcast, ResumeAt, SendPlace
<1>2. CASE SendOne
  <2>1. /\ pc = "send" /\ pc' = pc /\ next <= commit /\ next' = next + 1
        /\ \/ next < logLen /\ last' = next
           \/ ~(next < logLen) /\ last' = last
        /\ UNCHANGED <<logLen, commit, lastBroadcast, wpc, parked>>
    BY <1>2 DEF SendOne, HasEntry
  <2>2. /\ next \in Nat /\ last \in Nat /\ logLen \in Nat /\ commit \in Nat
        /\ lastBroadcast \in Int /\ SendPlace
    BY <2>1
  <2> HIDE DEF PlaceOK, Core, IndicesOK
  <2>3. SendPlace'
    BY <2>1, <2>2 DEF SendPlace
  <2> QED
    BY <2>1, <2>3 DEF PlaceOK
<1>3. CASE SendFull
  BY <1>3 DEF SendFull, HasEntry, SendPlace, FullPlace
<1>4. CASE SendDone
  BY <1>4 DEF SendDone, SendReached, FinishBroadcast, SendPlace
<1>5. CASE FullSend
  BY <1>5 DEF FullSend, HasEntry, FullPlace
<1>6. CASE FullRetry
  BY <1>6 DEF FullRetry, FullPlace
<1>7. CASE FullLeave
  BY <1>7 DEF FullLeave, HasEntry, FullReached, FinishBroadcast, FullPlace
<1>8. CASE FullDone
  BY <1>8 DEF FullDone, FinishBroadcast, FullPlace
<1>9. CASE RetryOne
  BY <1>9 DEF RetryOne, HasEntry, RetryPlace, RetryOK
<1>10. CASE RetryFull
  BY <1>10 DEF RetryFull
<1>11. CASE RetryDone
  BY <1>11 DEF RetryDone
<1>12. CASE RetryStart
  <2>1. /\ \/ pc' = "idle"
           \/ pc' = "retry" /\ next' = lastBroadcast + 1
        /\ UNCHANGED <<logLen, commit, lastBroadcast, wpc, parked>>
    BY <1>12 DEF RetryStart, ResumeAt
  <2>2. pc' = "retry" => RetryPlace'
    BY <2>1 DEF RetryPlace
  <2> QED
    BY <2>1, <2>2
<1>13. CASE LeaderInit
  BY <1>13 DEF LeaderInit, EnterBroadcast, ResumeAt, SendPlace
<1>14. ASSUME NEW c \in 0..(MaxLog - 1), Commit(c) PROVE PlaceOK'
  BY <1>14 DEF Commit, AdvanceCommit
<1>15. ASSUME NEW c \in 0..(MaxLog - 1), Push(c) PROVE PlaceOK'
  BY <1>15 DEF Push, AdvanceCommit
<1>16. CASE Poll \/ BusEmpty
  BY <1>16 DEF Poll, BusEmpty, SendPlace, FullPlace, RetryPlace
<1>17. CASE LoadCommit
  BY <1>17 DEF LoadCommit, BusOK, SendPlace, FullPlace, RetryPlace
<1>18. CASE Receive
  BY <1>18 DEF Receive, SendPlace, FullPlace, RetryPlace
<1>19. CASE ParkedRead \/ NextRead \/ NoMoreReads \/ ClientGet
  BY <1>19 DEF ParkedRead, NextRead, NoMoreReads, ClientGet, WaitAt, SendPlace, FullPlace, RetryPlace
<1>20. CASE UNCHANGED vars
  BY <1>20 DEF vars, SendPlace, FullPlace, RetryPlace
<1> QED
  BY <1>1, <1>2, <1>3, <1>4, <1>5, <1>6, <1>7, <1>8, <1>9, <1>10, <1>11, <1>12,
     <1>13, <1>14, <1>15, <1>16, <1>17, <1>18, <1>19, <1>20
  DEF Next, RaftStep, BroadcastStep, WorkerStep

-----------------------------------------------------------------------------
(* The pipeline as one sequence.                                           *)

Held(p) == IF p = NoIndex THEN <<>> ELSE <<p>>
Piped(a, p, b) == a \o Held(p) \o b

\* The pipeline is a sequence of indices.
LEMMA PipedType ==
  ASSUME NEW a \in Seq(Nat), NEW p \in Nat \cup {NoIndex}, NEW b \in Seq(Nat)
  PROVE  /\ Held(p) \in Seq(Nat) /\ a \o Held(p) \in Seq(Nat)
         /\ Piped(a, p, b) \in Seq(Nat)
<1>1. Held(p) \in Seq(Nat)
  BY DEF Held
<1>2. a \o Held(p) \in Seq(Nat)
  BY <1>1, ConcatProperties
<1> QED
  BY <1>1, <1>2, ConcatProperties DEF Piped

\* An entry put on the bus comes last.
LEMMA ConcatAppend ==
  ASSUME NEW c \in Seq(Nat), NEW b \in Seq(Nat), NEW e \in Nat
  PROVE  c \o Append(b, e) = Append(c \o b, e)
<1>1. <<e>> \in Seq(Nat) /\ c \o b \in Seq(Nat)
  BY ConcatProperties
<1>2. Append(b, e) = b \o <<e>> /\ Append(c \o b, e) = (c \o b) \o <<e>>
  BY <1>1, AppendIsConcat
<1>3. (c \o b) \o <<e>> = c \o (b \o <<e>>)
  BY <1>1, ConcatAssociative
<1> QED
  BY <1>2, <1>3

\* Bus::broadcast puts an entry at the end of the pipeline.
LEMMA PipedAppend ==
  ASSUME NEW a \in Seq(Nat), NEW p \in Nat \cup {NoIndex}, NEW b \in Seq(Nat), NEW e \in Nat
  PROVE  Piped(a, p, Append(b, e)) = Append(Piped(a, p, b), e)
<1>1. a \o Held(p) \in Seq(Nat)
  BY PipedType
<1> QED
  BY <1>1, ConcatAppend DEF Piped

\* The parked entry, applied.
LEMMA PipedApplyParked ==
  ASSUME NEW a \in Seq(Nat), NEW p \in Nat, NEW b \in Seq(Nat)
  PROVE  Piped(Append(a, p), NoIndex, b) = Piped(a, p, b)
<1>1. Append(a, p) \in Seq(Nat) /\ Append(a, p) = a \o <<p>>
  BY AppendIsConcat, AppendProperties
<1>2. Held(NoIndex) = <<>> /\ Held(p) = <<p>>
  BY DEF Held, NoIndex
<1>3. Append(a, p) \o <<>> = Append(a, p)
  BY <1>1, ConcatEmptySeq
<1> QED
  BY <1>1, <1>2, <1>3 DEF Piped

\* The first entry of the bus, applied or parked.
LEMMA PipedReceive ==
  ASSUME NEW a \in Seq(Nat), NEW b \in Seq(Nat), b # <<>>
  PROVE  /\ Head(b) \in Nat /\ Tail(b) \in Seq(Nat)
         /\ Piped(Append(a, Head(b)), NoIndex, Tail(b)) = Piped(a, NoIndex, b)
         /\ Piped(a, Head(b), Tail(b)) = Piped(a, NoIndex, b)
<1> DEFINE h == Head(b)
           t == Tail(b)
<1>1. h \in Nat /\ t \in Seq(Nat) /\ <<h>> \in Seq(Nat) /\ b = <<h>> \o t
  OBVIOUS
<1>2. Held(NoIndex) = <<>> /\ Held(h) = <<h>>
  BY <1>1 DEF Held, NoIndex
<1> HIDE DEF h, t
<1>3. (a \o <<h>>) \o t = a \o (<<h>> \o t)
  BY <1>1, ConcatAssociative
<1>4. a \o <<>> = a
  BY ConcatEmptySeq
<1>5. Piped(a, h, t) = Piped(a, NoIndex, b)
  BY <1>1, <1>2, <1>3, <1>4 DEF Piped
<1>6. Piped(Append(a, h), NoIndex, t) = Piped(a, h, t)
  BY <1>1, PipedApplyParked
<1> QED
  BY <1>1, <1>5, <1>6 DEF h, t

\* The pipeline as a function of the map, the parked entry and the bus.
LEMMA PipelineIsPiped ==
  /\ Pipeline = Piped(applied, parked, bus)
  /\ Pipeline' = Piped(applied', parked', bus')
BY DEF Pipeline, Piped, Held

\* A step sends the entry after the last one sent, or leaves the pipeline as it is;
\* entries are given up only when 100 attempts on a full bus have failed.
Move ==
  \/ Pipeline' = Pipeline /\ Top' >= Top /\ (~SlowConsumer => Top' = Top)
  \/ Pipeline' = Append(Pipeline, Top + 1) /\ Top' = Top + 1

\* The three loops that send.
LEMMA Sends ==
  ASSUME Core, PlaceOK, bus' = Append(bus, next), next = Top + 1,
         UNCHANGED <<applied, parked>>
  PROVE  Pipeline' = Append(Pipeline, Top + 1)
<1>1. applied \in Seq(Nat) /\ parked \in Nat \cup {NoIndex} /\ bus \in Seq(Nat) /\ next \in Nat
  BY DEF Core, IndicesOK
<1>2. Piped(applied, parked, Append(bus, next)) = Append(Piped(applied, parked, bus), next)
  BY <1>1, PipedAppend
<1> QED
  BY <1>2, PipelineIsPiped

\* The worker moves entries along the pipeline; it neither loses nor reorders them.
LEMMA WorkerKeepsPipeline ==
  ASSUME Core, PlaceOK, LoadCommit \/ Receive
  PROVE  Pipeline' = Pipeline
<1>1. applied \in Seq(Nat) /\ parked \in Nat \cup {NoIndex} /\ bus \in Seq(Nat)
  BY DEF Core, IndicesOK
<1>2. CASE LoadCommit
  <2>1. CASE parked # NoIndex /\ parked <= commit
    <3>1. parked \in Nat /\ applied' = Append(applied, parked) /\ parked' = NoIndex /\ bus' = bus
      BY <1>1, <1>2, <2>1 DEF LoadCommit
    <3> QED
      BY <1>1, <3>1, PipedApplyParked, PipelineIsPiped
  <2>2. CASE ~(parked # NoIndex /\ parked <= commit)
    BY <1>2, <2>2, PipelineIsPiped DEF LoadCommit
  <2> QED
    BY <2>1, <2>2
<1>3. CASE Receive
  <2>1. parked = NoIndex /\ bus # <<>> /\ bus' = Tail(bus)
    BY <1>3 DEF Receive, PlaceOK
  <2>2. \/ applied' = Append(applied, Head(bus)) /\ parked' = parked
        \/ parked' = Head(bus) /\ applied' = applied
    BY <1>3 DEF Receive
  <2>3. /\ Piped(Append(applied, Head(bus)), parked, bus') = Piped(applied, parked, bus)
        /\ Piped(applied, Head(bus), bus') = Piped(applied, parked, bus)
    BY <1>1, <2>1, PipedReceive
  <2> QED
    BY <2>2, <2>3, PipelineIsPiped
<1> QED
  BY <1>2, <1>3

\* Every step of the two threads is such a move.
LEMMA NextMoves ==
  ASSUME Core, PlaceOK, [Next]_vars
  PROVE  Move
<1>0. /\ logLen \in Nat /\ commit \in Nat /\ next \in Nat /\ last \in Nat
      /\ lastBroadcast \in Int /\ Top \in Int
      /\ pc \in {"idle", "bump", "send", "full", "retry"}
  BY BroadcastAssumption DEF Core, IndicesOK, NoIndex, Top
<1>1. ASSUME UNCHANGED <<applied, parked, bus, pc, next, last, lastBroadcast>> PROVE Move
  <2>1. Top' = Top
    BY <1>1 DEF Top
  <2> QED
    BY <1>0, <1>1, <2>1, PipelineIsPiped DEF Move
<1>2. ASSUME UNCHANGED <<applied, parked, bus>>, Top' = Top PROVE Move
  BY <1>0, <1>2, PipelineIsPiped DEF Move
<1>3. CASE BumpVersion \/ LeaderInit
  <2>1. Top' = Top
    BY <1>0, <1>3 DEF BumpVersion, LeaderInit, EnterBroadcast, ResumeAt, Top
  <2>2. UNCHANGED <<applied, parked, bus>>
    BY <1>3 DEF BumpVersion, LeaderInit, workerVars
  <2> QED
    BY <1>2, <2>1, <2>2
<1>4. CASE SendOne
  <2>1. CASE HasEntry(next)
    <3>1. /\ pc = "send" /\ pc' = pc /\ next <= commit /\ next' = next + 1 /\ last' = next
          /\ bus' = Append(bus, next) /\ next < logLen
          /\ UNCHANGED <<lastBroadcast, applied, parked>>
      BY <1>4, <2>1 DEF SendOne, HasEntry, Broadcast, workerVars
    <3>2. SendPlace
      BY <3>1 DEF PlaceOK
    <3>3. next = Top + 1 /\ Top' = Top + 1
      BY <1>0, <3>1, <3>2 DEF SendPlace, Top
    <3> QED
      BY <3>1, <3>3, Sends DEF Move
  <2>2. CASE ~HasEntry(next)
    <3>1. /\ pc = "send" /\ pc' = pc /\ next <= commit /\ next' = next + 1 /\ ~(next < logLen)
          /\ UNCHANGED <<lastBroadcast, last, applied, parked, bus>>
      BY <1>4, <2>2 DEF SendOne, HasEntry, workerVars
    <3>2. SendPlace
      BY <3>1 DEF PlaceOK
    <3>3. Top' = Top
      BY <1>0, <3>1, <3>2 DEF SendPlace, Top
    <3> QED
      BY <1>2, <3>1, <3>3
  <2> QED
    BY <2>1, <2>2
<1>5. CASE SendFull
  <2>1. /\ pc = "send" /\ pc' = "full" /\ next < logLen
        /\ UNCHANGED <<next, applied, parked, bus>>
    BY <1>5 DEF SendFull, HasEntry, workerVars
  <2>2. SendPlace
    BY <2>1 DEF PlaceOK
  <2>3. Top' = Top
    BY <1>0, <2>1, <2>2 DEF SendPlace, Top
  <2> QED
    BY <1>2, <2>1, <2>3
<1>6. CASE SendDone
  <2>1. /\ pc = "send" /\ pc' = "idle" /\ next > commit /\ lastBroadcast' = last
        /\ UNCHANGED <<applied, parked, bus>>
    BY <1>6 DEF SendDone, SendReached, FinishBroadcast, workerVars
  <2>2. SendPlace
    BY <2>1 DEF PlaceOK
  <2>3. Top' = Top
    BY <1>0, <2>1, <2>2 DEF SendPlace, Top
  <2> QED
    BY <1>2, <2>1, <2>3
<1>7. CASE FullSend
  <2>1. /\ pc = "full" /\ pc' = pc /\ next' = next + 1 /\ bus' = Append(bus, next)
        /\ UNCHANGED <<applied, parked>>
    BY <1>7 DEF FullSend, Broadcast, workerVars
  <2>2. Top = next - 1 /\ Top' = next' - 1
    BY <2>1 DEF Top
  <2>3. next = Top + 1 /\ Top' = Top + 1
    BY <1>0, <2>1, <2>2
  <2> QED
    BY <2>1, <2>3, Sends DEF Move
<1>8. CASE FullLeave
  <2>1. /\ pc = "full" /\ pc' = "idle" /\ UNCHANGED <<applied, parked, bus>>
        /\ lastBroadcast' = IF next > last THEN next - 1 ELSE last
        /\ ~SlowConsumer => ~(next < logLen)
    BY <1>8 DEF FullLeave, HasEntry, FullReached, FinishBroadcast, workerVars
  <2>2. last < logLen /\ last <= next
    BY <2>1 DEF PlaceOK, FullPlace
  <2>3. Top = next - 1 /\ Top' = lastBroadcast'
    BY <2>1 DEF Top
  <2>4. Top' >= Top /\ (~SlowConsumer => Top' = Top)
    BY <1>0, <2>1, <2>2, <2>3
  <2> QED
    BY <2>1, <2>4, PipelineIsPiped DEF Move
<1>9. CASE FullDone
  <2>1. /\ pc = "full" /\ pc' = "idle" /\ UNCHANGED <<applied, parked, bus>>
        /\ lastBroadcast' = commit /\ next > commit
    BY <1>9 DEF FullDone, FinishBroadcast, workerVars
  <2>2. next <= commit + 1
    BY <2>1 DEF PlaceOK, FullPlace
  <2>3. Top' = Top
    BY <1>0, <2>1, <2>2 DEF Top
  <2> QED
    BY <1>2, <2>1, <2>3
<1>10. CASE RetryOne
  <2>1. CASE HasEntry(next)
    <3>1. /\ pc = "retry" /\ pc' = pc /\ lastBroadcast' = next
          /\ bus' = Append(bus, next) /\ next < logLen /\ UNCHANGED <<applied, parked>>
      BY <1>10, <2>1 DEF RetryOne, HasEntry, Broadcast, workerVars
    <3>2. RetryPlace
      BY <3>1 DEF PlaceOK
    <3>3. next = Top + 1 /\ Top' = Top + 1
      BY <1>0, <3>1, <3>2 DEF RetryPlace, Top
    <3> QED
      BY <3>1, <3>3, Sends DEF Move
  <2>2. CASE ~HasEntry(next)
    <3>1. pc = "retry" /\ pc' = pc /\ UNCHANGED <<lastBroadcast, applied, parked, bus>>
      BY <1>10, <2>2 DEF RetryOne, workerVars
    <3>2. Top' = Top
      BY <3>1 DEF Top
    <3> QED
      BY <1>2, <3>1, <3>2
  <2> QED
    BY <2>1, <2>2
<1>11. CASE RetryFull \/ RetryDone \/ RetryStart
  <2>1. /\ pc \in {"retry", "idle"} /\ pc' \in {"retry", "idle"}
        /\ UNCHANGED <<lastBroadcast, applied, parked, bus>>
    BY <1>11 DEF RetryFull, RetryDone, RetryStart, workerVars
  <2>2. Top' = Top
    BY <2>1 DEF Top
  <2> QED
    BY <1>2, <2>1, <2>2
<1>12. ASSUME NEW c, Commit(c) \/ Push(c) PROVE Move
  <2>1. /\ pc = "idle" /\ pc' \in {"idle", "bump"}
        /\ UNCHANGED <<lastBroadcast, applied, parked, bus>>
    BY <1>12 DEF Commit, Push, AdvanceCommit, workerVars
  <2>2. Top' = Top
    BY <2>1 DEF Top
  <2> QED
    BY <1>2, <2>1, <2>2
<1>13. CASE LoadCommit \/ Receive
  <2>1. UNCHANGED <<pc, next, last, lastBroadcast>>
    BY <1>13 DEF LoadCommit, Receive, raftVars
  <2>2. Top' = Top
    BY <2>1 DEF Top
  <2> QED
    BY <1>0, <1>13, <2>2, WorkerKeepsPipeline DEF Move
<1>14. CASE FullRetry \/ Poll \/ BusEmpty \/ ParkedRead \/ NextRead \/ NoMoreReads \/ ClientGet \/ UNCHANGED vars
  BY <1>1, <1>14
     DEF FullRetry, Poll, BusEmpty, ParkedRead, NextRead, NoMoreReads, ClientGet, vars, raftVars, workerVars
<1> QED
  BY <1>3, <1>4, <1>5, <1>6, <1>7, <1>8, <1>9, <1>10, <1>11, <1>12, <1>13, <1>14
  DEF Next, RaftStep, BroadcastStep, WorkerStep

-----------------------------------------------------------------------------
(* What readers may rely on.                                               *)

Increasing(s) == \A i, j \in 1..Len(s) : i < j => s[i] < s[j]
UpTo(s, b) == \A i \in 1..Len(s) : s[i] <= b
Gapless(s) == \A i \in 1..Len(s) : s[i] = i - 1

\* The pipeline holds indices in log order up to Top; when no entry is given up, it
\* holds all of them.
PipelineOK ==
  /\ Increasing(Pipeline) /\ UpTo(Pipeline, Top)
  /\ ~SlowConsumer => Gapless(Pipeline) /\ Len(Pipeline) = Top + 1 /\ ReadSeesCommitted

PInv == IInv /\ PlaceOK /\ PipelineOK

\* The entry after the last one sent goes last.
LEMMA NextEntry ==
  ASSUME NEW s \in Seq(Nat), NEW b \in Int, b + 1 \in Nat, Increasing(s), UpTo(s, b)
  PROVE  LET t == Append(s, b + 1) IN
         /\ Increasing(t) /\ UpTo(t, b + 1)
         /\ Gapless(s) /\ Len(s) = b + 1 => Gapless(t) /\ Len(t) = b + 2
<1> DEFINE t == Append(s, b + 1)
<1>1. /\ Len(s) \in Nat /\ Len(t) = Len(s) + 1
      /\ \A i \in 1..Len(t) : t[i] = IF i = Len(s) + 1 THEN b + 1 ELSE s[i]
      /\ \A i \in 1..Len(s) : s[i] \in Nat
  BY AppendNat
<1> HIDE DEF t
<1>2. Increasing(t)
  <2> SUFFICES ASSUME NEW i \in 1..Len(t), NEW j \in 1..Len(t), i < j
               PROVE  t[i] < t[j]
    BY DEF Increasing
  <2>1. i \in 1..Len(s) /\ t[i] = s[i] /\ s[i] \in Nat
    BY <1>1
  <2>2. CASE j = Len(s) + 1
    BY <1>1, <2>1, <2>2 DEF UpTo
  <2>3. CASE j # Len(s) + 1
    <3>1. j \in 1..Len(s) /\ t[j] = s[j]
      BY <1>1, <2>3
    <3> QED
      BY <2>1, <3>1 DEF Increasing
  <2> QED
    BY <2>2, <2>3
<1>3. UpTo(t, b + 1)
  BY <1>1 DEF UpTo
<1>4. Gapless(s) /\ Len(s) = b + 1 => Gapless(t) /\ Len(t) = b + 2
  BY <1>1 DEF Gapless
<1> QED
  BY <1>2, <1>3, <1>4 DEF t

TopOK == Top \in Int /\ Top >= -1 /\ Top <= commit /\ Top < logLen

\* What is sent or given up is committed and in the log.
LEMMA TopBounds == Core /\ PlaceOK => TopOK
<1> SUFFICES ASSUME Core, PlaceOK PROVE TopOK
  OBVIOUS
<1>0. /\ logLen \in Nat /\ commit \in Nat /\ next \in Nat /\ last \in Nat
      /\ lastBroadcast \in Int /\ lastBroadcast >= -1 /\ lastBroadcast <= commit /\ lastBroadcast < logLen
      /\ pc = "send" => SendPlace
      /\ pc = "full" => FullPlace
  BY BroadcastAssumption DEF Core, IndicesOK, NoIndex, PlaceOK
<1>1. CASE pc = "send"
  BY <1>0, <1>1 DEF Top, TopOK, SendPlace
<1>2. CASE pc = "full"
  BY <1>0, <1>2 DEF Top, TopOK, FullPlace
<1>3. CASE pc # "send" /\ pc # "full"
  <2>1. Top = lastBroadcast
    BY <1>3 DEF Top
  <2> QED
    BY <1>0, <2>1 DEF TopOK
<1> QED
  BY <1>1, <1>2, <1>3

\* The pipeline is a sequence of indices in every state.
LEMMA PipelineType == ASSUME Core PROVE Pipeline \in Seq(Nat)
BY PipedType, PipelineIsPiped DEF Core, IndicesOK

\* The map holds the beginning of the pipeline.
LEMMA AppliedIsPrefix ==
  ASSUME Core
  PROVE  /\ Len(applied) \in Nat /\ Len(applied) <= Len(Pipeline)
         /\ \A i \in 1..Len(applied) : Pipeline[i] = applied[i]
<1>1. applied \in Seq(Nat) /\ Held(parked) \in Seq(Nat) /\ bus \in Seq(Nat) /\ applied \o Held(parked) \in Seq(Nat)
  BY PipedType DEF Core, IndicesOK
<1>2. Pipeline = (applied \o Held(parked)) \o bus
  BY PipelineIsPiped DEF Piped
<1> DEFINE c == applied \o Held(parked)
<1>3. /\ Len(c) = Len(applied) + Len(Held(parked))
      /\ \A i \in 1..Len(applied) + Len(Held(parked)) :
            c[i] = IF i <= Len(applied) THEN applied[i] ELSE Held(parked)[i - Len(applied)]
  BY <1>1, ConcatProperties
<1>4. c \in Seq(Nat)
  BY <1>1
<1> HIDE DEF c
<1>5. /\ Len(c \o bus) = Len(c) + Len(bus)
      /\ \A i \in 1..Len(c) + Len(bus) : (c \o bus)[i] = IF i <= Len(c) THEN c[i] ELSE bus[i - Len(c)]
  BY <1>1, <1>4, ConcatProperties
<1>6. Pipeline = c \o bus
  BY <1>2 DEF c
<1>7. Len(applied) \in Nat /\ Len(Held(parked)) \in Nat /\ Len(bus) \in Nat
  BY <1>1
<1> QED
  BY <1>3, <1>5, <1>6, <1>7

\* An answered read has the index the map has reached, so it sees all before it.
LEMMA ReadsAreComplete ==
  ASSUME Core, Gapless(Pipeline), ReadSeesCommitted, [Next]_vars
  PROVE  ReadSeesCommitted'
<1>1. CASE lastRead' = lastRead
  BY <1>1 DEF ReadSeesCommitted
<1>2. ASSUME NEW q \in Nat, Answer(q) PROVE ReadSeesCommitted'
  <2>1. lastRead' = [index |-> q, seen |-> {applied[i] : i \in 1..Len(applied)}] /\ q <= appliedIndex
    BY <1>2 DEF Answer, Reached
  <2>2. lastRead'.index = q /\ lastRead'.seen = {applied[i] : i \in 1..Len(applied)}
    BY <2>1
  <2>3. ASSUME q > 0, NEW k \in 0..q PROVE k \in lastRead'.seen
    <3>1. applied \in Seq(Nat)
      BY DEF Core, IndicesOK
    <3>2. applied # <<>> /\ q <= applied[Len(applied)]
      BY <2>1, <2>3 DEF appliedIndex
    <3>3. Len(applied) \in 1..Len(applied)
      BY <3>1, <3>2
    <3>4. \A i \in 1..Len(applied) : applied[i] = i - 1
      BY AppliedIsPrefix DEF Gapless
    <3>5. k + 1 \in 1..Len(applied) /\ applied[k + 1] = k
      BY <3>1, <3>2, <3>3, <3>4
    <3> QED
      BY <2>2, <3>5
  <2> QED
    BY <2>2, <2>3 DEF ReadSeesCommitted
<1>3. CASE ParkedRead
  <2>1. parkedRead \in Nat
    BY <1>3 DEF ParkedRead, Core, IndicesOK
  <2> QED
    BY <1>1, <1>2, <1>3, <2>1 DEF ParkedRead
<1>4. CASE NextRead
  <2>1. Head(readQueue) \in Nat
    BY <1>4 DEF NextRead, Core, IndicesOK
  <2> QED
    BY <1>1, <1>2, <1>4, <2>1 DEF NextRead
<1>5. CASE BroadcastStep
  BY <1>1, <1>5 DEF BroadcastStep, BumpVersion, SendOne, SendFull, SendDone, FullSend, FullRetry, FullLeave, FullDone,
                    FinishBroadcast, RetryOne, RetryFull, RetryDone, workerVars
<1>6. CASE RetryStart \/ LeaderInit \/ \E c \in 0..(MaxLog - 1) : Commit(c) \/ Push(c)
  BY <1>1, <1>6 DEF RetryStart, LeaderInit, Commit, Push, workerVars
<1>7. CASE Poll \/ LoadCommit \/ Receive \/ BusEmpty \/ NoMoreReads \/ ClientGet
  BY <1>1, <1>7 DEF Poll, LoadCommit, Receive, BusEmpty, NoMoreReads, ClientGet
<1>8. CASE UNCHANGED vars
  BY <1>1, <1>8 DEF vars, workerVars
<1> QED
  BY <1>3, <1>4, <1>5, <1>6, <1>7, <1>8 DEF Next, RaftStep, WorkerStep

\* Nothing has been broadcast at first.
LEMMA InitPInv == Init => PInv
<1> SUFFICES ASSUME Init PROVE PInv
  OBVIOUS
<1>1. PlaceOK
  BY BroadcastAssumption DEF Init, PlaceOK, NoIndex
<1>2. Pipeline = <<>> /\ Top = -1
  BY DEF Init, Pipeline, Top, NoIndex
<1>3. PipelineOK
  BY <1>2 DEF Init, PipelineOK, Increasing, UpTo, Gapless, ReadSeesCommitted
<1> QED
  BY <1>1, <1>3, InitIInv DEF PInv

\* No step of either thread breaks PInv.
LEMMA NextPInv == PInv /\ [Next]_vars => PInv'
<1> SUFFICES ASSUME PInv, [Next]_vars PROVE PInv'
  OBVIOUS
<1>1. IInv' /\ PlaceOK'
  BY NextKeepsFlags, NextKeepsCore, NextKeepsPlace DEF PInv, IInv
<1>2. Core /\ PlaceOK /\ PipelineOK
  BY DEF PInv, IInv
<1>3. Pipeline \in Seq(Nat) /\ Top \in Int /\ Top + 1 \in Nat
  BY <1>2, PipelineType, TopBounds DEF TopOK
<1>4. ~SlowConsumer => ReadSeesCommitted'
  BY <1>2, ReadsAreComplete DEF PipelineOK
<1>5. ASSUME Pipeline' = Pipeline /\ Top' >= Top /\ (~SlowConsumer => Top' = Top)
      PROVE  PipelineOK'
  <2>1. Top' \in Int
    <3>1. (Core /\ PlaceOK => TopOK)'
      BY TopBounds, PTL
    <3> QED
      BY <1>1, <3>1 DEF IInv, TopOK
  <2>2. UpTo(Pipeline', Top')
    <3>1. \A i \in 1..Len(Pipeline) : Pipeline[i] \in Nat
      BY <1>3
    <3> HIDE DEF Pipeline, Top
    <3> QED
      BY <1>2, <1>3, <1>5, <2>1, <3>1 DEF PipelineOK, UpTo
  <2> QED
    BY <1>2, <1>4, <1>5, <2>2 DEF PipelineOK
<1>6. ASSUME Pipeline' = Append(Pipeline, Top + 1) /\ Top' = Top + 1
      PROVE  PipelineOK'
  <2>1. /\ Increasing(Pipeline') /\ UpTo(Pipeline', Top')
        /\ Gapless(Pipeline) /\ Len(Pipeline) = Top + 1 => Gapless(Pipeline') /\ Len(Pipeline') = Top + 2
    BY <1>2, <1>3, <1>6, NextEntry DEF PipelineOK
  <2>2. Top + 2 = Top' + 1
    BY <1>3, <1>6
  <2> QED
    BY <1>2, <1>4, <2>1, <2>2 DEF PipelineOK
<1>7. PipelineOK'
  BY <1>2, <1>5, <1>6, NextMoves DEF Move
<1> QED
  BY <1>1, <1>7 DEF PInv

\* PInv holds in every reachable state.
LEMMA PipelineInvariant == Spec => []PInv
BY InitPInv, NextPInv, PTL DEF Spec

\* Entries reach the map in log order, each at most once and none that is not
\* committed, whatever the bus defers or gives up (PipelineInOrder).
THEOREM PipelineStaysInOrder == Spec => []PipelineInOrder
<1>1. PInv => PipelineInOrder
  <2> SUFFICES ASSUME PInv PROVE PipelineInOrder
    OBVIOUS
  <2>1. Core /\ PlaceOK /\ PipelineOK
    BY DEF PInv, IInv
  <2>2. /\ Pipeline \in Seq(Nat) /\ Top \in Int /\ Top <= commit /\ commit \in Nat
        /\ Increasing(Pipeline) /\ UpTo(Pipeline, Top)
    BY <2>1, PipelineType, TopBounds DEF TopOK, PipelineOK, Core, IndicesOK
  <2> HIDE DEF Pipeline, Top
  <2>3. Len(Pipeline) \in Nat /\ \A i \in 1..Len(Pipeline) : Pipeline[i] \in Nat
    BY <2>2
  <2>4. ASSUME NEW i \in 1..(Len(Pipeline) - 1) PROVE Pipeline[i] < Pipeline[i + 1]
    <3>1. i \in 1..Len(Pipeline) /\ i + 1 \in 1..Len(Pipeline) /\ i < i + 1
      BY <2>3
    <3> QED
      BY <2>2, <3>1 DEF Increasing
  <2>5. ASSUME NEW i \in 1..Len(Pipeline) PROVE Pipeline[i] <= commit
    <3>1. Pipeline[i] \in Nat /\ Pipeline[i] <= Top
      BY <2>2, <2>3 DEF UpTo
    <3> QED
      BY <2>2, <3>1
  <2> QED
    BY <2>4, <2>5 DEF PipelineInOrder
<1> QED
  BY <1>1, PipelineInvariant, PTL

\* As long as the worker empties the bus before 100 attempts on it have failed, no
\* entry is skipped between the log and the map, however often the broadcast is
\* deferred, retried or ends at the end of the log (NothingSkipped).
THEOREM EntriesAreNotSkipped ==
  ASSUME ~SlowConsumer PROVE Spec => []NothingSkipped
<1>1. PInv => NothingSkipped
  BY DEF PInv, PipelineOK, Gapless, NothingSkipped
<1> QED
  BY <1>1, PipelineInvariant, PTL

\* Then a read sees every entry that was committed when it was asked
\* (ReadSeesCommitted).
THEOREM ReadsSeeWhatIsCommitted ==
  ASSUME ~SlowConsumer PROVE Spec => []ReadSeesCommitted
<1>1. PInv => ReadSeesCommitted
  BY DEF PInv, PipelineOK
<1> QED
  BY <1>1, PipelineInvariant, PTL

\* How far the map has got: never past what has been sent.
AppliedOK ==
  /\ Len(applied) \in Nat
  /\ ~SlowConsumer => Len(applied) <= commit + 1 /\ Len(applied) <= logLen

\* The map holds at most the committed entries of the log.
LEMMA AppliedBound == PInv => AppliedOK
<1> SUFFICES ASSUME PInv PROVE AppliedOK
  OBVIOUS
<1>1. Core /\ PlaceOK /\ PipelineOK /\ TopOK
  BY TopBounds DEF PInv, IInv
<1>2. /\ Len(applied) \in Nat /\ Len(applied) <= Len(Pipeline)
      /\ commit \in Nat /\ logLen \in Nat
  BY <1>1, AppliedIsPrefix DEF Core, IndicesOK
<1>3. Len(Pipeline) \in Nat
  BY <1>1, PipelineType
<1> HIDE DEF Pipeline, Top
<1> QED
  BY <1>1, <1>2, <1>3 DEF AppliedOK, PipelineOK, TopOK

\* What a step does to the log, the commit index and the map.
Shown ==
  \/ /\ UNCHANGED <<logLen, commit>> /\ Len(applied') = Len(applied) + 1
  \/ /\ logLen' >= logLen /\ commit' >= commit /\ applied' = applied

\* Every step grows the map by one entry or leaves it alone.
LEMMA NextShows ==
  ASSUME Core, [Next]_vars
  PROVE  Shown
<1>0. logLen \in Nat /\ commit \in Nat /\ applied \in Seq(Nat) /\ bus \in Seq(Nat)
  BY BroadcastAssumption DEF Core, IndicesOK
<1>1. CASE LoadCommit
  <2>1. CASE parked # NoIndex /\ parked <= commit
    <3>1. parked \in Nat /\ applied' = Append(applied, parked) /\ UNCHANGED <<logLen, commit>>
      BY <1>1, <2>1 DEF LoadCommit, Core, IndicesOK, raftVars
    <3> QED
      BY <1>0, <3>1, AppendNat DEF Shown
  <2>2. CASE ~(parked # NoIndex /\ parked <= commit)
    BY <1>0, <1>1, <2>2 DEF LoadCommit, Shown, raftVars
  <2> QED
    BY <2>1, <2>2
<1>2. CASE Receive
  <2>1. Head(bus) \in Nat /\ UNCHANGED <<logLen, commit>>
    BY <1>0, <1>2 DEF Receive, raftVars
  <2>2. applied' = Append(applied, Head(bus)) \/ applied' = applied
    BY <1>2 DEF Receive
  <2> QED
    BY <1>0, <2>1, <2>2, AppendNat DEF Shown
<1>3. CASE BroadcastStep
  <2>1. UNCHANGED <<logLen, commit, applied>>
    BY <1>3 DEF BroadcastStep, BumpVersion, SendOne, SendFull, SendDone, FullSend, FullRetry, FullLeave, FullDone,
                FinishBroadcast, RetryOne, RetryFull, RetryDone, raftVars, workerVars
  <2> QED
    BY <1>0, <2>1 DEF Shown
<1>4. CASE RetryStart \/ LeaderInit
  BY <1>0, <1>4 DEF RetryStart, LeaderInit, workerVars, Shown
<1>5. ASSUME NEW c \in 0..(MaxLog - 1), Commit(c) \/ Push(c) PROVE Shown
  <2>1. c \in Nat
    BY BroadcastAssumption
  <2>2. /\ logLen' = logLen \/ logLen' = logLen + 1
        /\ commit' = commit \/ (c > commit /\ commit' = c)
        /\ applied' = applied
    BY <1>5 DEF Commit, Push, AdvanceCommit, workerVars
  <2> QED
    BY <1>0, <2>1, <2>2 DEF Shown
<1>6. CASE Poll \/ BusEmpty \/ ParkedRead \/ NextRead \/ NoMoreReads \/ ClientGet \/ UNCHANGED vars
  <2>1. UNCHANGED <<logLen, commit, applied>>
    BY <1>6 DEF Poll, BusEmpty, ParkedRead, NextRead, NoMoreReads, ClientGet, vars, raftVars, workerVars
  <2> QED
    BY <1>0, <2>1 DEF Shown
<1> QED
  BY <1>1, <1>2, <1>3, <1>4, <1>5, <1>6 DEF Next, RaftStep, WorkerStep

\* When no entry is given up, every step of the two threads shows its readers a step
\* of CommittedReads, or none: the map takes over the entries of the log one at a
\* time, and only committed ones.
THEOREM ShowsCommittedReads ==
  ASSUME ~SlowConsumer
  PROVE  Spec => Reads!Init /\ [][Reads!Next]_(Reads!vars)
<1>1. Init => Reads!Init
  BY DEF Init, Reads!Init
<1>2. PInv /\ PInv' /\ [Next]_vars => [Reads!Next]_(Reads!vars)
  <2> SUFFICES ASSUME PInv, PInv', [Next]_vars PROVE Reads!Next
    OBVIOUS
  <2>1. AppliedOK /\ AppliedOK'
    <3>1. (PInv => AppliedOK)'
      BY AppliedBound, PTL
    <3> QED
      BY <3>1, AppliedBound
  <2>2. /\ logLen \in Nat /\ commit \in Nat
        /\ logLen' \in Int /\ commit' \in Int /\ logLen' <= MaxLog /\ commit' < MaxLog
    BY BroadcastAssumption DEF PInv, IInv, Core, IndicesOK, PlaceOK
  <2>3. CASE UNCHANGED <<logLen, commit>> /\ Len(applied') = Len(applied) + 1
    <3>1. Reads!Apply
      BY <2>1, <2>2, <2>3 DEF AppliedOK, Reads!Apply
    <3> QED
      BY <3>1 DEF Reads!Next
  <2>4. CASE logLen' >= logLen /\ commit' >= commit /\ applied' = applied
    <3>1. logLen' \in logLen..MaxLog /\ commit' \in commit..(MaxLog - 1)
      BY BroadcastAssumption, <2>2, <2>4
    <3>2. Reads!Advance
      BY <2>4, <3>1 DEF Reads!Advance
    <3> QED
      BY <3>2 DEF Reads!Next
  <2> QED
    BY <2>3, <2>4, NextShows DEF Shown, PInv, IInv
<1> QED
  BY <1>1, <1>2, PipelineInvariant, PTL DEF Spec
=============================================================================
