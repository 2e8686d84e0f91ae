-------------------------- MODULE CommitBroadcast --------------------------
(***************************************************************************)
(* How committed log entries reach readers inside one node.                *)
(*                                                                         *)
(* The Raft thread raises the commit index (an atomic shared with the      *)
(* query worker), bumps a version counter, and pushes the newly committed  *)
(* entries on a bounded bus; what does not fit is deferred and retried on  *)
(* later time steps (raft_sm.rs).  The query worker thread sleeps until    *)
(* the version changes, then reads the commit index, drains the bus into   *)
(* its map, and answers the reads whose index it has reached               *)
(* (query/worker.rs).  The two threads interleave at every access to the   *)
(* shared commit index, version counter and bus.                           *)
(*                                                                         *)
(* Abstractions: an entry is its log index; the version counter is the     *)
(* Boolean "it differs from the version the worker saw last", which is all *)
(* the worker ever asks of it; the 100 attempts of the bus-full loop are   *)
(* the nondeterministic choice between one more attempt and giving up.     *)
(***************************************************************************)
EXTENDS Integers, Sequences

CONSTANTS
  MaxLog,        \* bound: the log never grows past this many entries
  BusCapacity,   \* Bus::new(10000)
  MaxPerStep,    \* MAX_BROADCAST_PER_TIMESTEP = 5000
  MaxReads,      \* bound: number of client reads
  SlowConsumer   \* may 100 attempts on a full bus all fail?

ASSUME BroadcastAssumption ==
  /\ MaxLog \in Nat \ {0}
  /\ BusCapacity \in Nat
  /\ MaxPerStep \in Nat \ {0}
  /\ MaxPerStep < BusCapacity
  /\ MaxReads \in Nat
  /\ SlowConsumer \in BOOLEAN

NoIndex == -1    \* Option::None, one below the first index

VARIABLES
  \* Raft thread
  logLen,        \* replication_log.len()
  commit,        \* CommitState.commit_index, and the Raft thread's own copy
  lastBroadcast, \* last_broadcast_index
  deferred,      \* has_deferred_broadcast
  pc,            \* where the Raft thread is
  next,          \* index its loop is at
  last,          \* loop-local last_broadcast_index, or first index of the full loop
  endIndex,      \* end_index of a retry
  count,         \* entries sent by this retry
  \* shared with the query worker
  bus,
  changed,       \* CommitState.version differs from the worker's last_version
  \* query worker thread
  wpc,
  wCommit,       \* the commit index the worker read
  parked,        \* the entry it took but may not apply yet
  applied,       \* indices applied to the map, in order
  readQueue,     \* indices of the reads waiting in pending_queries
  parkedRead,    \* the read it took but may not answer yet
  lastRead       \* the read answered last: index asked for, entries in the map

raftVars   == <<logLen, commit, lastBroadcast, deferred, pc, next, last, endIndex, count>>
workerVars == <<wpc, wCommit, parked, applied, readQueue, parkedRead, lastRead>>
vars       == <<raftVars, bus, changed, workerVars>>

appliedIndex == IF applied = <<>> THEN 0 ELSE applied[Len(applied)]

Init ==
  /\ logLen \in 0..MaxLog
  /\ commit = 0
  /\ lastBroadcast = NoIndex
  /\ deferred = FALSE
  /\ pc = "idle"
  /\ next = 0
  /\ last = 0
  /\ endIndex = 0
  /\ count = 0
  /\ bus = <<>>
  /\ changed = FALSE
  /\ wpc = "poll"
  /\ wCommit = 0
  /\ parked = NoIndex
  /\ applied = <<>>
  /\ readQueue = <<>>
  /\ parkedRead = NoIndex
  /\ lastRead = [index |-> 0, seen |-> {}]

-----------------------------------------------------------------------------
(* The Raft thread: the log and the commit index.                          *)

\* Every rise of the commit index stores it and then bumps the version.
AdvanceCommit(c) ==
  /\ c > commit
  /\ commit' = c
  /\ pc' = "bump"

\* A write or no-op reached its quorum, or a heartbeat of the leader whose
\* previous entry is our last one carried a higher commit index.
Commit(c) ==
  /\ pc = "idle"
  /\ c < logLen
  /\ AdvanceCommit(c)
  /\ UNCHANGED <<logLen, lastBroadcast, deferred, next, last, endIndex, count, bus, changed, workerVars>>

\* An entry is pushed on the log.  A follower then takes over the commit index
\* of the request, which during a backfill lies beyond its own log.
Push(c) ==
  /\ pc = "idle"
  /\ logLen < MaxLog
  /\ logLen' = logLen + 1
  /\ \/ AdvanceCommit(c)
     \/ c = commit /\ UNCHANGED <<commit, pc>>
  /\ UNCHANGED <<lastBroadcast, deferred, next, last, endIndex, count, bus, changed, workerVars>>

\* Where a broadcast resumes.  Deviation: at the last index, not after it.
ResumeAtLast == lastBroadcast
ResumeAt == lastBroadcast + 1

\* broadcast_committed_entries up to its loop; nothing happens when every
\* committed entry has been broadcast.
EnterBroadcast ==
  IF ResumeAt > commit
    THEN pc' = "idle" /\ UNCHANGED <<next, last>>
    ELSE pc' = "send" /\ next' = ResumeAt /\ last' = 0

BumpVersion ==
  /\ pc = "bump"
  /\ changed' = TRUE
  /\ EnterBroadcast
  /\ UNCHANGED <<logLen, commit, lastBroadcast, deferred, endIndex, count, bus, workerVars>>

\* A node that becomes leader broadcasts up to its unchanged commit index.
\* Its log holds that index.  (The no-op it then appends is a Push.)
LeaderInit ==
  /\ pc = "idle"
  /\ commit > 0
  /\ commit < logLen
  /\ EnterBroadcast
  /\ UNCHANGED <<logLen, commit, lastBroadcast, deferred, endIndex, count, bus, changed, workerVars>>

-----------------------------------------------------------------------------
(* The Raft thread: broadcasting.                                          *)

HasEntry(i) == i < logLen
BusFull     == Len(bus) = BusCapacity
Broadcast(i) == ~BusFull /\ bus' = Append(bus, i)

\* Are entries left over for later?  Deviation: forget about them.
ForgetLeftOver(l) == FALSE
LeftOver(l) == l < commit

\* The end of broadcast_committed_entries.
FinishBroadcast(l) ==
  /\ lastBroadcast' = l
  /\ deferred' = LeftOver(l)
  /\ changed' = TRUE
  /\ pc' = "idle"
  /\ UNCHANGED <<logLen, commit, next, last, endIndex, count, workerVars>>

SendOne ==
  /\ pc = "send"
  /\ next <= commit
  /\ \/ /\ HasEntry(next)
        /\ Broadcast(next)
        /\ last' = next
     \/ /\ ~HasEntry(next)
        /\ UNCHANGED <<bus, last>>
  /\ next' = next + 1
  /\ UNCHANGED <<logLen, commit, lastBroadcast, deferred, pc, endIndex, count, changed, workerVars>>

\* The bus is full: broadcast_committed_entries_when_bus_full starts here by
\* waking the worker.
SendFull ==
  /\ pc = "send"
  /\ next <= commit
  /\ HasEntry(next)
  /\ BusFull
  /\ pc' = "full"
  /\ last' = next
  /\ changed' = TRUE
  /\ UNCHANGED <<logLen, commit, lastBroadcast, deferred, next, endIndex, count, bus, workerVars>>

\* What the loop has reached.  Deviation: count entries it did not find.
SendReachedAll == commit
SendReached == last

SendDone ==
  /\ pc = "send"
  /\ next > commit
  /\ FinishBroadcast(SendReached)
  /\ UNCHANGED bus

FullSend ==
  /\ pc = "full"
  /\ next <= commit
  /\ HasEntry(next)
  /\ Broadcast(next)
  /\ next' = next + 1
  /\ UNCHANGED <<logLen, commit, lastBroadcast, deferred, pc, last, endIndex, count, changed, workerVars>>

\* Every tenth failed attempt on an entry wakes the worker again.
FullRetry ==
  /\ pc = "full"
  /\ next <= commit
  /\ HasEntry(next)
  /\ BusFull
  /\ changed' = TRUE
  /\ UNCHANGED <<raftVars, bus, workerVars>>

\* What the full loop has reached when it leaves early, after 100 failed attempts
\* or at a missing entry.  Deviation: the index before its first one.
FullReachedStart == last - 1
FullReached == IF next > last THEN next - 1 ELSE last

FullLeave ==
  /\ pc = "full"
  /\ next <= commit
  /\ \/ ~HasEntry(next)
     \/ SlowConsumer /\ BusFull
  /\ FinishBroadcast(FullReached)
  /\ UNCHANGED bus

FullDone ==
  /\ pc = "full"
  /\ next > commit
  /\ FinishBroadcast(commit)
  /\ UNCHANGED bus

\* retry_deferred_broadcast, from every role's time_step.
RetryStart ==
  /\ pc = "idle"
  /\ deferred
  /\ IF ResumeAt > commit
       THEN /\ deferred' = FALSE
            /\ UNCHANGED <<pc, next, endIndex, count>>
       ELSE /\ pc' = "retry"
            /\ next' = ResumeAt
            /\ endIndex' = IF commit < lastBroadcast + MaxPerStep THEN commit ELSE lastBroadcast + MaxPerStep
            /\ count' = 0
            /\ UNCHANGED deferred
  /\ UNCHANGED <<logLen, commit, lastBroadcast, last, bus, changed, workerVars>>

RetryOne ==
  /\ pc = "retry"
  /\ next <= endIndex
  /\ \/ /\ HasEntry(next)
        /\ Broadcast(next)
        /\ lastBroadcast' = next
        /\ count' = count + 1
     \/ /\ ~HasEntry(next)
        /\ UNCHANGED <<lastBroadcast, bus, count>>
  /\ next' = next + 1
  /\ UNCHANGED <<logLen, commit, deferred, pc, last, endIndex, changed, workerVars>>

\* The bus is still full: return at once, without waking the worker.
RetryFull ==
  /\ pc = "retry"
  /\ next <= endIndex
  /\ HasEntry(next)
  /\ BusFull
  /\ pc' = "idle"
  /\ UNCHANGED <<logLen, commit, lastBroadcast, deferred, next, last, endIndex, count, bus, changed, workerVars>>

RetryComplete == lastBroadcast = commit

\* Deviation: the retry does not wake the worker.
RetryStaysSilent == UNCHANGED changed
RetryWakes == IF count > 0 THEN changed' = TRUE ELSE UNCHANGED changed

RetryDone ==
  /\ pc = "retry"
  /\ next > endIndex
  /\ IF RetryComplete THEN deferred' = FALSE ELSE UNCHANGED deferred
  /\ RetryWakes
  /\ pc' = "idle"
  /\ UNCHANGED <<logLen, commit, lastBroadcast, next, last, endIndex, count, bus, workerVars>>

-----------------------------------------------------------------------------
(* The query worker thread.                                                *)

\* One pass of the loop: with a new version go and drain the bus, otherwise
\* turn to the reads.
Poll ==
  /\ wpc = "poll"
  /\ wpc' = IF changed THEN "load" ELSE "reads"
  /\ changed' = FALSE
  /\ UNCHANGED <<raftVars, bus, wCommit, parked, applied, readQueue, parkedRead, lastRead>>

\* Read the commit index and try the parked entry again.
LoadCommit ==
  /\ wpc = "load"
  /\ wCommit' = commit
  /\ IF parked # NoIndex /\ parked <= commit
       THEN applied' = Append(applied, parked) /\ parked' = NoIndex
       ELSE UNCHANGED <<applied, parked>>
  /\ wpc' = "drain"
  /\ UNCHANGED <<raftVars, bus, changed, readQueue, parkedRead, lastRead>>

\* Take one entry off the bus: apply it, or park it and stop draining.
Receive ==
  /\ wpc = "drain"
  /\ bus # <<>>
  /\ bus' = Tail(bus)
  /\ IF Head(bus) <= wCommit
       THEN applied' = Append(applied, Head(bus)) /\ UNCHANGED <<wpc, parked>>
       ELSE parked' = Head(bus) /\ wpc' = "reads" /\ UNCHANGED applied
  /\ UNCHANGED <<raftVars, changed, wCommit, readQueue, parkedRead, lastRead>>

BusEmpty ==
  /\ wpc = "drain"
  /\ bus = <<>>
  /\ wpc' = "reads"
  /\ UNCHANGED <<raftVars, bus, changed, wCommit, parked, applied, readQueue, parkedRead, lastRead>>

\* Has the map reached a read's index?  Deviation: ask the commit index instead.
CommitReached(q) == q <= wCommit
Reached(q) == q <= appliedIndex

\* Answer a read from the map, if the map has reached the read's index.
Answer(q) ==
  /\ Reached(q)
  /\ lastRead' = [index |-> q, seen |-> {applied[i] : i \in 1..Len(applied)}]

\* A parked read that still has to wait sends the worker back to the bus
\* before it looks at any other read.  Deviation: it waits where it is.
WaitInPlace == "reads"
WaitAt == "poll"

ParkedRead ==
  /\ wpc = "reads"
  /\ parkedRead # NoIndex
  /\ \/ Answer(parkedRead) /\ parkedRead' = NoIndex /\ UNCHANGED wpc
     \/ ~Reached(parkedRead) /\ wpc' = WaitAt /\ UNCHANGED <<parkedRead, lastRead>>
  /\ UNCHANGED <<raftVars, bus, changed, wCommit, parked, applied, readQueue>>

NextRead ==
  /\ wpc = "reads"
  /\ parkedRead = NoIndex
  /\ readQueue # <<>>
  /\ readQueue' = Tail(readQueue)
  /\ \/ Answer(Head(readQueue)) /\ UNCHANGED <<parkedRead, wpc>>
     \/ /\ ~Reached(Head(readQueue))
        /\ parkedRead' = Head(readQueue)
        /\ wpc' = "poll"
        /\ UNCHANGED lastRead
  /\ UNCHANGED <<raftVars, bus, changed, wCommit, parked, applied>>

NoMoreReads ==
  /\ wpc = "reads"
  /\ parkedRead = NoIndex
  /\ readQueue = <<>>
  /\ wpc' = "poll"
  /\ UNCHANGED <<raftVars, bus, changed, wCommit, parked, applied, readQueue, parkedRead, lastRead>>

\* A client GET reads the shared commit index and queues a read for it.
ClientGet ==
  /\ Len(readQueue) + (IF parkedRead = NoIndex THEN 0 ELSE 1) < MaxReads
  /\ readQueue' = Append(readQueue, commit)
  /\ UNCHANGED <<raftVars, bus, changed, wpc, wCommit, parked, applied, parkedRead, lastRead>>

-----------------------------------------------------------------------------
(* The specification.                                                      *)

BroadcastStep ==
  \/ BumpVersion \/ SendOne \/ SendFull \/ SendDone
  \/ FullSend \/ FullRetry \/ FullLeave \/ FullDone
  \/ RetryOne \/ RetryFull \/ RetryDone

RaftStep ==
  \/ BroadcastStep
  \/ RetryStart
  \/ LeaderInit
  \/ \E c \in 0..(MaxLog - 1) : Commit(c) \/ Push(c)

WorkerStep ==
  \/ Poll \/ LoadCommit \/ Receive \/ BusEmpty
  \/ ParkedRead \/ NextRead \/ NoMoreReads

Next == RaftStep \/ WorkerStep \/ ClientGet

Spec == Init /\ [][Next]_vars

\* Both loops run on threads of their own and never block: a broadcast that
\* has begun is finished, every time step retries what is deferred, and the
\* worker keeps polling.
FairSpec ==
  /\ Spec
  /\ WF_vars(BroadcastStep)
  /\ WF_vars(RetryStart)
  /\ WF_vars(WorkerStep)

-----------------------------------------------------------------------------
(* Properties.                                                             *)

FlagsOK == deferred \in BOOLEAN /\ changed \in BOOLEAN

IndicesOK ==
  /\ logLen \in 0..MaxLog
  /\ commit \in Nat
  /\ lastBroadcast \in Nat \cup {NoIndex}
  /\ next \in Nat /\ last \in Nat /\ endIndex \in Nat /\ count \in Nat
  /\ bus \in Seq(Nat)
  /\ wCommit \in Nat
  /\ parked \in Nat \cup {NoIndex}
  /\ applied \in Seq(Nat)
  /\ readQueue \in Seq(Nat)
  /\ parkedRead \in Nat \cup {NoIndex}

\* Every variable keeps its type: last_broadcast_index, the u64 positions of the
\* broadcast loops and the indices on the bus never fall below 0.
TypeOK ==
  /\ FlagsOK
  /\ IndicesOK
  /\ pc \in {"idle", "bump", "send", "full", "retry"}
  /\ wpc \in {"poll", "load", "drain", "reads"}

\* No lost wakeup.  Whenever the Raft thread has left the broadcast code and the
\* worker is not draining, entries that wait on the bus or are parked come with a
\* version the worker has not seen.  retry_deferred_broadcast returns on a full
\* bus without bumping the version; this is what makes that safe.
NoLostWakeup ==
  (pc = "idle" /\ wpc \in {"poll", "reads"} /\ (bus # <<>> \/ parked # NoIndex)) => changed

\* All that has been broadcast, from the oldest applied entry to the newest on the bus.
Pipeline == applied \o (IF parked = NoIndex THEN <<>> ELSE <<parked>>) \o bus

\* Entries travel in log order: the worker never meets an index at or below one
\* it has already applied (it only logs a warning if it does), nothing beyond
\* the commit index is ever on the way, and a parked entry is not overwritten
\* by the next one from the bus.
PipelineInOrder ==
  /\ \A i \in 1..(Len(Pipeline) - 1) : Pipeline[i] < Pipeline[i + 1]
  /\ \A i \in 1..Len(Pipeline) : Pipeline[i] <= commit

\* No entry is skipped: "The next call to broadcast_committed_entries will resume
\* from here", so what is on its way to the map is a gapless prefix of the log.
NothingSkipped ==
  \A i \in 1..Len(Pipeline) : Pipeline[i] = i - 1

\* A read sees every entry committed when it was asked.  Commit index 0 also
\* means that nothing is committed, so a read at 0 may see nothing.
ReadSeesCommitted ==
  lastRead.index > 0 => 0..lastRead.index \subseteq lastRead.seen


\* A read waiting for an entry of the log is answered.
ReadIsAnswered ==
  \A q \in 1..(MaxLog - 1) : (parkedRead = q /\ q < logLen) ~> parkedRead # q

\* The node shows its readers the committed prefix of the log.
Reads == INSTANCE CommittedReads
           WITH len <- logLen, committed <- commit, applied <- Len(applied)

ImplementsCommittedReads == Reads!Spec
=============================================================================
