----------------------------- MODULE Persistence -----------------------------
(***************************************************************************)
(* The log on disk: the persistence worker thread of one node, the tasks   *)
(* the Raft thread queues for it, and recovery after a crash.              *)
(*                                                                         *)
(* The Raft thread changes its replication_log in memory and queues the    *)
(* same change for the worker.  The worker writes entries through a        *)
(* BufWriter, remembers where each one ends in the file, and answers       *)
(* LogPersisted in batches, after a flush.  A truncation cuts the file at  *)
(* a remembered offset.  A restarted node reads the file back and takes    *)
(* its log, and the offsets, from what it finds.                           *)
(*                                                                         *)
(* An entry is a number, fresh for every append, and a file is a sequence  *)
(* of bytes <<entry, position in the entry>>.  Entries have different      *)
(* lengths, the first byte tells the length (Cap'n Proto framing).         *)
(***************************************************************************)
EXTENDS Integers, Sequences, SequencesExt

CONSTANTS
    BatchSize,     \* BATCH_SIZE = 32
    MaxEntries,    \* bound on appends
    MaxTruncates,  \* bound on truncations
    MaxVotes,      \* bound on votes that pass through the worker
    MaxCrashes,    \* bound on crashes
    MachineCrash   \* does a crash also lose what only the page cache holds?

ASSUME PersistenceAssumption ==
    /\ BatchSize \in Nat \ {0}
    /\ MaxEntries \in Nat /\ MaxTruncates \in Nat /\ MaxVotes \in Nat /\ MaxCrashes \in Nat
    /\ MachineCrash \in BOOLEAN

VARIABLES
    log,        \* replication_log
    tasks,      \* the channel to the worker
    buffer,     \* bytes in the BufWriter
    file,       \* bytes of log.capnp
    offsets,    \* entry_end_offsets
    pending,    \* pending_log_responses
    responses,  \* persistence_response: LogPersisted not yet popped
    told,       \* history: entries whose LogPersisted the Raft thread has popped
    dropped,    \* history: entries the Raft thread has truncated
    used        \* how much of each bound is used up

workerVars == <<buffer, file, offsets, pending>>
vars == <<log, tasks, workerVars, responses, told, dropped, used>>

-----------------------------------------------------------------------------
(* The file format and recovery.                                            *)

Size(e) == IF e % 2 = 0 THEN 1 ELSE 2
Bytes(e) == [k \in 1..Size(e) |-> <<e, k>>]

Garbled == 0    \* a message that is framed well and holds bytes of two entries

\* Is there a whole message at offset o?  A header that is not the start of an
\* entry fails to parse, and so does a message cut short.
Framed(f, o) == f[o + 1][2] = 1 /\ o + Size(f[o + 1][1]) <= Len(f)

MessageAt(f, o) ==
    LET n == Size(f[o + 1][1]) IN
    [entry |-> IF SubSeq(f, o + 1, o + n) = Bytes(f[o + 1][1]) THEN f[o + 1][1] ELSE Garbled,
     end   |-> o + n]

\* The messages of the file, up to the first one that does not parse.
Messages(f) ==
    LET from[o \in 0..Len(f)] ==
        IF o < Len(f) /\ Framed(f, o)
          THEN <<MessageAt(f, o)>> \o from[MessageAt(f, o).end]
          ELSE <<>>
    IN from[0]

Entries(f) == [i \in DOMAIN Messages(f) |-> Messages(f)[i].entry]
EndOffsets(f) == [i \in DOMAIN Messages(f) |-> Messages(f)[i].end]

Init ==
    /\ log = <<>> /\ tasks = <<>>
    /\ buffer = <<>> /\ file = <<>> /\ offsets = <<>> /\ pending = <<>>
    /\ responses = <<>> /\ told = {} /\ dropped = {}
    /\ used = [entries |-> 0, truncates |-> 0, votes |-> 0, crashes |-> 0]

-----------------------------------------------------------------------------
(* The Raft thread.                                                         *)

Queue(op, arg) == tasks' = Append(tasks, [op |-> op, arg |-> arg])

\* A leader's write batch or no-op, or an entry a follower was sent.
AppendLog ==
    /\ used.entries < MaxEntries
    /\ used' = [used EXCEPT !.entries = @ + 1]
    /\ log' = Append(log, used.entries + 1)
    /\ Queue("AppendLog", used.entries + 1)
    /\ UNCHANGED <<workerVars, responses, told, dropped>>

\* The leader asks a follower to cut its log to n entries; entry 0 always stays.
TruncateLog(n) ==
    /\ used.truncates < MaxTruncates
    /\ used' = [used EXCEPT !.truncates = @ + 1]
    /\ n > 0 /\ n < Len(log)
    /\ log' = SubSeq(log, 1, n)
    /\ dropped' = dropped \cup {log[i] : i \in (n + 1)..Len(log)}
    /\ Queue("TruncateLog", n)
    /\ UNCHANGED <<workerVars, responses, told>>

AppendVote ==
    /\ used.votes < MaxVotes
    /\ used' = [used EXCEPT !.votes = @ + 1]
    /\ Queue("AppendVote", 0)
    /\ UNCHANGED <<log, workerVars, responses, told, dropped>>

LogPersisted ==
    /\ responses # <<>>
    /\ responses' = Tail(responses)
    /\ told' = told \cup {Head(responses)}
    /\ UNCHANGED <<log, tasks, workerVars, dropped, used>>

-----------------------------------------------------------------------------
(* The worker thread.                                                       *)

Take(op) == tasks # <<>> /\ Head(tasks).op = op /\ tasks' = Tail(tasks)

\* The end of a flush: the buffer is empty, the batch is answered.
FlushResponses(p) ==
    /\ responses' = responses \o p
    /\ buffer' = <<>>

\* flush_pending_logs does nothing when no response is pending.
Flushed == IF pending = <<>> THEN file ELSE file \o buffer

FlushPendingLogs ==
    /\ pending' = <<>>
    /\ IF pending = <<>> THEN UNCHANGED <<responses, buffer>> ELSE FlushResponses(pending)

\* Deviation: the batch is flushed one entry late.
FlushLate(p) == Len(p) > BatchSize
FlushDue(p) == Len(p) >= BatchSize

\* Deviation: the append is answered while its bytes are in the buffer.
AnswerAtOnce(e) == responses' = Append(responses, e) /\ UNCHANGED pending
HoldResponse(e) == pending' = Append(pending, e) /\ UNCHANGED responses

LastEnd == IF offsets = <<>> THEN 0 ELSE Last(offsets)

\* The BufWriter keeps the bytes; or empties itself first, when they do not
\* fit; or writes them through, when they exceed its capacity.
ProcessAppend ==
    /\ Take("AppendLog")
    /\ LET e == Head(tasks).arg
           written == file \o buffer \o Bytes(e)
       IN
        /\ offsets' = Append(offsets, LastEnd + Size(e))
        /\ \/ /\ FlushDue(Append(pending, e))
              /\ FlushResponses(Append(pending, e))
              /\ file' = written
              /\ pending' = <<>>
           \/ /\ ~FlushDue(Append(pending, e))
              /\ file' \in {file, file \o buffer, written}
              /\ buffer' = SubSeq(written, Len(file') + 1, Len(written))
              /\ HoldResponse(e)
    /\ UNCHANGED <<log, told, dropped, used>>

\* Deviation: the position of the entry before.
CutShort(n) == IF n < 2 THEN 0 ELSE offsets[n - 1]
TruncationPosition(n) == IF n = 0 THEN 0 ELSE offsets[n]

\* File::set_len fills with zeros when the file is shorter.
SetLen(f, n) == [i \in 1..n |-> IF i <= Len(f) THEN f[i] ELSE <<0, 0>>]

\* Deviation: the offsets are left alone.
KeepOffsets(n) == UNCHANGED offsets
TruncateOffsets(n) == offsets' = SubSeq(offsets, 1, n)

\* An offset that is not there would end the worker in a panic.
ProcessTruncate ==
    /\ Take("TruncateLog")
    /\ Head(tasks).arg <= Len(offsets)
    /\ FlushPendingLogs
    /\ file' = SetLen(Flushed, TruncationPosition(Head(tasks).arg))
    /\ TruncateOffsets(Head(tasks).arg)
    /\ UNCHANGED <<log, told, dropped, used>>

\* votes.csv is a part of Election; here a vote is an occasion to flush.
ProcessVote ==
    /\ Take("AppendVote")
    /\ FlushPendingLogs
    /\ file' = Flushed
    /\ UNCHANGED <<log, offsets, told, dropped, used>>

\* Deviation: only a full batch is flushed.
IdleWhenFull == Len(pending) >= BatchSize
Idle == pending # <<>>

\* The channel ran empty, or stayed empty for 10 ms.  The Raft thread may have
\* queued more between that and the flush.
FlushIdle ==
    /\ Idle
    /\ FlushPendingLogs
    /\ file' = Flushed
    /\ UNCHANGED <<log, tasks, offsets, told, dropped, used>>

-----------------------------------------------------------------------------
(* Crash and recovery.                                                      *)

\* Nothing is ever synced: a machine crash may cut the file anywhere.
SurvivingLength == IF MachineCrash THEN 0..Len(file) ELSE {Len(file)}

CrashAndRecover ==
    /\ used.crashes < MaxCrashes
    /\ used' = [used EXCEPT !.crashes = @ + 1]
    /\ \E n \in SurvivingLength : file' = SubSeq(file, 1, n)
    /\ log' = Entries(file')
    /\ offsets' = EndOffsets(file')
    /\ tasks' = <<>> /\ buffer' = <<>> /\ pending' = <<>> /\ responses' = <<>>
    /\ UNCHANGED <<told, dropped>>

-----------------------------------------------------------------------------
WorkerStep == ProcessAppend \/ ProcessTruncate \/ ProcessVote \/ FlushIdle

Next ==
    \/ AppendLog
    \/ \E n \in 1..MaxEntries : TruncateLog(n)
    \/ AppendVote
    \/ LogPersisted
    \/ WorkerStep
    \/ CrashAndRecover

Spec == Init /\ [][Next]_vars

\* Both threads run loops that never block for good.
FairSpec == Spec /\ WF_vars(WorkerStep) /\ WF_vars(LogPersisted)

-----------------------------------------------------------------------------
(* Properties.                                                              *)

Entry == 0..MaxEntries
ByteSeq == Seq(Entry \X (0..2))

\* Every variable keeps its type, and fewer than BATCH_SIZE responses are ever
\* held back (pending_log_responses is allocated for BATCH_SIZE).
TypeOK ==
    /\ log \in Seq(Entry)
    /\ tasks \in Seq([op : {"AppendLog", "TruncateLog", "AppendVote"}, arg : 0..MaxEntries])
    /\ buffer \in ByteSeq /\ file \in ByteSeq
    /\ offsets \in Seq(Nat)
    /\ pending \in Seq(Entry) /\ Len(pending) < BatchSize
    /\ responses \in Seq(Entry)
    /\ told \subseteq Entry /\ dropped \subseteq Entry

\* What one task does to the log it is applied to.
Replay(l, t) ==
    CASE t.op = "AppendLog" -> Append(l, t.arg)
      [] t.op = "TruncateLog" -> SubSeq(l, 1, t.arg)
      [] OTHER -> l

\* The disk follows the memory: what is in the file and in the buffer, followed
\* by the tasks still in the channel, is exactly the log of the Raft thread,
\* however appends, truncations, flushes, spills and crashes interleave.
DiskFollowsLog == FoldLeft(Replay, Entries(file \o buffer), tasks) = log

\* entry_end_offsets[i] is the byte position right after entry i, for every
\* entry written, and no byte lies beyond the last one: a truncation cuts
\* between two entries and the next entry is appended where it is looked for.
OffsetsMatch ==
    /\ offsets = EndOffsets(file \o buffer)
    /\ LastEnd = Len(file) + Len(buffer)

\* "log_entry_end_offsets[i] is the byte position right after entry i": the byte
\* before each offset the worker keeps is the last byte of an entry.
OffsetIsEntryEnd ==
    \A i \in DOMAIN offsets :
        /\ offsets[i] <= Len(file \o buffer)
        /\ LET byte == (file \o buffer)[offsets[i]] IN byte[2] = Size(byte[1])

\* An entry the Raft thread was told is persisted is in the file, where a
\* restarted node finds it, unless the Raft thread truncated it.
PersistedSurvives ==
    \A e \in told : e \in dropped \/ \E i \in DOMAIN Entries(file) : Entries(file)[i] = e

Waiting(e) ==
    \/ \E i \in DOMAIN tasks : tasks[i] = [op |-> "AppendLog", arg |-> e]
    \/ \E i \in DOMAIN pending : pending[i] = e
    \/ \E i \in DOMAIN responses : responses[i] = e

\* Every append is answered: the Raft thread hears LogPersisted for each entry
\* it queued, unless the node crashes first.
AppendIsAnswered == \A e \in 1..MaxEntries : Waiting(e) ~> ~Waiting(e)
=============================================================================
