--------------------------- MODULE CommittedReads ---------------------------
(***************************************************************************)
(* What a node promises its readers about the replicated log: the key      *)
(* value map of the query worker is always the result of applying a prefix *)
(* of the committed log, that prefix only grows, one entry at a time and   *)
(* in log order, and it catches up with every entry that is committed and  *)
(* present.  The bus, the version counter, the deferred broadcast and the  *)
(* parked entry of the implementation are invisible here.                  *)
(***************************************************************************)
EXTENDS Integers

CONSTANT MaxLog      \* the log never grows past this many entries

VARIABLES
  len,               \* number of entries in the replicated log
  committed,         \* the node's commit index
  applied            \* number of entries in the reader's prefix

vars == <<len, committed, applied>>

Init ==
  /\ len \in 0..MaxLog
  /\ committed = 0
  /\ applied = 0

\* The log grows, the commit index moves forward, or both.
Advance ==
  /\ len' \in len..MaxLog
  /\ committed' \in committed..(MaxLog - 1)
  /\ UNCHANGED applied

\* The next committed entry becomes visible to readers.
Apply ==
  /\ applied < len
  /\ applied <= committed
  /\ applied' = applied + 1
  /\ UNCHANGED <<len, committed>>

Next == Advance \/ Apply

\* Entry 0 is not promised: commit index 0 also means "nothing committed".
CatchesUp ==
  \A c \in 1..(MaxLog - 1) : (committed = c /\ c < len) ~> applied > c

Spec == Init /\ [][Next]_vars /\ CatchesUp
=============================================================================
