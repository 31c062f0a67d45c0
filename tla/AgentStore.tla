----------------------------- MODULE AgentStore -----------------------------
(***************************************************************************)
(* The agent's command journal (agent/internal/state): an in-memory map    *)
(* and the state.json file it is written to.  Every mutator changes the    *)
(* map first and then writes the whole map with a temporary file, fsync    *)
(* and rename, so a failed write leaves memory ahead of the file, and a    *)
(* later write that succeeds also writes what failed before.               *)
(***************************************************************************)
EXTENDS CommandQueue

VARIABLES
  mem,   \* Store.data, lost in a crash
  disk   \* state.json

storeVars == <<mem, disk>>

\* A record is absent, running without a result, or completed with one.
Records == {"none", "running"} \cup AgentResults

\* rec: the record of each command; sent: those with Delivered set.
Images == [rec : [Commands -> Records], sent : SUBSET Commands]

EmptyImage == [rec |-> [c \in Commands |-> "none"], sent |-> {}]

StoreTypeOK == mem \in Images /\ disk \in Images

StoreInit == mem = EmptyImage /\ disk = EmptyImage

\* How a write ends: done; an error before the rename took effect; an error
\* after it (chmod or the directory sync), with the new file in place.
WriteOutcomes == {"done", "errorBefore", "errorAfter"}

Persist(image, w) ==
  /\ mem' = image
  /\ disk' = IF w = "errorBefore" THEN disk ELSE image

\* Mutant of MarkRunning: the record is not written before the execution.
MarkRunningInMemory(c, w) ==
  /\ mem.rec[c] = "none"
  /\ mem' = [mem EXCEPT !.rec[c] = "running"]
  /\ UNCHANGED disk

\* MarkRunning refuses a command it has any record of.
MarkRunning(c, w) ==
  /\ mem.rec[c] = "none"
  /\ Persist([mem EXCEPT !.rec[c] = "running"], w)

SaveResult(c, r, w) ==
  Persist([rec |-> [mem.rec EXCEPT ![c] = r], sent |-> mem.sent \ {c}], w)

\* The record stays as a tombstone.
MarkDelivered(c, w) ==
  /\ mem.rec[c] \in AgentResults
  /\ Persist([mem EXCEPT !.sent = @ \cup {c}], w)

PendingResults == {c \in Commands : mem.rec[c] \in AgentResults /\ c \notin mem.sent}

\* Open reads the file back into an empty map.
Reopen == mem' = disk /\ UNCHANGED disk
=============================================================================
