----------------------------- MODULE SourceNode -----------------------------
(***************************************************************************)
(* A source node with a rewindable source (internal/topo/node/             *)
(* source_node.go, SourceNode.Open, with the MockSource of                 *)
(* internal/topo/topotest/mocknodes/mock_source.go as its source).         *)
(*                                                                         *)
(* Actors:                                                                 *)
(*  - the source's Open goroutine: for every record not skipped by its    *)
(*    offset it takes the source's mutex, sets offset = i + 1, sends the    *)
(*    record into the instance's buffer and unlocks;                        *)
(*  - the node's worker (concurrency 1): a select over ctx.Done() and the  *)
(*    buffer; for each record it broadcasts the tuple, then calls          *)
(*    GetOffset (which takes the same mutex) and PutState(offset);          *)
(*  - the environment: the rule is cancelled, or the process dies; a new   *)
(*    incarnation rewinds its source to the offset in the state store.    *)
(* The buffer (DynamicChannelBuffer, not under src/) is a FIFO that holds  *)
(* at most BufCap records: a send into a full buffer blocks.  A record is *)
(* its number, 1..NRecords.                                                *)
(***************************************************************************)
EXTENDS Naturals, Sequences

CONSTANTS
    NRecords,     \* number of records of the source
    BufCap,       \* records the buffer holds (bufferLength)
    MaxRestarts   \* number of crashes and restarts

ASSUME NRecordsAssumption == NRecords \in Nat
ASSUME BufCapAssumption == BufCap \in Nat \ {0}
ASSUME MaxRestartsAssumption == MaxRestarts \in Nat

VARIABLES
    offset,     \* MockSource.offset
    nextI,      \* the next index i of Open's range loop over m.data
    locked,     \* MockSource's sync.Mutex is held
    srcPc,      \* source goroutine: "wait", "send", "finished", "stopped"
    buf,        \* the instance's buffer
    wPc,        \* worker: "recv", "broadcast", "offset", "stopped"
    cur,        \* the record the worker is forwarding
    stored,     \* the offset in the rule's state store (survives restarts)
    done,       \* ctx.Done() is closed
    restarts,   \* number of restarts so far
    base,       \* history: the offset the running incarnation resumed from
    run,        \* history: records broadcast by the running incarnation
    forwarded   \* history: records broadcast by any incarnation

vars == <<offset, nextI, locked, srcPc, buf, wPc, cur, stored, done, restarts, base,
          run, forwarded>>

-----------------------------------------------------------------------------
Record == 1..NRecords

Init ==
    /\ offset = 0
    /\ nextI = 0
    /\ locked = FALSE
    /\ srcPc = "wait"
    /\ buf = <<>>
    /\ wPc = "recv"
    /\ cur = 0
    /\ stored = 0
    /\ done = FALSE
    /\ restarts = 0
    /\ base = 0
    /\ run = <<>>
    /\ forwarded = {}

(* MockSource.Open: `if i < m.offset { continue }`.                       *)
SrcSkip ==
    /\ srcPc = "wait"
    /\ nextI < offset
    /\ nextI' = nextI + 1
    /\ srcPc' = IF nextI + 1 = NRecords THEN "finished" ELSE "wait"
    /\ UNCHANGED <<offset, locked, buf, wPc, cur, stored, done, restarts, base,
                   run, forwarded>>

(* MockSource.Open: record i is not skipped and its timer fires: m.Lock(); *)
(* m.offset = i + 1.                                                       *)
SrcLockSet ==
    /\ srcPc = "wait"
    /\ ~done
    /\ nextI < NRecords
    /\ nextI >= offset
    /\ ~locked
    /\ locked' = TRUE
    /\ offset' = nextI + 1
    /\ srcPc' = "send"
    /\ UNCHANGED <<nextI, buf, wPc, cur, stored, done, restarts, base, run,
                   forwarded>>

(* Mutant of SrcSend: the send into the buffer does not wait for room.    *)
SrcSendUnbounded ==
    /\ srcPc = "send"
    /\ buf' = Append(buf, nextI + 1)
    /\ nextI' = nextI + 1
    /\ locked' = FALSE
    /\ srcPc' = IF nextI + 1 = NRecords THEN "finished" ELSE "wait"
    /\ UNCHANGED <<offset, wPc, cur, stored, done, restarts, base, run, forwarded>>

(* consumer <- record i, which blocks while the buffer is full, with the   *)
(* mutex held; then m.Unlock().  After the last record Open returns.       *)
SrcSend ==
    /\ srcPc = "send"
    /\ Len(buf) < BufCap
    /\ buf' = Append(buf, nextI + 1)
    /\ nextI' = nextI + 1
    /\ locked' = FALSE
    /\ srcPc' = IF nextI + 1 = NRecords THEN "finished" ELSE "wait"
    /\ UNCHANGED <<offset, wPc, cur, stored, done, restarts, base, run, forwarded>>

(* case <-ctx.Done() of the source's select while it waits for a record.  *)
SrcStop ==
    /\ srcPc = "wait"
    /\ done
    /\ srcPc' = "stopped"
    /\ UNCHANGED <<nextI, offset, locked, buf, wPc, cur, stored, done, restarts, base,
                   run, forwarded>>

(* case data := <-buffer.Out of the worker's select.                       *)
WorkerRecv ==
    /\ wPc = "recv"
    /\ buf # <<>>
    /\ cur' = Head(buf)
    /\ buf' = Tail(buf)
    /\ wPc' = "broadcast"
    /\ UNCHANGED <<nextI, offset, locked, srcPc, stored, done, restarts, base, run,
                   forwarded>>

(* m.Broadcast(tuple): every downstream node takes the tuple.              *)
WorkerBroadcast ==
    /\ wPc = "broadcast"
    /\ run' = Append(run, cur)
    /\ forwarded' = forwarded \cup {cur}
    /\ wPc' = "offset"
    /\ UNCHANGED <<nextI, offset, locked, srcPc, buf, cur, stored, done, restarts, base>>

(* rw.GetOffset() takes the source's mutex and reads m.offset; then        *)
(* ctx.PutState(OffsetKey, offset).                                        *)
WorkerSaveOffset ==
    /\ wPc = "offset"
    /\ ~locked
    /\ stored' = offset
    /\ wPc' = "recv"
    /\ UNCHANGED <<nextI, offset, locked, srcPc, buf, cur, done, restarts, base, run,
                   forwarded>>

(* case <-ctx.Done(): m.close closes the source (MockSource.Close sets     *)
(* offset = 0), buffer.Close(), return.                                    *)
WorkerDone ==
    /\ wPc = "recv"
    /\ done
    /\ offset' = 0
    /\ wPc' = "stopped"
    /\ UNCHANGED <<nextI, locked, srcPc, buf, cur, stored, done, restarts, base, run,
                   forwarded>>

(* The rule is stopped.                                                    *)
Cancel ==
    /\ ~done
    /\ done' = TRUE
    /\ UNCHANGED <<nextI, offset, locked, srcPc, buf, wPc, cur, stored, restarts, base,
                   run, forwarded>>

(* Mutant of Rewind: the source resumes one record after the offset.      *)
RewindPastOffset(o) == o + 1

(* Mutant of Rewind: the new instance is not rewound and starts at 0.     *)
RewindToStart(o) == 0

(* MockSource.Rewind(offset): m.offset = oi.                               *)
Rewind(o) == o

(* The process dies at any point and the rule starts again: a new source   *)
(* instance is rewound to the stored offset; buffer and worker are new.    *)
Restart ==
    /\ restarts < MaxRestarts
    /\ restarts' = restarts + 1
    /\ offset' = Rewind(stored)
    /\ nextI' = 0
    /\ locked' = FALSE
    /\ srcPc' = "wait"
    /\ buf' = <<>>
    /\ wPc' = "recv"
    /\ cur' = 0
    /\ done' = FALSE
    /\ base' = stored
    /\ run' = <<>>
    /\ UNCHANGED <<stored, forwarded>>

Next ==
    \/ SrcSkip \/ SrcLockSet \/ SrcSend \/ SrcStop
    \/ WorkerRecv \/ WorkerBroadcast \/ WorkerSaveOffset \/ WorkerDone
    \/ Cancel \/ Restart

Spec == Init /\ [][Next]_vars

-----------------------------------------------------------------------------
TypeOK ==
    /\ offset \in 0..NRecords
    /\ nextI \in 0..NRecords
    /\ locked \in BOOLEAN
    /\ srcPc \in {"wait", "send", "finished", "stopped"}
    /\ buf \in Seq(Record) /\ Len(buf) <= BufCap
    /\ wPc \in {"recv", "broadcast", "offset", "stopped"}
    /\ cur \in 0..NRecords
    /\ stored \in 0..NRecords
    /\ done \in BOOLEAN
    /\ restarts \in 0..MaxRestarts
    /\ base \in 0..NRecords
    /\ run \in Seq(Record)
    /\ forwarded \subseteq Record

(* An incarnation forwards the records after the offset it resumed from,   *)
(* each once and in the order of the source, with none skipped.            *)
ReplayResumesAtOffset ==
    run = [i \in 1..Len(run) |-> base + i]

(* The stored offset only counts records the node has forwarded (spec 4.2: *)
(* the offset is persisted after each successfully forwarded tuple), so a  *)
(* restart that rewinds to it loses nothing.                               *)
OffsetCountsForwarded ==
    \A i \in 1..stored : i \in forwarded

-----------------------------------------------------------------------------
(* The source node implements ReplayLog: the committed offset, the resume  *)
(* point and the records forwarded by the running incarnation are its     *)
(* abstract state.                                                         *)
Log == INSTANCE ReplayLog WITH NRecords <- NRecords, stored <- stored,
                               base <- base, run <- run

(* Every behaviour of the worker, the source and the restarts is one of    *)
(* ReplayLog: each broadcast forwards the record after those already      *)
(* forwarded since the resume point, each PutState(OffsetKey, offset)     *)
(* commits an offset no smaller than the last, and a restart resumes from *)
(* the committed offset.                                                   *)
ImplementsReplayLog == Log!Spec

=============================================================================
