----------------------------- MODULE FileSource -----------------------------
(***************************************************************************)
(* The file source of xstream/extensions/file_source.go read by the worker *)
(* of a source node (internal/topo/node/source_node.go).                   *)
(*                                                                         *)
(* Configure validates the properties once.  Open then runs in its own     *)
(* goroutine: Load reads the whole file, sends every record and an EOF     *)
(* tuple to the consumer channel, each send in a select with ctx.Done();   *)
(* with an interval, a ticker loop loads the file again on every tick      *)
(* until ctx.Done().  A failed read is sent on errCh and Open returns.     *)
(*                                                                         *)
(* The worker of the source node selects over ctx.Done(), the source's     *)
(* error channel and the buffer.  It returns on ctx.Done() and after an    *)
(* error.  The buffer between them holds at most BufCap tuples.            *)
(***************************************************************************)
EXTENDS Naturals, Sequences

CONSTANTS
    NRecords,   \* records in the file when it reads as valid JSON
    BufCap,     \* capacity of the buffer the source sends into
    MaxLoads,   \* bound on the reloads of the ticker loop
    Configs     \* the property maps and files Configure may be given

VARIABLES
    conf,       \* the configuration the source was given
    status,     \* what Configure returned: "ok", "error" or "panic"
    spc,        \* where the Open goroutine is
    i,          \* records of the current Load sent so far
    loads,      \* reloads taken by the ticker loop
    buf,        \* tuples sent by the source, not yet taken by the worker
    wpc,        \* where the source node worker is
    ctxDone,    \* the rule's context is cancelled
    received    \* tuples the worker took from the buffer, in order

vars == <<conf, status, spc, i, loads, buf, wpc, ctxDone, received>>

EOF == "eof"
Tuple == (1..NRecords) \cup {EOF}

(* The file types Configure accepts (fileTypes in file_source.go).         *)
FileTypes == {"json"}

(***************************************************************************)
(* Configure.  MapToStruct fails on a property of the wrong type; then     *)
(* fileType, Path and the file name must be set; a relative Path is        *)
(* resolved with GetLoc, which may find no such directory.  Of the Stat    *)
(* errors only "not exist" is reported: on any other error fi is nil and   *)
(* fi.Mode() panics.  A Stat that succeeds is not checked further, so a    *)
(* directory is accepted.                                                  *)
(***************************************************************************)
ConfigureFails(c) ==
    \/ ~c.decodes
    \/ c.fileType = ""
    \/ c.fileType \notin FileTypes
    \/ c.path = ""
    \/ c.fileName = ""
    \/ c.path = "relative" /\ ~c.locFound
    \/ c.stat = "missing"

Configure(c) ==
    IF ConfigureFails(c) THEN "error"
    ELSE IF c.stat = "denied" THEN "panic"
    ELSE "ok"

(* ReadJsonUnmarshal returns the records only for a regular file.          *)
Readable == conf.stat = "regular"

(* After Load returned nil: the ticker loop when an interval is set,       *)
(* otherwise Open returns.                                                 *)
AfterLoad == IF conf.interval > 0 THEN "tick" ELSE "done"

(* The source node obtains the source instance, which configures it, and   *)
(* opens it when Configure succeeded; otherwise the worker reports the     *)
(* error with drainError and returns.                                      *)
Init ==
    /\ conf \in Configs
    /\ status = Configure(conf)
    /\ spc = IF status = "ok" THEN "load" ELSE "unopened"
    /\ wpc = IF status = "ok" THEN "loop" ELSE "returned"
    /\ i = 0
    /\ loads = 0
    /\ buf = <<>>
    /\ ctxDone = FALSE
    /\ received = <<>>

(***************************************************************************)
(* The Open goroutine.                                                     *)
(***************************************************************************)

(* Load: the file reads as a JSON array of records.                        *)
LoadRead ==
    /\ spc = "load"
    /\ Readable
    /\ spc' = "send"
    /\ i' = 0
    /\ UNCHANGED <<conf, status, loads, buf, wpc, ctxDone, received>>

(* Load: the read fails (a directory, a file removed or rewritten with     *)
(* invalid JSON since the last load); Open sends the error on errCh.       *)
LoadReadFail ==
    /\ spc = "load"
    /\ spc' = "errsend"
    /\ UNCHANGED <<conf, status, i, loads, buf, wpc, ctxDone, received>>

(* The select of Load sends the next record, or the EOF tuple after the    *)
(* last one; after the EOF, Load returns nil.                              *)
SendTuple ==
    /\ spc = "send"
    /\ Len(buf) < BufCap
    /\ IF i < NRecords
          THEN /\ buf' = Append(buf, i + 1)
               /\ i' = i + 1
               /\ spc' = spc
          ELSE /\ buf' = Append(buf, EOF)
               /\ spc' = AfterLoad
               /\ UNCHANGED i
    /\ UNCHANGED <<conf, status, loads, wpc, ctxDone, received>>

(* The select of Load takes ctx.Done(): Load returns nil.                  *)
SendCancelled ==
    /\ spc = "send"
    /\ ctxDone
    /\ spc' = AfterLoad
    /\ UNCHANGED <<conf, status, i, loads, buf, wpc, ctxDone, received>>

(* The ticker loop takes a tick and loads the file again.                  *)
Tick ==
    /\ spc = "tick"
    /\ loads < MaxLoads
    /\ spc' = "load"
    /\ loads' = loads + 1
    /\ UNCHANGED <<conf, status, i, buf, wpc, ctxDone, received>>

(* The ticker loop takes ctx.Done() and Open returns.                      *)
TickDone ==
    /\ spc = "tick"
    /\ ctxDone
    /\ spc' = "done"
    /\ UNCHANGED <<conf, status, i, loads, buf, wpc, ctxDone, received>>

(* errCh <- err, outside any select: it completes only when the worker     *)
(* receives it; the worker then reports it with drainError and returns.    *)
ErrSend ==
    /\ spc = "errsend"
    /\ wpc = "loop"
    /\ spc' = "done"
    /\ wpc' = "returned"
    /\ UNCHANGED <<conf, status, i, loads, buf, ctxDone, received>>

(***************************************************************************)
(* The source node worker and the rule.                                    *)
(***************************************************************************)

(* The worker takes a tuple from the buffer and broadcasts it.             *)
WorkerRecv ==
    /\ wpc = "loop"
    /\ buf # <<>>
    /\ received' = Append(received, Head(buf))
    /\ buf' = Tail(buf)
    /\ UNCHANGED <<conf, status, spc, i, loads, wpc, ctxDone>>

(* The worker takes ctx.Done(): it closes the source (FileSource.Close     *)
(* does nothing) and the buffer, and returns.                              *)
WorkerDone ==
    /\ wpc = "loop"
    /\ ctxDone
    /\ wpc' = "returned"
    /\ UNCHANGED <<conf, status, spc, i, loads, buf, ctxDone, received>>

(* The rule is stopped.                                                    *)
Cancel ==
    /\ ~ctxDone
    /\ ctxDone' = TRUE
    /\ UNCHANGED <<conf, status, spc, i, loads, buf, wpc, received>>

SourceStep ==
    LoadRead \/ LoadReadFail \/ SendTuple \/ SendCancelled \/ Tick
    \/ TickDone \/ ErrSend

WorkerStep == WorkerRecv \/ WorkerDone

Next == SourceStep \/ WorkerStep \/ Cancel

(* Both goroutines are scheduled whenever they can move, and the ticker    *)
(* keeps ticking; the read's outcome and the cancellation are not forced.  *)
Fairness ==
    /\ WF_vars(LoadRead) /\ WF_vars(SendTuple) /\ WF_vars(SendCancelled)
    /\ WF_vars(Tick) /\ WF_vars(TickDone) /\ WF_vars(ErrSend)
    /\ WF_vars(WorkerRecv) /\ WF_vars(WorkerDone)

Spec == Init /\ [][Next]_vars

FairSpec == Spec /\ Fairness

-----------------------------------------------------------------------------
(* The Open goroutine ends once the rule is stopped: spec 5 makes the      *)
(* cancellation an alternative of every suspension point, and each select  *)
(* of Open and Load has a ctx.Done() case.                                 *)
OpenReturnsAfterCancel ==
    ctxDone ~> (spc \in {"done", "unopened"})

=============================================================================
