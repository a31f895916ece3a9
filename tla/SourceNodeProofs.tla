-------------------------- MODULE SourceNodeProofs --------------------------
(***************************************************************************)
(* Proofs about SourceNode for every number of records, buffer capacity   *)
(* and number of restarts.                                                 *)
(*                                                                         *)
(* ReplayResumesAtOffset is not inductive: a broadcast appends cur to run, *)
(* so cur must be the next record, so must the head of the buffer, and so *)
(* must the record the source is about to send, which Open computes from  *)
(* nextI.  ReplayInv states the records of the running incarnation in     *)
(* flight (run, then cur, then the buffer) as consecutive numbers after   *)
(* base, ties nextI and the source's offset to how many there are, and    *)
(* keeps the committed offset at or below the source's while the worker   *)
(* runs, which is what makes every save a Commit of ReplayLog.  Once the  *)
(* worker has stopped, its close has reset the offset to 0 and the rule   *)
(* is cancelled, so the source can neither skip nor take another record.  *)
(***************************************************************************)
EXTENDS SourceNode, SequenceTheorems, TLAPS

(* The worker holds a record between its receive and its broadcast.       *)
InFlight == IF wPc = "broadcast" THEN 1 ELSE 0

(* Records the running incarnation has handed to the buffer.              *)
Sent == Len(run) + InFlight + Len(buf)

ReplayInv ==
    /\ TypeOK
    /\ \A j \in 1..Len(run) : run[j] = base + j
    /\ wPc = "broadcast" => cur = base + Len(run) + 1
    /\ \A j \in 1..Len(buf) : buf[j] = base + Len(run) + InFlight + j
    /\ locked <=> srcPc = "send"
    /\ \/ nextI < base /\ Sent = 0 /\ srcPc \in {"wait", "stopped"}
       \/ nextI >= base /\ nextI = base + Sent
    /\ srcPc = "send" => nextI < NRecords
    /\ wPc = "stopped" => done /\ offset = 0
    /\ wPc # "stopped" =>
          /\ offset = IF srcPc = "send" THEN nextI + 1
                      ELSE IF nextI < base THEN base ELSE nextI
          /\ stored <= offset

-----------------------------------------------------------------------------
USE NRecordsAssumption, BufCapAssumption, MaxRestartsAssumption

(* The initial state satisfies the inductive invariant.                   *)
LEMMA InitReplayInv == Init => ReplayInv
<1> SUFFICES ASSUME Init PROVE ReplayInv
  OBVIOUS
<1>1. run \in Seq(Record) /\ buf \in Seq(Record) /\ Len(run) = 0 /\ Len(buf) = 0
  BY EmptySeq DEF Init
<1>2. /\ offset \in 0..NRecords /\ nextI \in 0..NRecords /\ cur \in 0..NRecords
      /\ stored \in 0..NRecords /\ base \in 0..NRecords
      /\ restarts \in 0..MaxRestarts /\ forwarded \subseteq Record
  BY DEF Init
<1>3. locked \in BOOLEAN /\ done \in BOOLEAN
  BY DEF Init
<1>4. /\ srcPc \in {"wait", "send", "finished", "stopped"}
      /\ wPc \in {"recv", "broadcast", "offset", "stopped"}
  BY DEF Init
<1>5. TypeOK
  BY <1>1, <1>2, <1>3, <1>4 DEF TypeOK
<1>. QED BY <1>1, <1>5 DEF Init, ReplayInv, InFlight, Sent

(* Every step of Next, and every stuttering step, preserves ReplayInv.    *)
LEMMA NextReplayInv == ReplayInv /\ [Next]_vars => ReplayInv'
<1> SUFFICES ASSUME ReplayInv, [Next]_vars PROVE ReplayInv'
  OBVIOUS
<1>1. CASE SrcSkip
  BY <1>1 DEF SrcSkip, ReplayInv, TypeOK, InFlight, Sent, Record
<1>2. CASE SrcLockSet
  BY <1>2 DEF SrcLockSet, ReplayInv, TypeOK, InFlight, Sent, Record
<1>3. CASE SrcSend
  <2>1. nextI = base + Sent /\ nextI + 1 \in Record
    BY <1>3 DEF SrcSend, ReplayInv, TypeOK, Sent, InFlight, Record
  <2>2. /\ buf' \in Seq(Record) /\ Len(buf') = Len(buf) + 1
        /\ \A j \in 1..Len(buf) : buf'[j] = buf[j]
        /\ buf'[Len(buf) + 1] = nextI + 1
    BY <1>3, <2>1, AppendProperties DEF SrcSend, ReplayInv, TypeOK
  <2>3a. locked' \in BOOLEAN /\ done' \in BOOLEAN
    BY <1>3, <2>1, <2>2 DEF SrcSend, ReplayInv, TypeOK
  <2>3b. srcPc' \in {"wait", "send", "finished", "stopped"}
        /\ wPc' \in {"recv", "broadcast", "offset", "stopped"}
    BY <1>3, <2>1, <2>2 DEF SrcSend, ReplayInv, TypeOK
  <2>3c. /\ offset' \in 0..NRecords /\ nextI' \in 0..NRecords /\ cur' \in 0..NRecords
        /\ stored' \in 0..NRecords /\ base' \in 0..NRecords
        /\ restarts' \in 0..MaxRestarts /\ forwarded' \subseteq Record
        /\ buf' \in Seq(Record) /\ Len(buf') <= BufCap /\ run' \in Seq(Record)
    BY <1>3, <2>1, <2>2 DEF SrcSend, ReplayInv, TypeOK, Record
  <2>3. TypeOK'
    BY <2>3a, <2>3b, <2>3c DEF TypeOK
  <2>4. \A j \in 1..Len(buf') : buf'[j] = base' + Len(run') + InFlight' + j
    <3>1. InFlight' = InFlight /\ Len(run') = Len(run) /\ base' = base
      BY <1>3 DEF SrcSend, InFlight
    <3>2. Len(buf) \in Nat /\ Len(run) \in Nat /\ base \in Nat
      BY LenProperties DEF ReplayInv, TypeOK
    <3>3. ASSUME NEW j \in 1..Len(buf') PROVE buf'[j] = base + Len(run) + InFlight + j
      <4>1. CASE j <= Len(buf)
        BY <2>2, <3>2, <4>1 DEF ReplayInv
      <4>2. CASE j = Len(buf) + 1
        BY <2>1, <2>2, <3>2, <4>2 DEF Sent, InFlight
      <4>. QED BY <2>2, <3>2, <4>1, <4>2
    <3>. QED BY <3>1, <3>3
  <2>5. ~locked'
    BY <1>3 DEF SrcSend
  <2>6. srcPc' \in {"wait", "finished"} /\ wPc' = wPc
    BY <1>3 DEF SrcSend
  <2>7. /\ Len(run) \in Nat /\ Len(buf) \in Nat /\ base \in Nat
        /\ nextI' = nextI + 1 /\ InFlight' = InFlight /\ Len(run') = Len(run)
        /\ base' = base /\ InFlight \in {0, 1}
    BY <1>3, LenProperties DEF SrcSend, ReplayInv, TypeOK, InFlight
  <2>8. nextI' >= base' /\ nextI' = base' + Sent'
    BY <2>1, <2>2, <2>7 DEF Sent
  <2>9. wPc' # "stopped" =>
          /\ offset' = IF srcPc' = "send" THEN nextI' + 1
                        ELSE IF nextI' < base' THEN base' ELSE nextI'
          /\ stored' <= offset'
    BY <1>3, <2>6, <2>7, <2>8 DEF SrcSend, ReplayInv
  <2>10. wPc' = "stopped" => done' /\ offset' = 0
    BY <1>3 DEF SrcSend, ReplayInv
  <2>11. wPc' = "broadcast" => cur' = base' + Len(run') + 1
    BY <1>3, <2>7 DEF SrcSend, ReplayInv
  <2>12. \A j \in 1..Len(run') : run'[j] = base' + j
    BY <1>3 DEF SrcSend, ReplayInv
  <2>. QED BY <2>3, <2>4, <2>5, <2>6, <2>8, <2>9, <2>10, <2>11, <2>12 DEF ReplayInv
<1>4. CASE SrcStop
  BY <1>4 DEF SrcStop, ReplayInv, TypeOK, InFlight, Sent, Record
<1>5. CASE WorkerRecv
  <2>1. /\ Head(buf) = buf[1] /\ Head(buf) \in Record /\ Len(buf) >= 1
        /\ buf' \in Seq(Record) /\ Len(buf') = Len(buf) - 1
        /\ \A j \in 1..Len(buf') : buf'[j] = buf[j + 1]
    BY <1>5, HeadTailProperties, EmptySeq DEF WorkerRecv, ReplayInv, TypeOK
  <2>2. TypeOK'
    BY <1>5, <2>1 DEF WorkerRecv, ReplayInv, TypeOK, Record
  <2>3. cur' = base' + Len(run') + 1
    BY <1>5, <2>1 DEF WorkerRecv, ReplayInv, TypeOK, InFlight
  <2>4. \A j \in 1..Len(buf') : buf'[j] = base' + Len(run') + InFlight' + j
    BY <1>5, <2>1 DEF WorkerRecv, ReplayInv, TypeOK, InFlight
  <2>. QED BY <1>5, <2>1, <2>2, <2>3, <2>4 DEF WorkerRecv, ReplayInv, Sent, InFlight
<1>6. CASE WorkerBroadcast
  <2>1. cur = base + Len(run) + 1 /\ cur \in Record
    BY <1>6 DEF WorkerBroadcast, ReplayInv, TypeOK, Record
  <2>2. /\ run' \in Seq(Record) /\ Len(run') = Len(run) + 1
        /\ \A j \in 1..Len(run) : run'[j] = run[j]
        /\ run'[Len(run) + 1] = cur
    BY <1>6, <2>1, AppendProperties DEF WorkerBroadcast, ReplayInv, TypeOK
  <2>3a. locked' \in BOOLEAN /\ done' \in BOOLEAN
    BY <1>6, <2>1, <2>2 DEF WorkerBroadcast, ReplayInv, TypeOK
  <2>3b. srcPc' \in {"wait", "send", "finished", "stopped"}
        /\ wPc' \in {"recv", "broadcast", "offset", "stopped"}
    BY <1>6, <2>1, <2>2 DEF WorkerBroadcast, ReplayInv, TypeOK
  <2>3c. /\ offset' \in 0..NRecords /\ nextI' \in 0..NRecords /\ cur' \in 0..NRecords
        /\ stored' \in 0..NRecords /\ base' \in 0..NRecords
        /\ restarts' \in 0..MaxRestarts /\ forwarded' \subseteq Record
        /\ buf' \in Seq(Record) /\ Len(buf') <= BufCap /\ run' \in Seq(Record)
    BY <1>6, <2>1, <2>2 DEF WorkerBroadcast, ReplayInv, TypeOK, Record
  <2>3. TypeOK'
    BY <2>3a, <2>3b, <2>3c DEF TypeOK
  <2>4. \A j \in 1..Len(run') : run'[j] = base' + j
    <3>1. Len(run) \in Nat /\ base \in Nat /\ base' = base
      BY <1>6, LenProperties DEF WorkerBroadcast, ReplayInv, TypeOK
    <3>2. ASSUME NEW j \in 1..Len(run') PROVE run'[j] = base + j
      <4>1. CASE j <= Len(run)
        BY <2>2, <3>1, <4>1 DEF ReplayInv
      <4>2. CASE j = Len(run) + 1
        BY <2>1, <2>2, <3>1, <4>2
      <4>. QED BY <2>2, <3>1, <4>1, <4>2
    <3>. QED BY <3>1, <3>2
  <2>5. \A j \in 1..Len(buf') : buf'[j] = base' + Len(run') + InFlight' + j
    <3>1. InFlight = 1 /\ InFlight' = 0 /\ buf' = buf /\ base' = base
      BY <1>6 DEF WorkerBroadcast, InFlight
    <3>2. Len(run) \in Nat /\ Len(buf) \in Nat /\ base \in Nat
      BY LenProperties DEF ReplayInv, TypeOK
    <3>. QED BY <2>2, <3>1, <3>2 DEF ReplayInv
  <2>. QED BY <1>6, <2>2, <2>3, <2>4, <2>5 DEF WorkerBroadcast, ReplayInv, Sent, InFlight
<1>7. CASE WorkerSaveOffset
  BY <1>7 DEF WorkerSaveOffset, ReplayInv, TypeOK, InFlight, Sent, Record
<1>8. CASE WorkerDone
  BY <1>8 DEF WorkerDone, ReplayInv, TypeOK, InFlight, Sent, Record
<1>9. CASE Cancel
  BY <1>9 DEF Cancel, ReplayInv, TypeOK, InFlight, Sent, Record
<1>10. CASE Restart
  <2>1. run' \in Seq(Record) /\ buf' \in Seq(Record) /\ Len(run') = 0 /\ Len(buf') = 0
    BY <1>10, EmptySeq DEF Restart
  <2>2a. locked' \in BOOLEAN /\ done' \in BOOLEAN
    BY <1>10, <2>1 DEF Restart, Rewind, ReplayInv, TypeOK
  <2>2b. srcPc' \in {"wait", "send", "finished", "stopped"}
        /\ wPc' \in {"recv", "broadcast", "offset", "stopped"}
    BY <1>10, <2>1 DEF Restart, Rewind, ReplayInv, TypeOK
  <2>2c. /\ offset' \in 0..NRecords /\ nextI' \in 0..NRecords /\ cur' \in 0..NRecords
        /\ stored' \in 0..NRecords /\ base' \in 0..NRecords
        /\ restarts' \in 0..MaxRestarts /\ forwarded' \subseteq Record
        /\ buf' \in Seq(Record) /\ Len(buf') <= BufCap /\ run' \in Seq(Record)
    BY <1>10, <2>1 DEF Restart, Rewind, ReplayInv, TypeOK, Record, Rewind
  <2>2. TypeOK'
    BY <2>2a, <2>2b, <2>2c DEF TypeOK
  <2>3. (locked' <=> srcPc' = "send") /\ (wPc' = "stopped" => done' /\ offset' = 0)
    BY <1>10 DEF Restart
  <2>4. srcPc' = "wait" /\ wPc' = "recv"
    BY <1>10 DEF Restart
  <2>5. InFlight' = 0
    BY <2>4 DEF InFlight
  <2>6. Sent' = 0 /\ nextI' = 0 /\ offset' = base' /\ stored' <= offset'
    BY <1>10, <2>1, <2>5 DEF Restart, Rewind, ReplayInv, TypeOK, Sent
  <2>7. base' \in Nat
    BY <2>2 DEF TypeOK
  <2>8. \/ nextI' < base' /\ Sent' = 0 /\ srcPc' \in {"wait", "stopped"}
        \/ nextI' >= base' /\ nextI' = base' + Sent'
    <3>1. CASE base' = 0
      BY <2>6, <3>1
    <3>2. CASE base' > 0
      BY <2>4, <2>6, <3>2
    <3>. QED BY <2>7, <3>1, <3>2
  <2>9. offset' = IF srcPc' = "send" THEN nextI' + 1
                  ELSE IF nextI' < base' THEN base' ELSE nextI'
    BY <2>4, <2>6, <2>7
  <2>10. /\ \A j \in 1..Len(run') : run'[j] = base' + j
         /\ \A j \in 1..Len(buf') : buf'[j] = base' + Len(run') + InFlight' + j
    BY <2>1
  <2>11. wPc' # "broadcast" /\ srcPc' # "send" /\ wPc' # "stopped"
    BY <2>4
  <2>. QED BY <2>2, <2>3, <2>6, <2>8, <2>9, <2>10, <2>11 DEF ReplayInv
<1>11. CASE UNCHANGED vars
  BY <1>11 DEF vars, ReplayInv, TypeOK, InFlight, Sent, Record
<1>. QED BY <1>1, <1>2, <1>3, <1>4, <1>5, <1>6, <1>7, <1>8, <1>9, <1>10, <1>11
         DEF Next

(* ReplayInv holds in every reachable state.                               *)
LEMMA ReplayInvariant == Spec => []ReplayInv
BY InitReplayInv, NextReplayInv, PTL DEF Spec

(* The source node's state keeps its types in every reachable state.      *)
THEOREM TypeCorrect == Spec => []TypeOK
BY ReplayInvariant, PTL DEF ReplayInv

(* Replay after any number of crashes and restarts: each incarnation of   *)
(* the rule broadcasts the records after the offset its source was        *)
(* rewound to, in order and with none skipped.                             *)
THEOREM ReplayCorrect == Spec => []ReplayResumesAtOffset
<1>1. ReplayInv => ReplayResumesAtOffset
  <2> SUFFICES ASSUME ReplayInv PROVE ReplayResumesAtOffset
    OBVIOUS
  <2>1. run \in [1..Len(run) -> Record]
    BY LenProperties DEF ReplayInv, TypeOK
  <2>. QED BY <2>1 DEF ReplayInv, ReplayResumesAtOffset
<1>. QED BY <1>1, ReplayInvariant, PTL

-----------------------------------------------------------------------------
(* Each step of the source node is a step of ReplayLog or leaves its      *)
(* abstract state unchanged.                                               *)
LEMMA NextRefines ==
    ReplayInv /\ [Next]_vars => [Log!Next]_<<stored, base, run>>
<1> SUFFICES ASSUME ReplayInv, [Next]_vars
             PROVE  [Log!Next]_<<stored, base, run>>
  OBVIOUS
<1>1. CASE WorkerBroadcast
  <2>1. cur = base + Len(run) + 1 /\ cur \in Record
    BY <1>1 DEF WorkerBroadcast, ReplayInv, TypeOK, Record
  <2>2. base + Len(run) < NRecords
    BY <2>1, LenProperties DEF ReplayInv, TypeOK, Record
  <2>. QED BY <1>1, <2>1, <2>2 DEF WorkerBroadcast, Log!Next, Log!Forward
<1>2. CASE WorkerSaveOffset
  <2>1. stored <= offset /\ offset \in 0..NRecords /\ stored \in Nat
    BY <1>2 DEF WorkerSaveOffset, ReplayInv, TypeOK
  <2>. QED BY <1>2, <2>1 DEF WorkerSaveOffset, Log!Next, Log!Commit
<1>3. CASE Restart
  BY <1>3 DEF Restart, Rewind, Log!Next, Log!Resume
<1>4. CASE SrcSkip \/ SrcLockSet \/ SrcSend \/ SrcStop \/ WorkerRecv
           \/ WorkerDone \/ Cancel
  BY <1>4 DEF SrcSkip, SrcLockSet, SrcSend, SrcStop, WorkerRecv, WorkerDone,
              Cancel
<1>5. CASE UNCHANGED vars
  BY <1>5 DEF vars
<1>. QED BY <1>1, <1>2, <1>3, <1>4, <1>5 DEF Next

(* The source node implements ReplayLog (the property                      *)
(* ImplementsReplayLog): every behaviour of its worker, its source and    *)
(* its restarts forwards, commits and resumes as ReplayLog allows.        *)
THEOREM Refinement == Spec => ImplementsReplayLog
<1>1. Init => Log!Init
  BY DEF Init, Log!Init
<1>. QED BY <1>1, NextRefines, ReplayInvariant, PTL
         DEF Spec, ImplementsReplayLog, Log!Spec

=============================================================================
