------------------------------ MODULE ReplayLog ------------------------------
(***************************************************************************)
(* What a source node with a rewindable source promises downstream         *)
(* (spec 4.2), with the node's workers, buffer and mutex abstracted away.  *)
(*                                                                         *)
(* A run of the rule forwards the records of the source one at a time, in  *)
(* order, from the one after the offset it resumed from.  It commits       *)
(* offsets to the state store, never one below the last committed one.    *)
(* A restart resumes from the committed offset.                            *)
(***************************************************************************)
EXTENDS Naturals, Sequences

CONSTANT NRecords   \* number of records of the source

VARIABLES
    stored,   \* the committed offset
    base,     \* the offset the current run resumed from
    run       \* the records the current run has forwarded

Init ==
    /\ stored = 0
    /\ base = 0
    /\ run = <<>>

(* The next record after the resume point and those already forwarded.   *)
Forward ==
    /\ base + Len(run) < NRecords
    /\ run' = Append(run, base + Len(run) + 1)
    /\ UNCHANGED <<stored, base>>

(* An offset at or after the committed one is committed.                   *)
Commit ==
    /\ stored' \in stored..NRecords
    /\ UNCHANGED <<base, run>>

(* The rule starts again from the committed offset.                        *)
Resume ==
    /\ base' = stored
    /\ run' = <<>>
    /\ UNCHANGED stored

Next == Forward \/ Commit \/ Resume

Spec == Init /\ [][Next]_<<stored, base, run>>

=============================================================================
