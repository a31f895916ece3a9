------------------------------ MODULE GroupKey ------------------------------
(***************************************************************************)
(* The GROUP BY step of the aggregate operator                             *)
(* (internal/topo/operators/aggregate_operator.go, AggregateOp.Apply).     *)
(*                                                                         *)
(* Apply extracts the DataValuers of its input, evaluates every dimension  *)
(* on each of them and files the tuple under the string                    *)
(*     name = fmt.Sprintf("%v,", r1) + fmt.Sprintf("%v,", r2) + ...        *)
(* The groups are the values of a Go map, so their order is not defined:   *)
(* the result is a set of groups.  The grouping key is what the properties *)
(* are about, so a value is a record of its type and of the characters %v  *)
(* prints for it, and the key is built from those characters.  A tuple is  *)
(* its position in the extracted list; its row gives the value of every    *)
(* dimension, or EvalErr when evaluating that dimension fails.             *)
(***************************************************************************)
EXTENDS Naturals, Sequences, FiniteSets

CONSTANTS
    Values,     \* values a dimension can evaluate to: [kind, text]
    NDims,      \* number of GROUP BY dimensions
    MaxTuples   \* longest tuple list of an input

VARIABLES
    input,      \* the data argument of Apply
    output      \* what Apply returns

vars == <<input, output>>

-----------------------------------------------------------------------------
Dims == 1..NDims

EvalErr == [kind |-> "error", text |-> <<>>]

Row == [Dims -> Values \cup {EvalErr}]

TupleList == UNION {[1..n -> Row] : n \in 0..MaxTuples}

(* The inputs Apply receives: an error, one tuple, a window's tuple set    *)
(* (one tuple list per emitter), a join's tuple set, or anything else;     *)
(* with or without GROUP BY dimensions.                                    *)
Inputs ==
    [hasDims : BOOLEAN, kind : {"error", "other"}]
    \cup [hasDims : BOOLEAN, kind : {"tuple"}, tuples : {<<r>> : r \in Row}]
    \cup [hasDims : BOOLEAN, kind : {"join"}, tuples : TupleList]
    \cup [hasDims : BOOLEAN, kind : {"window"},
          content : {<<>>} \cup {<<s>> : s \in TupleList}
                    \cup {<<s, t>> : s, t \in [1..1 -> Row]}]

(* What Apply returns: its input unchanged, an error, nil, or a          *)
(* GroupedTuplesSet.                                                       *)
Passed(in) == [tag |-> "data", data |-> in]
Error(reason) == [tag |-> "error", reason |-> reason]
Nil == [tag |-> "nil"]
Groups(set) == [tag |-> "groups", groups |-> set]

(* fmt.Sprintf("%v,", r) appended for every dimension, in declared order.  *)
Key(row) ==
    LET name[i \in 0..NDims] ==
            IF i = 0 THEN <<>> ELSE name[i - 1] \o row[i].text \o <<",">>
    IN  name[NDims]

(* The DataValuers of the type switch: the tuple itself, the only emitter's *)
(* tuples of a window, or the tuples of a join.                            *)
Members(in) ==
    IF in.kind = "window" THEN in.content[1] ELSE in.tuples

(* The positions of ms filed under key k, in the order they were appended. *)
GroupOf(ms, k) ==
    SelectSeq([i \in 1..Len(ms) |-> i], LAMBDA i : Key(ms[i]) = k)

(* The loop over ms: result[name] gets each tuple appended, then the map's *)
(* values become the GroupedTuplesSet.                                     *)
GroupBy(ms) ==
    {[key |-> Key(ms[i]), content |-> GroupOf(ms, Key(ms[i]))] : i \in 1..Len(ms)}

(* AggregateOp.Apply.                                                      *)
Apply(in) ==
    IF ~in.hasDims THEN Passed(in)
    ELSE IF in.kind = "error" THEN Error("input")
    ELSE IF in.kind = "window" /\ Len(in.content) # 1 THEN Error("multiple")
    ELSE IF in.kind = "other" THEN Error("invalid")
    ELSE IF \E i \in 1..Len(Members(in)), d \in Dims :
               Members(in)[i][d] = EvalErr
         THEN Error("eval")
    ELSE IF Len(Members(in)) = 0 THEN Nil
    ELSE Groups(GroupBy(Members(in)))

-----------------------------------------------------------------------------
Init ==
    /\ input \in Inputs
    /\ output = Apply(input)

(* The operator is applied to its next input.                              *)
Receive ==
    \E in \in Inputs :
       /\ input' = in
       /\ output' = Apply(in)

Spec == Init /\ [][Receive]_vars

-----------------------------------------------------------------------------
(* The tuples Apply grouped, and the groups, when it returned a           *)
(* GroupedTuplesSet.                                                       *)
Grouped == output.tag = "groups"

Ms == Members(input)

InGroup(i, g) == \E n \in 1..Len(g.content) : g.content[n] = i

(* Two tuples belong to the same group if and only if every group-by       *)
(* expression evaluates to equal values for both (spec 8).                 *)
GroupIffEqualValues ==
    Grouped =>
       \A g \in output.groups, i, j \in 1..Len(Ms) :
          InGroup(i, g) => (InGroup(j, g) <=> Ms[i] = Ms[j])

=============================================================================
