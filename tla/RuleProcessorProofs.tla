------------------------ MODULE RuleProcessorProofs ------------------------
(***************************************************************************)
(* Proofs about the rule processor: the type invariant, that the rule     *)
(* store only holds rules getRuleByJson accepts, and that every topology  *)
(* createTopoWithSources builds is the chain of spec 2.                   *)
(*                                                                         *)
(* The chain is proved stage by stage.  ChainUpTo(b, n, r) says what the   *)
(* build b of n streams looks like after the first m of the seven ifs:    *)
(* the n preprocessors, then operators of the first m stages in their     *)
(* order, each fed by the one before, and inputs the last node.            *)
(***************************************************************************)
EXTENDS RuleProcessor, FiniteSetTheorems, SequenceTheorems, TLAPS

OpType == [id : NodeIds, inputs : SUBSET NodeIds]

PreOp(i) == [id |-> <<"preprocessor", i>>, inputs |-> {<<"source", i>>}]

ChainUpTo(b, n, m) ==
    /\ b.ops \in Seq(OpType)
    /\ n <= Len(b.ops)
    /\ \A i \in 1..n : b.ops[i] = PreOp(i)
    /\ \A i \in n + 1..Len(b.ops) : \E q \in 1..m : b.ops[i].id = <<Stages[q], 0>>
    /\ \A i \in n + 1..Len(b.ops) :
          b.ops[i].inputs = IF i = n + 1 THEN {b.ops[p].id : p \in 1..n} ELSE {b.ops[i - 1].id}
    /\ \A i \in n + 2..Len(b.ops) :
          StageRank(b.ops[i - 1].id[1]) < StageRank(b.ops[i].id[1])
    /\ b.inputs = IF Len(b.ops) = n THEN {b.ops[p].id : p \in 1..n} ELSE {b.ops[Len(b.ops)].id}

(* The stages are seven distinct names.                                    *)
LEMMA StageRankOf ==
    \A q \in 1..Len(Stages) : StageRank(Stages[q]) = q
BY DEF StageRank, Stages

(* The preprocessors of n streams are the chain of no stage.              *)
LEMMA PreprocessorsChain ==
    ASSUME NEW n \in Nat
    PROVE  ChainUpTo(Preprocessors(n), n, 0)
<1> DEFINE b == Preprocessors(n)
<1>1. b.ops = [i \in 1..n |-> PreOp(i)] /\ b.inputs = {<<"preprocessor", i>> : i \in 1..n}
  BY DEF Preprocessors, PreOp
<1>2. \A i \in 1..n : PreOp(i) \in OpType
  BY DEF PreOp, OpType, NodeIds
<1>3. b.ops \in Seq(OpType) /\ Len(b.ops) = n
  BY <1>1, <1>2
<1>4. b.inputs = {b.ops[p].id : p \in 1..n}
  BY <1>1 DEF PreOp
<1> QED
  BY <1>1, <1>3, <1>4 DEF ChainUpTo

(* Each if keeps a chain, and the operator it adds comes after every one   *)
(* before it: step r adds the operator of stage r.                         *)
LEMMA StepChain ==
    ASSUME NEW sel, NEW b, NEW n \in Nat, NEW r \in 1..Len(Stages), ChainUpTo(b, n, r - 1)
    PROVE  ChainUpTo(Step(sel, b, Stages[r]), n, r)
<1> DEFINE k == Stages[r]
           L == Len(b.ops)
<1>0a. b.ops \in Seq(OpType)
  BY DEF ChainUpTo
<1>0. /\ n <= L /\ L \in Nat
      /\ \A i \in 1..n : b.ops[i] = PreOp(i)
      /\ \A i \in n + 1..L : \E q \in 1..r - 1 : b.ops[i].id = <<Stages[q], 0>>
      /\ \A i \in n + 1..L :
            b.ops[i].inputs = IF i = n + 1 THEN {b.ops[p].id : p \in 1..n} ELSE {b.ops[i - 1].id}
      /\ \A i \in n + 2..L : StageRank(b.ops[i - 1].id[1]) < StageRank(b.ops[i].id[1])
      /\ b.inputs = IF L = n THEN {b.ops[p].id : p \in 1..n} ELSE {b.ops[L].id}
  BY <1>0a, LenProperties DEF ChainUpTo
<1>1. CASE ~Wants(sel, k)
  <2>1. Step(sel, b, k) = b
    BY <1>1 DEF Step
  <2>2. \A i \in n + 1..L : \E q \in 1..r : b.ops[i].id = <<Stages[q], 0>>
    BY <1>0
  <2>3. ChainUpTo(b, n, r)
    BY <1>0a, <1>0, <2>2 DEF ChainUpTo
  <2> QED
    BY <2>1, <2>3
<1>2. CASE Wants(sel, k)
  <2> DEFINE new == [id |-> <<k, 0>>, inputs |-> b.inputs]
             c == Step(sel, b, k)
  <2>1. c = [ops |-> Append(b.ops, new), inputs |-> {<<k, 0>>}]
    BY <1>2 DEF Step, Stage
  <2>2. b.inputs \subseteq NodeIds
    <3>1. \A i \in 1..L : b.ops[i] \in OpType
      BY <1>0a, LenProperties
    <3> QED
      BY <1>0, <3>1 DEF OpType
  <2>3. new \in OpType
    <3>1. k \in ToSet(Stages)
      BY DEF ToSet, Stages
    <3> QED
      BY <2>2, <3>1 DEF OpType, NodeIds
  <2>4a. c.ops \in Seq(OpType)
    BY <1>0a, <2>1, <2>3, AppendProperties
  <2>4. /\ Len(c.ops) = L + 1
        /\ \A i \in 1..L : c.ops[i] = b.ops[i]
        /\ c.ops[L + 1] = new
    BY <1>0a, <2>1, <2>3, AppendProperties
  <2>5. \A i \in n + 1..L + 1 : \E q \in 1..r : c.ops[i].id = <<Stages[q], 0>>
    <3> SUFFICES ASSUME NEW i \in n + 1..L + 1
                 PROVE  \E q \in 1..r : c.ops[i].id = <<Stages[q], 0>>
      OBVIOUS
    <3>1. CASE i \in n + 1..L
      <4>1. i \in 1..L
        BY <3>1, <1>0
      <4>2. c.ops[i] = b.ops[i]
        BY <4>1, <2>4
      <4>3. PICK q \in 1..r - 1 : b.ops[i].id = <<Stages[q], 0>>
        BY <3>1, <1>0
      <4> QED
        BY <4>2, <4>3
    <3>2. CASE i = L + 1
      <4>1. c.ops[i] = new
        BY <3>2, <2>4
      <4> QED
        BY <4>1
    <3> QED
      BY <3>1, <3>2, <1>0
  <2>6. \A i \in n + 1..L + 1 :
          c.ops[i].inputs = IF i = n + 1 THEN {c.ops[p].id : p \in 1..n} ELSE {c.ops[i - 1].id}
    <3> SUFFICES ASSUME NEW i \in n + 1..L + 1
                 PROVE  c.ops[i].inputs = IF i = n + 1 THEN {c.ops[p].id : p \in 1..n}
                                          ELSE {c.ops[i - 1].id}
      OBVIOUS
    <3>0. {c.ops[p].id : p \in 1..n} = {b.ops[p].id : p \in 1..n}
      <4>1. 1..n \subseteq 1..L
        BY <1>0
      <4>2. \A p \in 1..n : c.ops[p] = b.ops[p]
        BY <4>1, <2>4
      <4> QED
        BY <4>2
    <3>1. CASE i \in n + 1..L
      <4>1. i \in 1..L /\ (i # n + 1 => i - 1 \in 1..L)
        BY <3>1, <1>0
      <4> QED
        BY <3>0, <3>1, <4>1, <1>0, <2>4
    <3>2. CASE i = L + 1
      <4>1. c.ops[i].inputs = b.inputs
        BY <3>2, <2>4
      <4>2. CASE L = n
        <5>1. i = n + 1
          BY <3>2, <4>2
        <5> QED
          BY <3>0, <4>1, <4>2, <5>1, <1>0
      <4>3. CASE L # n
        <5>1. i # n + 1 /\ i - 1 = L /\ L \in 1..L
          BY <3>2, <4>3, <1>0
        <5>2. c.ops[i - 1] = b.ops[L]
          BY <5>1, <2>4
        <5> QED
          BY <4>1, <4>3, <5>1, <5>2, <1>0
      <4> QED
        BY <4>2, <4>3
    <3> QED
      BY <3>1, <3>2, <1>0
  <2>7. \A i \in n + 2..L + 1 : StageRank(c.ops[i - 1].id[1]) < StageRank(c.ops[i].id[1])
    <3> SUFFICES ASSUME NEW i \in n + 2..L + 1
                 PROVE  StageRank(c.ops[i - 1].id[1]) < StageRank(c.ops[i].id[1])
      OBVIOUS
    <3>1. CASE i \in n + 2..L
      <4>1. i - 1 \in 1..L /\ i \in 1..L
        BY <3>1, <1>0
      <4>2. c.ops[i - 1] = b.ops[i - 1] /\ c.ops[i] = b.ops[i]
        BY <4>1, <2>4
      <4>3. StageRank(b.ops[i - 1].id[1]) < StageRank(b.ops[i].id[1])
        BY <3>1, <1>0
      <4> QED
        BY <4>2, <4>3
    <3>2. CASE i = L + 1
      <4>0. L \in n + 1..L /\ L \in 1..L
        BY <3>2, <1>0
      <4>1. PICK q \in 1..r - 1 : b.ops[L].id = <<Stages[q], 0>>
        BY <4>0, <1>0
      <4>2. q \in 1..Len(Stages) /\ k = Stages[r]
        OBVIOUS
      <4>3. StageRank(Stages[q]) = q /\ StageRank(k) = r
        BY <4>2, StageRankOf
      <4>4a. i - 1 = L
        BY <3>2, <1>0
      <4>4. c.ops[i - 1] = b.ops[L] /\ c.ops[i] = new
        BY <3>2, <4>0, <4>4a, <2>4
      <4>5. c.ops[i - 1].id[1] = Stages[q] /\ c.ops[i].id[1] = k
        BY <4>1, <4>4
      <4> QED
        BY <4>3, <4>5
    <3> QED
      BY <3>1, <3>2, <1>0
  <2>8. c.inputs = {c.ops[L + 1].id}
    BY <2>1, <2>4
  <2>9. n <= Len(c.ops) /\ Len(c.ops) # n
    BY <1>0, <2>4
  <2>10. \A i \in 1..n : c.ops[i] = PreOp(i)
    <3>1. \A i \in 1..n : c.ops[i] = b.ops[i]
      BY <1>0, <2>4
    <3> QED
      BY <1>0, <3>1
  <2>11. c.inputs = IF Len(c.ops) = n THEN {c.ops[p].id : p \in 1..n}
                    ELSE {c.ops[Len(c.ops)].id}
    BY <2>4, <2>8, <2>9
  <2>12. ChainUpTo(c, n, r)
    BY <2>4a, <2>5, <2>6, <2>7, <2>9, <2>10, <2>11, <2>4 DEF ChainUpTo
  <2> QED
    BY <2>12
<1> QED
  BY <1>1, <1>2

(* The seven ifs of createTopoWithSources, taken in order, build a chain.  *)
LEMMA OperatorsChain ==
    ASSUME NEW sel, NEW n \in Nat
    PROVE  ChainUpTo(Operators(sel, n), n, Len(Stages))
<1> DEFINE b0 == Preprocessors(n)
           b1 == Step(sel, b0, "window")
           b2 == Step(sel, b1, "join")
           b3 == Step(sel, b2, "filter")
           b4 == Step(sel, b3, "aggregate")
           b5 == Step(sel, b4, "having")
           b6 == Step(sel, b5, "order")
           b7 == Step(sel, b6, "project")
<1>0. /\ Len(Stages) = 7
      /\ Stages[1] = "window" /\ Stages[2] = "join" /\ Stages[3] = "filter"
      /\ Stages[4] = "aggregate" /\ Stages[5] = "having" /\ Stages[6] = "order"
      /\ Stages[7] = "project"
  BY DEF Stages
<1>1. ChainUpTo(b0, n, 0)
  BY PreprocessorsChain
<1>2. ChainUpTo(b1, n, 1)
  BY <1>0, <1>1, StepChain
<1>3. ChainUpTo(b2, n, 2)
  BY <1>0, <1>2, StepChain
<1>4. ChainUpTo(b3, n, 3)
  BY <1>0, <1>3, StepChain
<1>5. ChainUpTo(b4, n, 4)
  BY <1>0, <1>4, StepChain
<1>6. ChainUpTo(b5, n, 5)
  BY <1>0, <1>5, StepChain
<1>7. ChainUpTo(b6, n, 6)
  BY <1>0, <1>6, StepChain
<1>8. ChainUpTo(b7, n, 7)
  BY <1>0, <1>7, StepChain
<1> QED
  BY <1>0, <1>8 DEF Operators

(* A reply that carries a chain, with every sink on the chain's outputs,   *)
(* is well typed and is a chain in the sense of PipelineIsChain.           *)
LEMMA ChainFields ==
    ASSUME NEW b, NEW n \in Nat, NEW k \in Nat, ChainUpTo(b, n, k), NEW r,
           r.ops = b.ops, r.inputs = b.inputs
    PROVE  ChainUpTo(r, n, k)
<1>0. /\ n <= Len(b.ops)
      /\ \A i \in 1..n : b.ops[i] = PreOp(i)
      /\ \A i \in n + 1..Len(b.ops) : \E q \in 1..k : b.ops[i].id = <<Stages[q], 0>>
      /\ \A i \in n + 1..Len(b.ops) :
            b.ops[i].inputs = IF i = n + 1 THEN {b.ops[p].id : p \in 1..n} ELSE {b.ops[i - 1].id}
      /\ \A i \in n + 2..Len(b.ops) : StageRank(b.ops[i - 1].id[1]) < StageRank(b.ops[i].id[1])
      /\ b.inputs = IF Len(b.ops) = n THEN {b.ops[p].id : p \in 1..n} ELSE {b.ops[Len(b.ops)].id}
  BY DEF ChainUpTo
<1>1. r.ops \in Seq(OpType)
  BY DEF ChainUpTo
<1>2. n <= Len(r.ops) /\ \A i \in 1..n : r.ops[i] = PreOp(i)
  BY <1>0
<1>3. \A i \in n + 1..Len(r.ops) : \E q \in 1..k : r.ops[i].id = <<Stages[q], 0>>
  BY <1>0
<1>4. \A i \in n + 1..Len(r.ops) :
         r.ops[i].inputs = IF i = n + 1 THEN {r.ops[p].id : p \in 1..n} ELSE {r.ops[i - 1].id}
  <2> SUFFICES ASSUME NEW i \in n + 1..Len(r.ops)
               PROVE  r.ops[i].inputs = IF i = n + 1 THEN {r.ops[p].id : p \in 1..n}
                                        ELSE {r.ops[i - 1].id}
    OBVIOUS
  <2>1. {r.ops[p].id : p \in 1..n} = {b.ops[p].id : p \in 1..n}
    OBVIOUS
  <2> QED
    BY <1>0, <2>1
<1>5. \A i \in n + 2..Len(r.ops) : StageRank(r.ops[i - 1].id[1]) < StageRank(r.ops[i].id[1])
  BY <1>0
<1>6. r.inputs = IF Len(r.ops) = n THEN {r.ops[p].id : p \in 1..n} ELSE {r.ops[Len(r.ops)].id}
  BY <1>0
<1> QED
  BY <1>1, <1>2, <1>3, <1>4, <1>5, <1>6 DEF ChainUpTo

LEMMA ChainReply ==
    ASSUME NEW n \in Nat, NEW r, ChainUpTo(r, n, Len(Stages)),
           r.status = "ok", "ops" \in DOMAIN r,
           \A s \in DOMAIN r.sinks : r.sinks[s].inputs = r.inputs
    PROVE  ReplyType(r) /\ IsChain(r)
<1> DEFINE L == Len(r.ops)
           pre == {i \in 1..L : r.ops[i].id[1] = "preprocessor"}
<1>0a. r.ops \in Seq(OpType)
  BY DEF ChainUpTo
<1>0. /\ n <= L /\ L \in Nat
      /\ \A i \in 1..n : r.ops[i] = PreOp(i)
      /\ \A i \in n + 1..L : \E q \in 1..Len(Stages) : r.ops[i].id = <<Stages[q], 0>>
      /\ \A i \in n + 1..L :
            r.ops[i].inputs = IF i = n + 1 THEN {r.ops[p].id : p \in 1..n} ELSE {r.ops[i - 1].id}
      /\ \A i \in n + 2..L : StageRank(r.ops[i - 1].id[1]) < StageRank(r.ops[i].id[1])
      /\ r.inputs = IF L = n THEN {r.ops[p].id : p \in 1..n} ELSE {r.ops[L].id}
  BY <1>0a, LenProperties DEF ChainUpTo
<1>1. pre = 1..n
  <2>1. \A i \in 1..n : r.ops[i].id[1] = "preprocessor"
    <3> SUFFICES ASSUME NEW i \in 1..n PROVE r.ops[i].id[1] = "preprocessor"
      OBVIOUS
    <3>1. r.ops[i] = PreOp(i)
      BY <1>0
    <3> QED
      BY <3>1 DEF PreOp
  <2>2. \A i \in n + 1..L : r.ops[i].id[1] # "preprocessor"
    <3> SUFFICES ASSUME NEW i \in n + 1..L PROVE r.ops[i].id[1] # "preprocessor"
      OBVIOUS
    <3>1. PICK q \in 1..Len(Stages) : r.ops[i].id = <<Stages[q], 0>>
      BY <1>0
    <3>2. Stages[q] # "preprocessor"
      BY DEF Stages
    <3> QED
      BY <3>1, <3>2
  <2> QED
    BY <1>0, <2>1, <2>2
<1>2. Cardinality(pre) = n
  <2>1. Cardinality(1..n) = n
    BY FS_Interval
  <2> QED
    BY <1>1, <2>1
<1>3. r.inputs \subseteq NodeIds
  <2>1. \A i \in 1..L : r.ops[i] \in OpType
    BY <1>0a, LenProperties
  <2> QED
    BY <1>0, <2>1 DEF OpType
<1>4. ReplyType(r)
  BY <1>0a, <1>3 DEF ReplyType, OpType
<1>5. IsChain(r)
  <2>1. \A i \in pre : r.ops[i] = [id |-> <<"preprocessor", i>>, inputs |-> {<<"source", i>>}]
    BY <1>0, <1>1 DEF PreOp
  <2>2. \A i \in n + 1..L :
           /\ r.ops[i].inputs = IF i = n + 1 THEN {r.ops[p].id : p \in pre}
                                ELSE {r.ops[i - 1].id}
           /\ i > n + 1 => StageRank(r.ops[i - 1].id[1]) < StageRank(r.ops[i].id[1])
    <3>1. {r.ops[p].id : p \in pre} = {r.ops[p].id : p \in 1..n}
      BY <1>1
    <3> SUFFICES ASSUME NEW i \in n + 1..L
                 PROVE  /\ r.ops[i].inputs = IF i = n + 1 THEN {r.ops[p].id : p \in 1..n}
                                             ELSE {r.ops[i - 1].id}
                        /\ i > n + 1 => StageRank(r.ops[i - 1].id[1]) < StageRank(r.ops[i].id[1])
      BY <3>1
    <3>2. i > n + 1 => i \in n + 2..L
      BY <1>0
    <3> QED
      BY <1>0, <3>2
  <2>3. \A s \in DOMAIN r.sinks :
           r.sinks[s].inputs = IF L = n THEN {r.ops[i].id : i \in pre} ELSE {r.ops[L].id}
    BY <1>0, <1>1
  <2> QED
    BY <1>1, <1>2, <2>1, <2>2, <2>3, Zenon DEF IsChain
<1> QED
  BY <1>4, <1>5

(* What createTopoWithSources can return: an error, which carries no       *)
(* topology, or the build of a chain with no sinks yet.                    *)
ErrorShape(t) == t.status = "error" /\ DOMAIN t = {"op", "status", "reason"}

BuildShape(t) ==
    \/ ErrorShape(t)
    \/ \E b : \E n \in Nat :
          /\ ChainUpTo(b, n, Len(Stages))
          /\ t = [op |-> "build", status |-> "ok", ops |-> b.ops, inputs |-> b.inputs,
                  sinks |-> <<>>]

(* Every check of createTopoWithSources returns an error; past them all,   *)
(* the topology is the chain of the SELECT's streams.                      *)
LEMMA TopoShape ==
    ASSUME NEW rule, NEW srcs, NEW f, NEW db,
           rule.sql.kind = "select" => rule.sql.streams \in Seq(StreamNames)
    PROVE  BuildShape(CreateTopoWithSources(rule, srcs, f, db))
<1> DEFINE sel == rule.sql
           n == Len(sel.streams)
           t == CreateTopoWithSources(rule, srcs, f, db)
<1>1. \/ ErrorShape(t)
      \/ /\ sel.kind = "select"
         /\ t = [op |-> "build", status |-> "ok", ops |-> Operators(sel, n).ops,
                 inputs |-> Operators(sel, n).inputs, sinks |-> <<>>]
  BY DEF CreateTopoWithSources, Err, ErrorShape
<1>2. CASE ErrorShape(t)
  BY <1>2 DEF BuildShape
<1>3. CASE sel.kind = "select" /\ ~ErrorShape(t)
  <2>1. n \in Nat
    BY <1>3, LenProperties
  <2>2. ChainUpTo(Operators(sel, n), n, Len(Stages))
    BY <2>1, OperatorsChain
  <2> QED
    BY <1>1, <1>3, <2>1, <2>2 DEF BuildShape
<1> QED
  BY <1>1, <1>2, <1>3

(* A reply is well typed and, when it succeeded with a topology, a chain.  *)
ReplyOK(r) == ReplyType(r) /\ IsChain(r)

(* An error carries no topology.                                          *)
LEMMA ErrorReply ==
    ASSUME NEW t, t.status \in {"error", "panic"}, "ops" \notin DOMAIN t
    PROVE  ReplyOK(t)
BY DEF ReplyOK, ReplyType, IsChain

LEMMA BuildReply ==
    ASSUME NEW t, BuildShape(t)
    PROVE  ReplyOK(t)
<1>1. CASE ErrorShape(t)
  BY <1>1, ErrorReply DEF ErrorShape
<1>2. CASE ~ErrorShape(t)
  <2>1. PICK b, n : /\ n \in Nat
                    /\ ChainUpTo(b, n, Len(Stages))
           /\ t = [op |-> "build", status |-> "ok", ops |-> b.ops, inputs |-> b.inputs,
                   sinks |-> <<>>]
    BY <1>2 DEF BuildShape
  <2>2. DOMAIN t.sinks = {} /\ t.status = "ok" /\ "ops" \in DOMAIN t
    BY <2>1
  <2>3. ChainUpTo(t, n, Len(Stages))
    BY <2>1, ChainFields
  <2> QED
    BY <2>1, <2>2, <2>3, ChainReply DEF ReplyOK
<1> QED
  BY <1>1, <1>2

(* ExecInitRule puts every sink on the outputs of the built chain, and     *)
(* every way it fails is an error or a panic.                              *)
LEMMA InitRuleReply ==
    ASSUME NEW rule, NEW f, NEW db, NEW order,
           rule.sql.kind = "select" => rule.sql.streams \in Seq(StreamNames)
    PROVE  ReplyOK(ExecInitRule(rule, f, db, order))
<1> DEFINE tp == CreateTopoWithSources(rule, NoSources, f, db)
           bad == {i \in 1..Len(order) : SinkFault(order[i]) # "none"}
           sinks == [i \in 1..Len(order) |-> [name |-> order[i].name, inputs |-> tp.inputs]]
           t == ExecInitRule(rule, f, db, order)
<1>1. BuildShape(tp)
  BY TopoShape
<1>2. CASE tp.status # "ok"
  <2>1. ErrorShape(tp)
    BY <1>1, <1>2 DEF BuildShape
  <2>2. t = [tp EXCEPT !.op = "start"]
    BY <1>2 DEF ExecInitRule
  <2>3. t.status = "error" /\ "ops" \notin DOMAIN t
    BY <2>1, <2>2 DEF ErrorShape
  <2> QED
    BY <2>3, ErrorReply
<1>3. CASE tp.status = "ok" /\ bad # {}
  <2>1. t.status \in {"error", "panic"} /\ "ops" \notin DOMAIN t
    BY <1>3 DEF ExecInitRule, Err
  <2> QED
    BY <2>1, ErrorReply
<1>4. CASE tp.status = "ok" /\ bad = {}
  <2>1. PICK b, n : /\ n \in Nat
                    /\ ChainUpTo(b, n, Len(Stages))
           /\ tp = [op |-> "build", status |-> "ok", ops |-> b.ops, inputs |-> b.inputs,
                    sinks |-> <<>>]
    BY <1>1, <1>4 DEF BuildShape, ErrorShape
  <2>2. t = [tp EXCEPT !.op = "start", !.sinks = sinks]
    BY <1>4 DEF ExecInitRule
  <2>3. /\ t.status = "ok" /\ "ops" \in DOMAIN t /\ t.ops = b.ops /\ t.inputs = b.inputs
        /\ t.sinks = sinks
    BY <2>1, <2>2
  <2>4. \A s \in DOMAIN t.sinks : t.sinks[s].inputs = t.inputs
    BY <2>1, <2>3
  <2>5. ChainUpTo(t, n, Len(Stages))
    BY <2>1, <2>3, ChainFields
  <2> QED
    BY <2>1, <2>3, <2>4, <2>5, ChainReply DEF ReplyOK
<1> QED
  BY <1>2, <1>3, <1>4

(* ExecQuery's memory sink is on the outputs of the built chain.           *)
LEMMA QueryReply ==
    ASSUME NEW tp, BuildShape(tp)
    PROVE  ReplyOK(IF tp.status # "ok" THEN [tp EXCEPT !.op = "query"]
                   ELSE [tp EXCEPT !.op = "query",
                                   !.sinks = <<[name |-> "memory", inputs |-> tp.inputs]>>])
<1>1. CASE tp.status # "ok"
  <2>1. ErrorShape(tp)
    BY <1>1 DEF BuildShape
  <2>2. [tp EXCEPT !.op = "query"].status = "error"
        /\ "ops" \notin DOMAIN [tp EXCEPT !.op = "query"]
    BY <2>1 DEF ErrorShape
  <2>3. (IF tp.status # "ok" THEN [tp EXCEPT !.op = "query"]
         ELSE [tp EXCEPT !.op = "query",
                         !.sinks = <<[name |-> "memory", inputs |-> tp.inputs]>>])
        = [tp EXCEPT !.op = "query"]
    BY <1>1
  <2> DEFINE e == [tp EXCEPT !.op = "query"]
  <2>4. e.status \in {"error", "panic"} /\ "ops" \notin DOMAIN e
    BY <2>2
  <2>5. ReplyOK(e)
    BY <2>4 DEF ReplyOK, ReplyType, IsChain
  <2> QED
    BY <2>3, <2>5
<1>2. CASE tp.status = "ok"
  <2> DEFINE t == [tp EXCEPT !.op = "query",
                             !.sinks = <<[name |-> "memory", inputs |-> tp.inputs]>>]
  <2>1. PICK b, n : /\ n \in Nat
                    /\ ChainUpTo(b, n, Len(Stages))
                    /\ tp = [op |-> "build", status |-> "ok", ops |-> b.ops, inputs |-> b.inputs,
                             sinks |-> <<>>]
    BY <1>2 DEF BuildShape, ErrorShape
  <2>2. /\ t.status = "ok" /\ "ops" \in DOMAIN t /\ t.ops = b.ops /\ t.inputs = b.inputs
        /\ \A s \in DOMAIN t.sinks : t.sinks[s].inputs = t.inputs
    BY <2>1
  <2>3. ChainUpTo(t, n, Len(Stages))
    <3>1. Len(Stages) \in Nat /\ t.ops = b.ops /\ t.inputs = b.inputs
      BY <2>2 DEF Stages
    <3> HIDE DEF t
    <3> QED
      BY <2>1, <3>1, ChainFields
  <2> QED
    BY <1>2, <2>1, <2>2, <2>3, ChainReply DEF ReplyOK
<1> QED
  BY <1>1, <1>2

-----------------------------------------------------------------------------
(* The three invariants of the safety run hold together, and together they *)
(* are inductive: the store facts carry over a step, and every reply a     *)
(* step can return is proved well formed by the lemmas above.             *)
Inv == TypeOK /\ StoredRulesValid /\ PipelineIsChain

(* The SELECT of a rule that parsed, or of a query, lists its streams.     *)
LEMMA StreamsOf ==
    ASSUME NEW j, (j \in RuleJsons /\ j.json) \/ j \in {[sql |-> q] : q \in Sqls}
    PROVE  j.sql.kind = "select" => j.sql.streams \in Seq(StreamNames)
BY StreamsAssumption DEF StreamsAssumption

LEMMA InitInv == Init => Inv
BY DEF Init, Inv, TypeOK, StoredRulesValid, PipelineIsChain, ReplyType, IsChain

LEMMA NextInv == Inv /\ [Next]_vars => Inv'
<1> SUFFICES ASSUME Inv, [Next]_vars PROVE Inv'
  OBVIOUS
<1>0. /\ DOMAIN ruleDb \subseteq RuleIds /\ \A n \in DOMAIN ruleDb : ruleDb[n] \in RuleJsons
      /\ streamDb \subseteq StreamNames
      /\ StoredRulesValid
  BY DEF Inv, TypeOK
(* A step that leaves both stores alone keeps their part of Inv.           *)
<1>s. UNCHANGED <<streamDb, ruleDb>> /\ ReplyType(reply') => (TypeOK /\ StoredRulesValid)'
  BY <1>0 DEF TypeOK, StoredRulesValid
<1>1. ASSUME NEW stmt \in StreamStmts, NEW o \in BOOLEAN, Exec(stmt, o) PROVE Inv'
  <2>1. streamDb' \subseteq StreamNames
    <3>1. stmt.kind # "unparsable" => stmt.name \in StreamNames
      BY StmtsAssumption DEF StmtsAssumption
    <3> QED
      BY <1>0, <1>1, <3>1 DEF Exec
  <2>2. reply'.status \in {"ok", "error"} /\ "ops" \notin DOMAIN reply'
    BY <1>1 DEF Exec, Err
  <2> QED
    BY <1>0, <1>1, <2>1, <2>2 DEF Exec, Inv, TypeOK, StoredRulesValid, PipelineIsChain,
                                  ReplyType, IsChain
<1>2. ASSUME NEW n \in RuleIds, NEW j \in RuleJsons, NEW o \in BOOLEAN, ExecCreate(n, j, o)
      PROVE  Inv'
  <2>1. reply'.status \in {"ok", "error"} /\ "ops" \notin DOMAIN reply'
    BY <1>2 DEF ExecCreate, Err
  <2>2. CASE GetRuleByJson(n, j) = "none" /\ o
    <3>1. ruleDb' = [x \in {n} \cup DOMAIN ruleDb |-> IF x = n THEN j ELSE ruleDb[x]]
      BY <1>2, <2>2 DEF ExecCreate
    <3>2. DOMAIN ruleDb' \subseteq RuleIds /\ \A x \in DOMAIN ruleDb' : ruleDb'[x] \in RuleJsons
      BY <1>0, <3>1
    <3>3. StoredRulesValid'
      BY <1>0, <2>2, <3>1 DEF StoredRulesValid
    <3> QED
      BY <1>0, <1>2, <2>1, <3>2, <3>3 DEF ExecCreate, Inv, TypeOK, PipelineIsChain,
                                         ReplyType, IsChain
  <2>3. CASE ~(GetRuleByJson(n, j) = "none" /\ o)
    <3>1. ruleDb' = ruleDb
      BY <1>2, <2>3 DEF ExecCreate
    <3> QED
      BY <1>0, <1>2, <2>1, <3>1 DEF ExecCreate, Inv, TypeOK, StoredRulesValid,
                                    PipelineIsChain, ReplyType, IsChain
  <2> QED
    BY <2>2, <2>3
<1>3. ASSUME NEW n \in RuleIds, NEW o \in BOOLEAN, ExecDesc(n, o) PROVE Inv'
  <2>1. reply'.status \in {"ok", "error"} /\ "ops" \notin DOMAIN reply'
    BY <1>3 DEF ExecDesc, Err
  <2> QED
    BY <1>3, <1>s, <2>1 DEF ExecDesc, Inv, PipelineIsChain, ReplyType, IsChain
<1>4. ASSUME NEW n \in RuleIds, NEW o \in BOOLEAN, ExecDrop(n, o) PROVE Inv'
  <2>1. reply'.status \in {"ok", "error"} /\ "ops" \notin DOMAIN reply'
    BY <1>4 DEF ExecDrop, Err
  <2>2. /\ DOMAIN ruleDb' \subseteq DOMAIN ruleDb
        /\ \A x \in DOMAIN ruleDb' : ruleDb'[x] = ruleDb[x]
    BY <1>4 DEF ExecDrop
  <2>3. StoredRulesValid'
    BY <1>0, <2>2 DEF StoredRulesValid
  <2> QED
    BY <1>0, <1>4, <2>1, <2>2, <2>3 DEF ExecDrop, Inv, TypeOK, PipelineIsChain,
                                        ReplyType, IsChain
<1>5. ASSUME NEW o \in BOOLEAN, ExecShow(o) PROVE Inv'
  <2>1. reply'.status \in {"ok", "error"} /\ "ops" \notin DOMAIN reply'
    BY <1>5 DEF ExecShow, Err
  <2> QED
    BY <1>5, <1>s, <2>1 DEF ExecShow, Inv, PipelineIsChain, ReplyType, IsChain
<1>6. ASSUME NEW n \in RuleIds, NEW o \in BOOLEAN, NEW f \in Failures, StartRule(n, o, f)
      PROVE  Inv'
  <2>1. ReplyOK(reply')
    <3>1. CASE GetRuleByName(n, o) # "none"
      <4>1. reply'.status = "error" /\ "ops" \notin DOMAIN reply'
        BY <1>6, <3>1 DEF StartRule, Err
      <4> QED
        BY <4>1, ErrorReply
    <3>2. CASE GetRuleByName(n, o) = "none"
      <4>1. n \in DOMAIN ruleDb /\ ruleDb[n] \in RuleJsons /\ ruleDb[n].json
        BY <1>0, <1>6, <3>2 DEF StartRule, GetRuleByName, GetRuleByJson
      <4>2. ruleDb[n].sql.kind = "select" => ruleDb[n].sql.streams \in Seq(StreamNames)
        BY <4>1, StreamsOf
      <4>3. PICK ord : reply' = ExecInitRule(ruleDb[n], f, streamDb, ord)
        BY <1>6, <3>2 DEF StartRule
      <4> QED
        BY <4>2, <4>3, InitRuleReply
    <3> QED
      BY <3>1, <3>2
  <2> QED
    BY <1>6, <1>s, <2>1 DEF StartRule, Inv, ReplyOK, PipelineIsChain
<1>7. ASSUME NEW sql \in Sqls, NEW f \in Failures, ExecQuery(sql, f) PROVE Inv'
  <2>1. sql.kind = "select" => sql.streams \in Seq(StreamNames)
    <3>1. [sql |-> sql].sql = sql
      OBVIOUS
    <3> QED
      BY <3>1, StreamsOf
  <2>2. ReplyOK(reply')
    <3>1. BuildShape(CreateTopoWithSources([sql |-> sql, isEventTime |-> Absent,
                                            lateTolerance |-> Absent], NoSources, f, streamDb))
      BY <2>1, TopoShape
    <3> QED
      BY <1>7, <3>1, QueryReply DEF ExecQuery
  <2> QED
    BY <1>7, <1>s, <2>2 DEF ExecQuery, Inv, ReplyOK, PipelineIsChain
<1>8. ASSUME NEW j \in RuleJsons, NEW sa \in SourcesArgs, NEW f \in Failures,
             BuildWithSources(j, sa, f)
      PROVE  Inv'
  <2>1. j.sql.kind = "select" => j.sql.streams \in Seq(StreamNames)
    BY <1>8, StreamsOf DEF BuildWithSources
  <2>2. ReplyOK(reply')
    BY <1>8, <2>1, TopoShape, BuildReply DEF BuildWithSources
  <2> QED
    BY <1>8, <1>s, <2>2 DEF BuildWithSources, Inv, ReplyOK, PipelineIsChain
<1>9. CASE UNCHANGED vars
  BY <1>9 DEF vars, Inv, TypeOK, StoredRulesValid, PipelineIsChain
<1> QED
  BY <1>1, <1>2, <1>3, <1>4, <1>5, <1>6, <1>7, <1>8, <1>9 DEF Next

LEMMA Invariant == Spec => []Inv
BY InitInv, NextInv, PTL DEF Spec

(* Every reply of the rule processor is well typed, and the stores hold    *)
(* stream names and rule texts of the ids they were created under.         *)
THEOREM TypeCorrect == Spec => []TypeOK
<1>1. Inv => TypeOK
  BY DEF Inv
<1> QED
  BY Invariant, <1>1, PTL

(* ExecCreate validates a rule before DbSet stores it, and nothing else    *)
(* adds to the rule store, so every stored rule passes getRuleByJson.      *)
THEOREM StoredRulesValidCorrect == Spec => []StoredRulesValid
<1>1. Inv => StoredRulesValid
  BY DEF Inv
<1> QED
  BY Invariant, <1>1, PTL

(* Every topology createTopoWithSources builds, with the sinks ExecInitRule *)
(* or ExecQuery puts on it, is the chain of spec 2, for any SELECT with any *)
(* number of streams.                                                       *)
THEOREM PipelineIsChainCorrect == Spec => []PipelineIsChain
<1>1. Inv => PipelineIsChain
  BY DEF Inv
<1> QED
  BY Invariant, <1>1, PTL

=============================================================================
