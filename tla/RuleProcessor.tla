--------------------------- MODULE RuleProcessor ---------------------------
(***************************************************************************)
(* The stream and rule processors of xsql/processors/xsql_processor.go:   *)
(* the definitions kept in the "stream" and "rule" stores, and the build   *)
(* of a rule's topology (createTopoWithSources, ExecInitRule, ExecQuery).  *)
(*                                                                         *)
(* A statement or a rule is a model of what the parser and json.Unmarshal *)
(* return for it: a SELECT is its FROM streams and the set of clauses it   *)
(* has.  The code that is not under src/ (DbOpen, NewPreprocessor,         *)
(* NewMQTTSource, NewWindowOp) is a choice of where a build fails, or     *)
(* whether a store opens.  Each processor call is one step: every call    *)
(* opens the store, works on it and closes it before it returns.           *)
(***************************************************************************)
EXTENDS Naturals, Sequences, SequencesExt

CONSTANTS
    Absent,       \* a key missing from a map
    RuleIds,      \* names a rule can be created under ("" included)
    StreamNames,  \* names of streams
    Sqls,         \* SQL texts, as the parser reads them
    RuleJsons,    \* rule JSON texts, as json.Unmarshal reads them
    StreamStmts   \* statements given to StreamProcessor.Exec

VARIABLES
    streamDb,     \* the names the "stream" store holds a definition for
    ruleDb,       \* the "rule" store: rule id -> the JSON it was created with
    reply         \* what the last call returned

vars == <<streamDb, ruleDb, reply>>

(* The parser returns the FROM list of a SELECT as a list of stream names. *)
StreamsAssumption ==
    \A s \in Sqls \cup {j.sql : j \in {r \in RuleJsons : r.json}} :
       s.kind = "select" => s.streams \in Seq(StreamNames)
ASSUME StreamsAssumption

(* A stream statement that parsed names a stream.                          *)
StmtsAssumption ==
    \A s \in StreamStmts : s.kind # "unparsable" => s.name \in StreamNames
ASSUME StmtsAssumption

-----------------------------------------------------------------------------
Str(s) == [type |-> "string", val |-> s]
Bool(b) == [type |-> "bool", val |-> b]
IntV(n) == [type |-> "int", val |-> n]
Float(n) == [type |-> "float64", val |-> n]

AsString(x) == IF x.type = "string" THEN x.val ELSE ""

Err(op, reason) == [op |-> op, status |-> "error", reason |-> reason]

(* The clauses of a SELECT that decide its operators.                      *)
Clauses == {"window", "joins", "condition", "groups", "having", "sort", "fields"}

(* The operators createTopoWithSources may add after the preprocessors, in *)
(* the order it adds them.                                                  *)
Stages == <<"window", "join", "filter", "aggregate", "having", "order", "project">>

(* Where a build fails in code not under src/, if it does.                 *)
Failures ==
    [at : {"none", "db", "window"}] \cup [at : {"preprocessor", "source"}, i : {1, 2}]

(* The sources argument: nil (ExecInitRule, ExecQuery) or a list of n.    *)
NoSources == [given |-> FALSE]
SourcesArgs == {NoSources} \cup [given : {TRUE}, n : 0..2]

-----------------------------------------------------------------------------
(* getRuleByJson: unmarshal, then the id, SQL and actions checks.         *)
GetRuleByJson(name, j) ==
    IF ~j.json THEN "json"
    ELSE IF name = "" THEN "id"
    ELSE IF j.sql.kind = "empty" THEN "sql"
    ELSE IF j.actions = <<>> THEN "actions"
    ELSE "none"

(* The operator a stage of the SELECT calls for: a join only after a window. *)
Wants(sel, k) ==
    CASE k = "window"    -> "window" \in sel.has
      [] k = "join"      -> {"window", "joins"} \subseteq sel.has
      [] k = "filter"    -> "condition" \in sel.has
      [] k = "aggregate" -> "groups" \in sel.has
      [] k = "having"    -> "having" \in sel.has
      [] k = "order"     -> "sort" \in sel.has
      [] k = "project"   -> "fields" \in sel.has

(* Mutant of Stage: the operator is added but inputs is not moved on to it. *)
StageKeepInputs(b, k) ==
    [ops |-> Append(b.ops, [id |-> <<k, 0>>, inputs |-> b.inputs]), inputs |-> b.inputs]

(* tp.AddOperator(inputs, op); inputs = []api.Emitter{op}                   *)
Stage(b, k) ==
    [ops |-> Append(b.ops, [id |-> <<k, 0>>, inputs |-> b.inputs]), inputs |-> {<<k, 0>>}]

(* Mutant of Preprocessors: Go's 0-based index of the stream names the    *)
(* source, so stream i is wired to the source before it.                  *)
PreprocessorsOffByOne(n) ==
    [ops |-> [i \in 1..n |-> [id |-> <<"preprocessor", i>>, inputs |-> {<<"source", i - 1>>}]],
     inputs |-> {<<"preprocessor", i>> : i \in 1..n}]

(* For every stream s of the statement: a source node, and a preprocessor  *)
(* fed by it; inputs collects the preprocessors.                          *)
Preprocessors(n) ==
    [ops |-> [i \in 1..n |-> [id |-> <<"preprocessor", i>>, inputs |-> {<<"source", i>>}]],
     inputs |-> {<<"preprocessor", i>> : i \in 1..n}]

(* One of the seven ifs after the preprocessors: the operator k is added  *)
(* when the SELECT calls for it.                                           *)
Step(sel, b, k) == IF Wants(sel, k) THEN Stage(b, k) ELSE b

(* The preprocessors of n streams, then the seven ifs in the code's order. *)
Operators(sel, n) ==
    Step(sel, Step(sel, Step(sel, Step(sel, Step(sel, Step(sel, Step(sel,
        Preprocessors(n), "window"), "join"), "filter"), "aggregate"), "having"),
        "order"), "project")

(* The first stream of the FROM list that stops the build, and why.        *)
StreamFault(ss, srcs, f, db, i) ==
    IF ss[i] \notin db THEN "stream"
    ELSE IF f.at = "preprocessor" /\ f.i = i THEN "preprocessor"
    ELSE IF ~srcs.given /\ f.at = "source" /\ f.i = i THEN "source"
    ELSE "none"

(* createTopoWithSources(rule, sources), against the stream store db.     *)
CreateTopoWithSources(rule, srcs, f, db) ==
    LET sel == rule.sql
        ss == sel.streams
        bad == {i \in 1..Len(ss) : StreamFault(ss, srcs, f, db, i) # "none"}
    IN  IF rule.isEventTime # Absent /\ rule.isEventTime.type # "bool"
        THEN Err("build", "isEventTime")
        ELSE IF /\ rule.isEventTime = Bool(TRUE)
                /\ rule.lateTolerance # Absent /\ rule.lateTolerance.type # "float64"
        THEN Err("build", "lateTolerance")
        ELSE IF sel.kind \in {"empty", "unparsable"} THEN Err("build", "parse")
        ELSE IF sel.kind # "select" THEN Err("build", "notselect")
        ELSE IF srcs.given /\ srcs.n # Len(ss) THEN Err("build", "sources")
        ELSE IF f.at = "db" THEN Err("build", "db")
        ELSE IF bad # {} THEN Err("build", StreamFault(ss, srcs, f, db, Min(bad)))
        ELSE IF f.at = "window" /\ Wants(sel, "window") THEN Err("build", "window")
        ELSE LET b == Operators(sel, Len(ss))
             IN  [op |-> "build", status |-> "ok", ops |-> b.ops, inputs |-> b.inputs,
                  sinks |-> <<>>]

(* sinks.NewMqttSink: the map and key checks, the protocol version, then   *)
(* the unchecked assertions srv.(string), tpc.(string), clientid.(string). *)
(* Username, password and the paths are only stored.                       *)
NewMqttSink(ps) ==
    IF ~ps.isMap THEN "props"
    ELSE IF ps.server = Absent THEN "server"
    ELSE IF ps.topic = Absent THEN "topic"
    ELSE IF ps.protocol_version # Absent /\
            AsString(ps.protocol_version) \notin {"3.1", "3.1.1"} THEN "version"
    ELSE IF \/ ps.server.type # "string"
            \/ ps.topic.type # "string"
            \/ ps.clientId # Absent /\ ps.clientId.type # "string"
         THEN "panic"
    ELSE "none"

(* The switch on an action's name in ExecInitRule.                         *)
SinkFault(a) ==
    CASE a.name = "log"  -> "none"
      [] a.name = "mqtt" -> NewMqttSink(a.props)
      [] OTHER           -> "unsupported"

(* The orders ExecInitRule can meet the actions in: the list in order, the *)
(* keys of each map in Go's random map order.                              *)
ActionOrders(actions) ==
    LET keyOrders == UNION {SetToSeqs(DOMAIN m) : m \in ToSet(actions)}
    IN  {FlattenSeq([i \in 1..Len(actions) |->
                       [n \in 1..Len(o[i]) |-> [name |-> o[i][n], props |-> actions[i][o[i][n]]]]])
           : o \in {o \in [1..Len(actions) -> keyOrders] :
                       \A i \in 1..Len(actions) : o[i] \in SetToSeqs(DOMAIN actions[i])}}

(* ExecInitRule: the topology, then one sink per action on its inputs; the *)
(* first failing action returns its error (or panics), and tp is dropped.  *)
ExecInitRule(rule, f, db, order) ==
    LET tp == CreateTopoWithSources(rule, NoSources, f, db)
        bad == {i \in 1..Len(order) : SinkFault(order[i]) # "none"}
        first == SinkFault(order[Min(bad)])
    IN  IF tp.status # "ok" THEN [tp EXCEPT !.op = "start"]
        ELSE IF bad # {} /\ first = "panic" THEN [op |-> "start", status |-> "panic"]
        ELSE IF bad # {} THEN Err("start", first)
        ELSE [tp EXCEPT !.op = "start",
                        !.sinks = [i \in 1..Len(order) |->
                                     [name |-> order[i].name, inputs |-> tp.inputs]]]

-----------------------------------------------------------------------------
(* StreamProcessor.Exec: parse the statement, open the store, then the    *)
(* case of its type.  Only a CREATE STREAM that parsed stores a text, so   *)
(* what the store holds always parses back as a stream (GetStream,         *)
(* execDescribeStream).  A statement of another type returns nothing.     *)
Exec(stmt, opened) ==
    /\ reply' = CASE stmt.kind = "unparsable" -> Err("exec", "parse")
                  [] ~opened -> Err("exec", "db")
                  [] stmt.kind \in {"describe", "explain"} /\ stmt.name \notin streamDb
                               -> Err("exec", "notfound")
                  [] OTHER -> [op |-> "exec", status |-> "ok"]
    /\ streamDb' = CASE stmt.kind = "unparsable" \/ ~opened -> streamDb
                     [] stmt.kind = "create" -> streamDb \cup {stmt.name}
                     [] stmt.kind = "drop"   -> streamDb \ {stmt.name}
                     [] OTHER -> streamDb
    /\ UNCHANGED ruleDb

(* Mutant of ExecCreate: the rule is stored before it is validated.       *)
ExecCreateUnchecked(name, j, opened) ==
    /\ opened
    /\ ruleDb' = (name :> j) @@ ruleDb
    /\ reply' = [op |-> "create", status |-> "ok"]
    /\ UNCHANGED streamDb

(* RuleProcessor.ExecCreate: getRuleByJson, open the store, DbSet (which  *)
(* overwrites a rule of the same name).                                    *)
ExecCreate(name, j, opened) ==
    /\ reply' = CASE GetRuleByJson(name, j) # "none" -> Err("create", GetRuleByJson(name, j))
                  [] ~opened -> Err("create", "db")
                  [] OTHER -> [op |-> "create", status |-> "ok"]
    /\ ruleDb' = IF GetRuleByJson(name, j) = "none" /\ opened
                 THEN [n \in DOMAIN ruleDb \cup {name} |-> IF n = name THEN j ELSE ruleDb[n]]
                 ELSE ruleDb
    /\ UNCHANGED streamDb

(* RuleProcessor.ExecDesc: a rule that is not stored is not found; the     *)
(* stored text was accepted by json.Unmarshal, so json.Indent succeeds.    *)
ExecDesc(name, opened) ==
    /\ reply' = CASE ~opened -> Err("desc", "db")
                  [] name \notin DOMAIN ruleDb -> Err("desc", "notfound")
                  [] OTHER -> [op |-> "desc", status |-> "ok"]
    /\ UNCHANGED <<streamDb, ruleDb>>

(* RuleProcessor.ExecShow through GetAllRules: the ids, or a message when *)
(* there are none.                                                         *)
ExecShow(opened) ==
    /\ reply' = IF opened THEN [op |-> "show", status |-> "ok", ids |-> DOMAIN ruleDb]
                 ELSE Err("show", "db")
    /\ UNCHANGED <<streamDb, ruleDb>>

(* RuleProcessor.ExecDrop: DbDelete.                                       *)
ExecDrop(name, opened) ==
    /\ reply' = IF opened THEN [op |-> "drop", status |-> "ok"] ELSE Err("drop", "db")
    /\ ruleDb' = IF opened THEN [n \in DOMAIN ruleDb \ {name} |-> ruleDb[n]] ELSE ruleDb
    /\ UNCHANGED streamDb

(* GetRuleByName: open the store, DbGet, then getRuleByJson on the text.   *)
GetRuleByName(name, opened) ==
    IF ~opened THEN "db"
    ELSE IF name \notin DOMAIN ruleDb THEN "notfound"
    ELSE GetRuleByJson(name, ruleDb[name])

(* StartUp starts every stored rule: GetRuleByName, then ExecInitRule.     *)
StartRule(name, opened, f) ==
    /\ name \in DOMAIN ruleDb
    /\ reply' \in
          IF GetRuleByName(name, opened) # "none"
          THEN {Err("start", GetRuleByName(name, opened))}
          ELSE {ExecInitRule(ruleDb[name], f, streamDb, o) : o \in ActionOrders(ruleDb[name].actions)}
    /\ UNCHANGED <<streamDb, ruleDb>>

(* ExecQuery(ruleid, sql): a rule with no options and no actions, and a    *)
(* memory log sink on the topology's outputs.                              *)
ExecQuery(sql, f) ==
    /\ reply' = LET tp == CreateTopoWithSources([sql |-> sql, isEventTime |-> Absent,
                                                 lateTolerance |-> Absent],
                                                NoSources, f, streamDb)
                IN  IF tp.status # "ok" THEN [tp EXCEPT !.op = "query"]
                    ELSE [tp EXCEPT !.op = "query",
                                    !.sinks = <<[name |-> "memory", inputs |-> tp.inputs]>>]
    /\ UNCHANGED <<streamDb, ruleDb>>

(* createTopoWithSources called with mock sources, as the tests call it.  *)
BuildWithSources(j, srcs, f) ==
    /\ j.json
    /\ reply' = CreateTopoWithSources(j, srcs, f, streamDb)
    /\ UNCHANGED <<streamDb, ruleDb>>

Init ==
    /\ streamDb = {}
    /\ ruleDb = [n \in {} |-> Absent]
    /\ reply = [op |-> "none", status |-> "ok"]

Next ==
    \/ \E stmt \in StreamStmts, o \in BOOLEAN : Exec(stmt, o)
    \/ \E n \in RuleIds, j \in RuleJsons, o \in BOOLEAN : ExecCreate(n, j, o)
    \/ \E n \in RuleIds, o \in BOOLEAN : ExecDesc(n, o) \/ ExecDrop(n, o)
    \/ \E o \in BOOLEAN : ExecShow(o)
    \/ \E n \in RuleIds, o \in BOOLEAN, f \in Failures : StartRule(n, o, f)
    \/ \E sql \in Sqls, f \in Failures : ExecQuery(sql, f)
    \/ \E j \in RuleJsons, s \in SourcesArgs, f \in Failures : BuildWithSources(j, s, f)

Spec == Init /\ [][Next]_vars

-----------------------------------------------------------------------------
(* Sources and preprocessors are numbered from 1 by the stream they read. *)
NodeIds == ({"source", "preprocessor"} \X (Nat \ {0})) \cup {<<k, 0>> : k \in ToSet(Stages)}

(* The position of operator k in the order createTopoWithSources adds them. *)
StageRank(k) == CHOOSE r \in 1..Len(Stages) : Stages[r] = k

(* A reply r has a status, and the operators and outputs of a topology,   *)
(* when it carries one, are nodes of the topology.                        *)
ReplyType(r) ==
    /\ r.status \in {"ok", "error", "panic"}
    /\ "ops" \in DOMAIN r =>
          /\ r.ops \in Seq([id : NodeIds, inputs : SUBSET NodeIds])
          /\ r.inputs \subseteq NodeIds

TypeOK ==
    /\ streamDb \subseteq StreamNames
    /\ DOMAIN ruleDb \subseteq RuleIds /\ \A n \in DOMAIN ruleDb : ruleDb[n] \in RuleJsons
    /\ ReplyType(reply)

(* Every rule in the rule store is one getRuleByJson accepts under its id, *)
(* so GetRuleByName, and the start of every stored rule at StartUp, never  *)
(* meet a stored rule that is rejected as invalid.                         *)
StoredRulesValid ==
    \A n \in DOMAIN ruleDb : GetRuleByJson(n, ruleDb[n]) = "none"

(* The topology of a successful reply r is one chain: each preprocessor is *)
(* fed by its own source; the operators come in the order window, join,   *)
(* filter, aggregate, having, order, project (spec 2), the first fed by   *)
(* every preprocessor and each later one by the one before it; every sink *)
(* is fed by the last node of the chain.                                   *)
IsChain(r) ==
    r.status = "ok" /\ "ops" \in DOMAIN r =>
       LET ops == r.ops
           pre == {i \in 1..Len(ops) : ops[i].id[1] = "preprocessor"}
           np == Cardinality(pre)
           last == IF Len(ops) = np THEN {ops[i].id : i \in pre} ELSE {ops[Len(ops)].id}
       IN  /\ pre = 1..np
           /\ \A i \in pre : ops[i] = [id |-> <<"preprocessor", i>>, inputs |-> {<<"source", i>>}]
           /\ \A i \in np + 1..Len(ops) :
                 /\ ops[i].inputs = IF i = np + 1 THEN {ops[p].id : p \in pre}
                                    ELSE {ops[i - 1].id}
                 /\ i > np + 1 => StageRank(ops[i - 1].id[1]) < StageRank(ops[i].id[1])
           /\ \A s \in DOMAIN r.sinks : r.sinks[s].inputs = last

(* Every topology that createTopoWithSources, ExecInitRule or ExecQuery    *)
(* returns is such a chain.                                                *)
PipelineIsChain == IsChain(reply)

(* Starting a rule that ExecCreate accepted never crashes the process: a  *)
(* bad sink configuration is reported as an error (spec 6: validation      *)
(* errors are rejected and surfaced to the caller).                        *)
StartNeverPanics ==
    reply.status # "panic"

=============================================================================
