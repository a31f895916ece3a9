-------------------------- MODULE MCRuleProcessor --------------------------
(* The rule processor with two streams, one rule id besides "", every      *)
(* combination of clauses of a one-stream SELECT, and rules that reach     *)
(* every check of getRuleByJson, createTopoWithSources and ExecInitRule.  *)
EXTENDS RuleProcessor

MCStreamNames == {"s1", "s2"}
MCRuleIds == {"", "r1"}

Select(ss, has) == [kind |-> "select", streams |-> ss, has |-> has]

MCSqls ==
    {Select(<<"s1">>, h) : h \in SUBSET Clauses}
    \cup {Select(<<"s1", "s2">>, h) :
            h \in {{"window", "joins", "fields"}, {"joins", "fields"}, {"fields"}}}
    \cup {[kind |-> k] : k \in {"empty", "unparsable", "notselect"}}

GoodMqtt == [isMap |-> TRUE, server |-> Str("u"), topic |-> Str("t"),
             clientId |-> Absent, protocol_version |-> Absent]

MqttVariants ==
    {GoodMqtt, [GoodMqtt EXCEPT !.server = IntV(1)], [GoodMqtt EXCEPT !.topic = Absent],
     [GoodMqtt EXCEPT !.protocol_version = Str("5")], [GoodMqtt EXCEPT !.isMap = FALSE],
     [GoodMqtt EXCEPT !.protocol_version = Str("3.1.1"), !.clientId = IntV(1)]}

Rule(sql, actions, iet, late) ==
    [json |-> TRUE, sql |-> sql, actions |-> actions, isEventTime |-> iet, lateTolerance |-> late]

Base == Select(<<"s1", "s2">>, {"window", "joins", "fields"})
LogAction == <<"log" :> GoodMqtt>>

MCRuleJsons ==
    {[json |-> FALSE],
     Rule([kind |-> "empty"], LogAction, Absent, Absent),
     Rule(Base, <<>>, Absent, Absent),
     Rule(Base, LogAction, Str("x"), Absent),
     Rule(Base, LogAction, Bool(TRUE), Str("x")),
     Rule(Base, LogAction, Bool(TRUE), Float(1)),
     Rule(Base, LogAction, Bool(FALSE), Str("x")),
     Rule(Select(<<"s1">>, {"condition", "fields"}), LogAction, Absent, Absent),
     Rule(Base, <<("mqtt" :> GoodMqtt) @@ ("memory" :> GoodMqtt)>>, Absent, Absent),
     Rule(Base, <<("mqtt" :> [GoodMqtt EXCEPT !.server = IntV(1)]) @@ ("memory" :> GoodMqtt)>>,
          Absent, Absent),
     Rule(Base, <<"log" :> GoodMqtt, "mqtt" :> GoodMqtt>>, Absent, Absent)}
    \cup {Rule(Base, <<"mqtt" :> p>>, Absent, Absent) : p \in MqttVariants}

MCStreamStmts ==
    [kind : {"unparsable", "create", "show", "describe", "explain", "drop", "other"},
     name : MCStreamNames]

=============================================================================
