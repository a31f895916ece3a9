CONSTANTS
    Absent = Absent
    RuleIds <- MCRuleIds
    StreamNames <- MCStreamNames
    Sqls <- MCSqls
    RuleJsons <- MCRuleJsons
    StreamStmts <- MCStreamStmts
SPECIFICATION Spec
INVARIANTS
    StartNeverPanics
