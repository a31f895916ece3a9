----------------------------- MODULE MCGroupKey -----------------------------
(* Instance of GroupKey: the integer 1, the strings "1", "a" and "a,".     *)
EXTENDS GroupKey

MCValues ==
    { [kind |-> "int", text |-> <<"1">>],
      [kind |-> "string", text |-> <<"1">>],
      [kind |-> "string", text |-> <<"a">>],
      [kind |-> "string", text |-> <<"a", ",">>] }
=============================================================================
