--------------------------- MODULE MCTenantInput ---------------------------
(* A small instance of TenantInput: costs are distinct powers of two, one  *)
(* of them an estimate, one beside a component without billing evidence.   *)
EXTENDS TenantInput

MCTimes == {1, 2}

(* One task in depth; two records that may share a task id. *)
MCScopes ==
  {[tasks |-> {1}, executions |-> 3, exports |-> 7],
   [tasks |-> {1, 2}, executions |-> 2, exports |-> 5]}

(* Three attempts of one task, two of them retries; two that retry one     *)
(* another.                                                                *)
DisagreeingScopes == {[tasks |-> {1}, executions |-> 3, exports |-> 8]}
OneTime == {1}

MCComponents ==
  <<[ci |-> Measured(1), compute |-> Unavailable],
    [ci |-> Measured(2)],
    [inference |-> [basis |-> "estimated", amount |-> 4]]>>
=============================================================================
