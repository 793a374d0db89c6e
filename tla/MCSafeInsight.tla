---------------------------- MODULE MCSafeInsight ----------------------------
(* A small instance of SafeInsight: policies scaled down, with the floor   *)
(* below, and at, the ceiling.                                             *)
EXTENDS SafeInsight

MCTasks == {1, 2}
MCExecutions == {"e1"}
MCRefs == {"p1", "c1", "c2", "t1", "h1"}
MCLabels == {"timeout"}

Policy(cohort, rows, epsilon, licence) ==
  [minimumCohort |-> cohort, maximumRowsPerCombination |-> rows,
   maximumEpsilon |-> epsilon, requiresLicenseAcknowledgement |-> licence]
MCPolicies == [benchmark |-> Policy(2, 3, 2, FALSE), research |-> Policy(3, 3, 1, TRUE)]
MCForbidden == {"tenant_id"}
MCFamily == [runner |-> "ci_bot", in_house |-> "custom"]

(* Some draw from -3 to 1 for each seed, set of cohorts and epsilon: the   *)
(* least takes a cohort at the threshold below 0.                          *)
MCNoise(seed, cohorts, epsilon) ==
  ((seed + epsilon * Cardinality(cohorts)
     + MapThenSumSet(LAMBDA c : Cardinality({f \in {"cost_bucket", "agent_family", "outcome"} :
                                               c[f] \in {"unknown", "ci_bot", "pr_merged"}}),
                     cohorts)) % 5) - 3

Plain(purpose) ==
  [purpose |-> purpose, licensed |-> purpose = "research", threshold |-> None, cap |-> None,
   aggregate |-> FALSE, private |-> FALSE, epsilon |-> None, seed |-> None]
Private(epsilon, seed) ==
  [Plain("benchmark") EXCEPT !.aggregate = TRUE, !.private = TRUE, !.epsilon = epsilon,
                             !.seed = seed]
MCRequests ==
  {[Plain("benchmark") EXCEPT !.threshold = k, !.cap = cap] :
     k \in {None, 1, 3}, cap \in {None, 1, 4}}
  \cup {[Plain("research") EXCEPT !.threshold = k, !.cap = cap] :
          k \in {None, 2}, cap \in {None, 4}}
  \cup {[Plain(p) EXCEPT !.aggregate = TRUE] : p \in {"benchmark", "research"}}
  \cup {[Plain("research") EXCEPT !.licensed = FALSE], [Plain("benchmark") EXCEPT !.seed = 1],
        [Private(None, 1) EXCEPT !.aggregate = FALSE]}
  \cup {Private(epsilon, seed) : epsilon \in {None, 1, 4}, seed \in {None, 0, 1}}

(* The class and the language of a task, which every input must have. *)
Semantics(language) == [task_class |-> Enum("bug_fix"), language_family |-> Enum(language)]
MCHints ==
  {<<>>, Semantics("go"), Semantics("cobol"), Semantics("go") @@ [agent_name |-> Text("runner")],
   Semantics("go") @@ [tenant_id |-> Text("runner")]}

(* Two inputs of one combination, three of others, four that are rejected  *)
(* and one whose bad text another key hides.                               *)
Merged(input) == input @@ Semantics("go") @@ [outcome |-> Enum("pr_merged")]
MCInputs ==
  {Merged([cost_usd |-> Number(5)]), Merged([cost_bucket |-> Enum("under_1"), cost_usd |-> Number(-1)]),
   Merged([cost_usd |-> Number(10), agent_name |-> Text("runner")]),
   Semantics("go") @@ [cost_usd |-> Number(5)], Merged([colour |-> Text("red")]),
   Merged([agent_name |-> Text("https://")]),
   Merged([cost_usd |-> Number(5), agent_family |-> Enum("custom"), agent_name |-> Text("https://")])}

MCEvidence ==
  {Signal(1, "pull_request_merged", "p1"), Signal(1, "revert_detected", "p1"),
   [Spent(1, "ci_run_recorded", None, "c1", 9) EXCEPT !.status = "passed"],
   [Spent(1, "ci_run_recorded", "e1", "c2", 1) EXCEPT !.status = "cancelled"],
   [Spent(1, "tool_invocation_recorded", "e1", "t1", None) EXCEPT !.status = "ok"],
   Spent(2, "human_intervention_recorded", None, "h1", 0), Started(1, "e1"),
   Blank(1, "retry_recorded"), Blank(2, "task_aborted")}

MCScenarios ==
  {[evidence |-> {}, inputs |-> MCInputs, events |-> 0, observations |-> 4],
   [evidence |-> {}, inputs |-> {Merged([cost_usd |-> Number(5)]), Merged([cost_usd |-> Number(10)])},
    events |-> 0, observations |-> 7],
   [evidence |-> MCEvidence, inputs |-> {}, events |-> 4, observations |-> 0],
   [evidence |-> {ev \in MCEvidence : ev.task = 2}, inputs |-> {}, events |-> 2,
    observations |-> 3]}
=============================================================================
