------------------------- MODULE MCGithubIngestion -------------------------
(* Small instances of GithubIngestion. *)
EXTENDS GithubIngestion

OneTask == {1}
TwoTasks == {1, 2}
ThreeRevisions == {"a", "b", "c"}
TwoRevisions == {"a", "b"}
MCBranches == {"x", "y"}
MCHeadBranch == [n \in Tasks |-> "x"]
MCExecutions == Tasks \X Revisions

(* Equal, absent and descending committer dates in pull requests that only *)
(* grow; everything users do, with and without what revives the past.      *)
Clocks == [moves |-> {"push", "close", "merge"}, dates |-> {0, 1, 2}, steps |-> 4]
AllMoves == {"push", "force_push", "reset", "absorb", "close", "merge", "reopen"}
Tied(moves, steps) == [moves |-> moves, dates |-> {1}, steps |-> steps]
Histories ==
  {Clocks, Tied(AllMoves \ {"reopen", "reset"}, 5), Tied(AllMoves \ {"reset"}, 5),
   Tied(AllMoves, 4)}
CiHistories == {Tied({"push"}, 5), Tied({"export", "close"}, 4)}

(* One disagreement each. *)
AbsorbedHistory == {[moves |-> {"push", "absorb"}, dates |-> {0, 1, 2}, steps |-> 4]}
SkewedHistory == {[moves |-> {"push", "merge"}, dates |-> {1, 2}, steps |-> 3]}
LateUsageHistory == {Tied({"export"}, 4)}

NoEvidence == {}

(* Two attempts of a run GitHub links to the second pull request; the      *)
(* operator has a usage record of the second.                              *)
MCRuns ==
  {[id |-> 7, attempt |-> a, job |-> 70 + a, sha |-> "a", branch |-> "x", links |-> Tasks \ {1}] :
     a \in {1, 2}}
MCUsage == {r \in Runs : r.attempt = 2}
MCChecks == {[id |-> 9, sha |-> "b"]}

MCRefs ==
  {PrRef(n) : n \in Tasks} \cup {CiRef(r) : r \in Runs} \cup {ComputeRef(r) : r \in Runs}
    \cup {ValidationRef(c) : c \in Checks}
=============================================================================
