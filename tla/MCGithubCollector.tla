-------------------------- MODULE MCGithubCollector --------------------------
(* A small instance of GithubCollector: pages of one entry, so that every  *)
(* second entry is on another page.                                        *)
EXTENDS GithubCollector

TwoTasks == {1, 2}
TwoRevisions == {"a", "b"}
MCBranches == {"x"}
MCHeadBranch == [n \in Tasks |-> "x"]
MCExecutions == Tasks \X Revisions

(* Two attempts of a run linked to the first pull request, a run linked to *)
(* the second, and one that no link and no branch binds.                   *)
Attempt(id, attempt, sha, links) ==
  [id |-> id, attempt |-> attempt, job |-> 10 * id + attempt, sha |-> sha,
   branch |-> "x", links |-> links]
MCRuns ==
  {Attempt(1, 1, "a", {1}), Attempt(1, 2, "a", {1}), Attempt(2, 1, "b", {2}),
   Attempt(3, 1, "b", {})}
MCUsage == {r \in Runs : r.attempt = 2 \/ r.id = 2}
MCChecks == {[id |-> 9, sha |-> "b"]}

MCRefs ==
  {PrRef(n) : n \in Tasks} \cup {CiRef(r) : r \in Runs} \cup {ComputeRef(r) : r \in Runs}
    \cup {ValidationRef(c) : c \in Checks}

Wide == [pulls |-> 3, commits |-> 3, runs |-> 4, shas |-> 3]
Firsts == {r \in Runs : r.attempt = 1 /\ r.id < 3}

(* CI moves; users move; limits that bite; dates that are absent or late.  *)
Busy ==
  [moves |-> {"run", "again"}, dates |-> {"now"}, opened |-> {1, 2},
   started |-> Firsts, limits |-> Wide, steps |-> 3, failures |-> 0]
MCScenarios ==
  {Busy,
   [Busy EXCEPT !.started = {}, !.limits.runs = 1, !.steps = 2, !.failures = 1],
   [Busy EXCEPT !.moves = {"open", "push", "merge"}, !.opened = {1}],
   [Busy EXCEPT !.moves = {"push", "merge"}, !.opened = {1}, !.steps = 2, !.failures = 2],
   [Busy EXCEPT !.moves = {"open", "push"}, !.opened = {},
                !.limits = [pulls |-> 1, commits |-> 1, runs |-> 1, shas |-> 1]],
   [Busy EXCEPT !.moves = {"push", "close", "reopen"}, !.dates = {"none", "late"},
                !.opened = {1}]}

(* A pull request with more commits than the sweep reads. *)
LongPull ==
  {[Busy EXCEPT !.moves = {"push"}, !.opened = {1}, !.limits.commits = 1, !.steps = 1]}
=============================================================================
