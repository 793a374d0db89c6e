----------------------------- MODULE MCEvidence -----------------------------
(* Constructors of events, for the alphabets the models are run with: each *)
(* leaves the fields its event type does not use absent.                   *)
EXTENDS CoreEvents

CiRun(t, e, r, c, status, rev, start, finish) ==
  [Spent(t, "ci_run_recorded", e, r, c) EXCEPT !.key = "k", !.status = status,
     !.rev = rev, !.start = start, !.finish = finish]

Attempt(t, e, r, c, status, class) ==
  [Spent(t, "model_invocation_recorded", e, r, c) EXCEPT !.key = "k",
     !.status = status, !.class = class]
=============================================================================
