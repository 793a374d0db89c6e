----------------------------- MODULE EvidenceLog -----------------------------
(***************************************************************************)
(* What a tenant ledger promises to everything downstream of it, and no    *)
(* more: evidence is a log that only grows at its end, takes well-formed   *)
(* events only, and takes at most one event under each supplied id.        *)
(* TenantLedger implements it; how it numbers events, tracks ids and       *)
(* abandons batches is not visible here.                                   *)
(***************************************************************************)
EXTENDS Sequences

CONSTANTS
  Evidence,   \* the well-formed raw events, each a record with an id field
  NoId        \* the id of an event that was supplied without one

VARIABLE log

Taken(id) == \E i \in DOMAIN log : log[i].id = id

Accept(raw) ==
  /\ raw.id = NoId \/ ~Taken(raw.id)
  /\ log' = Append(log, raw)

Init == log = <<>>

Next == \E raw \in Evidence : Accept(raw)

Spec == Init /\ [][Next]_log
=============================================================================
