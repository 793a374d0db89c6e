--------------------------- MODULE MCTenantLedger ---------------------------
(* Small instances of TenantLedger: two adapters (a webhook and a sweep)   *)
(* re-delivering overlapping evidence, one malformed body, and caller ids  *)
(* that may look like generated ones.                                      *)
EXTENDS TenantLedger, TLC

MCAutoId(n) == "evt-" \o ToString(n)

MCEventIds == {"a", "b"} \cup {MCAutoId(n) : n \in 1..MaxSeq}

MCBodies == {"good", "bad"}
MCConforming == {"good"}

Raw(x, body) == [id |-> x, body |-> body]

(* Deliveries one by one, with and without id, a malformed one, and sweeps *)
(* that overlap them; one caller supplies an id of the generated form.     *)
MCBatches ==
  {<<Raw("a", "good")>>, <<Raw("b", "good")>>, <<Raw(NoId, "good")>>,
   <<Raw("a", "bad")>>, <<Raw("evt-2", "good")>>,
   <<Raw("a", "good"), Raw("b", "good")>>,
   <<Raw(NoId, "good"), Raw("b", "bad"), Raw("a", "good")>>}

=============================================================================
