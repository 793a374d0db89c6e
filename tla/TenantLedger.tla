---------------------------- MODULE TenantLedger ----------------------------
(***************************************************************************)
(* The tenant ledger of packages/core (analytics/tenant.js): the one place *)
(* where evidence enters the system.  Adapters hand raw events to append   *)
(* or, in batches, to appendAll; the ledger numbers them, guards caller-   *)
(* supplied ids against reuse, validates them (normalizeEvent) and stores  *)
(* them.  JavaScript runs a call to completion, so a batch in progress     *)
(* (pending) excludes every other call; an exception abandons its rest.    *)
(*                                                                         *)
(* A raw event is its optional event_id and its body: everything else it   *)
(* says, of which only normalizeEvent's verdict (Conforming) matters here. *)
(***************************************************************************)
EXTENDS Integers, Sequences, FiniteSets

CONSTANTS
  EventIds,     \* the strings that can name an event
  NoId,         \* the raw event carries no usable event_id
  AutoId(_),    \* the id `evt-<seq>` the ledger generates for a sequence number
  Bodies,       \* what raw events say, apart from their id
  Conforming,   \* the bodies normalizeEvent accepts
  Batches,      \* the batches adapters may pass to append / appendAll
  MaxSeq        \* bound: sequence numbers handed out in a behaviour

RawEvent == [id : EventIds \cup {NoId}, body : Bodies]

ASSUME LedgerAssumption ==
  /\ NoId \notin EventIds
  /\ Conforming \subseteq Bodies
  /\ MaxSeq \in Nat
  /\ Batches \subseteq Seq(RawEvent)

(* The generated ids are strings, and padStart keeps them distinct. *)
ASSUME AutoIdAssumption ==
  \A m, n \in 1..MaxSeq : /\ AutoId(m) \in EventIds
                          /\ AutoId(m) = AutoId(n) => m = n

VARIABLES
  events,     \* #events: the stored canonical events, oldest first
  seq,        \* #seq: the last sequence number handed out
  eventIds,   \* #eventIds: the caller-supplied ids seen so far
  pending,    \* raw events the running append / appendAll has still to visit
  attempted,  \* history: the raw events append has been called on
  skipped     \* history: raw events abandoned behind an exception

vars == <<events, seq, eventIds, pending, attempted, skipped>>

StoredEvent == [id : EventIds, seq : 1..MaxSeq, raw : RawEvent]

Init ==
  /\ events = <<>>
  /\ seq = 0
  /\ eventIds = {}
  /\ pending = <<>>
  /\ attempted = {}
  /\ skipped = {}

-----------------------------------------------------------------------------
(* append, for the raw event at the head of the running call. *)

Supplied(raw) == raw.id # NoId

(* Mutant: only an immediate repetition is recognised. *)
MutChecksLastOnly(raw) ==
  events # <<>> /\ Supplied(raw) /\ raw.id = events[Len(events)].id

(* The guard of append: the id was supplied before, by whatever event. *)
Duplicate(raw) == Supplied(raw) /\ raw.id \in eventIds

(* Mutant: ids are never recorded. *)
MutForgetsId(raw) == eventIds
(* Mutant: the ids of a whole batch are recorded before it is visited. *)
MutRemembersBatch(raw) ==
  eventIds \cup ({pending[i].id : i \in DOMAIN pending} \ {NoId})

(* The id set after append has looked at a raw event that is no duplicate: *)
(* it is extended BEFORE the event is validated.                           *)
Remember(raw) == IF Supplied(raw) THEN eventIds \cup {raw.id} ELSE eventIds

(* Mutant: events are numbered by the ids recorded so far. *)
MutSeqFromIds == Cardinality(eventIds) + 1
NextSeq == seq + 1

(* Mutant: no id is generated. *)
MutStampsSuppliedId(raw, n) == [id |-> raw.id, seq |-> n, raw |-> raw]

(* The canonical event: the supplied id or a generated one, and the number. *)
Stamp(raw, n) ==
  [id |-> IF Supplied(raw) THEN raw.id ELSE AutoId(n), seq |-> n, raw |-> raw]

(* The raw events a throwing append leaves unvisited. *)
Rest == {pending[i] : i \in 2..Len(pending)}

(* Every append consumes a sequence number, whatever becomes of the event. *)
Visit(raw) ==
  /\ pending # <<>>
  /\ raw = Head(pending)
  /\ seq' = NextSeq
  /\ attempted' = attempted \cup {raw}

(* append stores the event and appendAll goes on to the next. *)
Store(raw) ==
  /\ Visit(raw)
  /\ ~Duplicate(raw)
  /\ raw.body \in Conforming
  /\ eventIds' = Remember(raw)
  /\ events' = Append(events, Stamp(raw, NextSeq))
  /\ pending' = Tail(pending)
  /\ UNCHANGED skipped

(* DUPLICATE_EVENT_ID is thrown: the rest of the batch is not visited. *)
RefuseDuplicate(raw) ==
  /\ Visit(raw)
  /\ Duplicate(raw)
  /\ pending' = <<>>
  /\ skipped' = skipped \cup Rest
  /\ UNCHANGED <<events, eventIds>>

(* normalizeEvent throws: the event is not stored, but its id stays taken. *)
RefuseMalformed(raw) ==
  /\ Visit(raw)
  /\ ~Duplicate(raw)
  /\ raw.body \notin Conforming
  /\ eventIds' = Remember(raw)
  /\ pending' = <<>>
  /\ skipped' = skipped \cup Rest
  /\ UNCHANGED events

(* An adapter calls append (a batch of one) or appendAll. *)
Call(batch) ==
  /\ pending = <<>>
  /\ batch # <<>>
  /\ seq + Len(batch) <= MaxSeq
  /\ pending' = batch
  /\ UNCHANGED <<events, seq, eventIds, attempted, skipped>>

Next ==
  \/ \E batch \in Batches : Call(batch)
  \/ \E raw \in RawEvent : Store(raw) \/ RefuseDuplicate(raw) \/ RefuseMalformed(raw)

Spec == Init /\ [][Next]_vars

-----------------------------------------------------------------------------
(* Types of the ledger's state. *)
TypeOK ==
  /\ events \in Seq(StoredEvent)
  /\ seq \in 0..MaxSeq
  /\ seq + Len(pending) <= MaxSeq
  /\ eventIds \subseteq EventIds
  /\ pending \in Seq(RawEvent)
  /\ attempted \subseteq RawEvent
  /\ skipped \subseteq RawEvent

(* `seq` is strictly monotonic in storage order, whatever was refused in   *)
(* between: sorting by seq (reconstructTasks) is storage order.            *)
SeqStrictlyMonotonic ==
  \A i, j \in DOMAIN events : i < j => events[i].seq < events[j].seq

(* No caller-supplied id is stored twice, across calls, batches and        *)
(* refusals.                                                               *)
CallerIdsUnique ==
  \A i, j \in DOMAIN events :
    Supplied(events[i].raw) /\ events[i].raw.id = events[j].raw.id => i = j

IsStored(raw) == \E i \in DOMAIN events : events[i].raw = raw

(* The id was taken by an event that never reached the store. *)
Burned(x) == \E raw \in attempted : raw.id = x /\ raw.body \notin Conforming

(* A conforming event that append was called on is in the ledger, or some  *)
(* stored event already carries its id, or a malformed event burned it.    *)
LossExplained ==
  \A raw \in attempted :
    raw.body \in Conforming =>
      \/ IsStored(raw)
      \/ \E i \in DOMAIN events : events[i].raw.id = raw.id
      \/ Burned(raw.id)

(* An id of the rest that an exception abandoned is taken only by an event *)
(* that append was called on: the caller may deliver the rest again.       *)
RestUntouched ==
  \A raw \in skipped :
    raw.id \in eventIds => \E other \in attempted : other.id = raw.id

(* append loses evidence only to an id that is stored or was burned by a   *)
(* malformed event, and what an exception abandoned behind the event it    *)
(* refused left no trace.                                                  *)
NoSilentLoss == LossExplained /\ RestUntouched

(* What the ledger stores, seen from outside, is an idempotent append-only *)
(* log of well-formed evidence: a stored event is never changed, dropped   *)
(* or reordered, and a re-delivered id never enters twice.                 *)
Log == INSTANCE EvidenceLog WITH
         Evidence <- {raw \in RawEvent : raw.body \in Conforming},
         log <- [i \in DOMAIN events |-> events[i].raw]

ImplementsEvidenceLog == Log!Spec

(* The comment in append: "Auto-generated ids are unique by seq            *)
(* construction; no set tracking needed".  Two stored events share an id   *)
(* only where a caller supplied, for one of them, the very id the ledger   *)
(* generated for the other, which nothing prevents.                        *)
IdsClashOnlyIfForged ==
  \A i, j \in DOMAIN events :
    i # j /\ events[i].id = events[j].id =>
      \/ Supplied(events[i].raw) /\ ~Supplied(events[j].raw)
      \/ Supplied(events[j].raw) /\ ~Supplied(events[i].raw)

=============================================================================
