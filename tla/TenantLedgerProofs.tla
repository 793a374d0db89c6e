-------------------------- MODULE TenantLedgerProofs --------------------------
(***************************************************************************)
(* Machine-checked proofs about TenantLedger, for every set of ids, bodies *)
(* and batches and every bound.                                            *)
(***************************************************************************)
EXTENDS TenantLedger, TLAPS

USE LedgerAssumption

(* Every stored event was well formed and was numbered from the counter,   *)
(* and its supplied id (if any) is in the id set.                          *)
StoredFromCounter ==
  \A i \in DOMAIN events :
    /\ events[i].raw.body \in Conforming
    /\ events[i].seq <= seq
    /\ Supplied(events[i].raw) => events[i].raw.id \in eventIds

(* A stored event carries its supplied id, or that of its number. *)
StampedByNumber ==
  \A i \in DOMAIN events : events[i] = Stamp(events[i].raw, events[i].seq)

(* Every id in the set is that of a stored event or was burned. *)
IdsAccountedFor ==
  \A x \in eventIds :
    (\E i \in DOMAIN events : events[i].raw.id = x) \/ Burned(x)

(* SeqStrictlyMonotonic and CallerIdsUnique are inductive only together    *)
(* with the link between the stored events, the counter and the id set.    *)
LedgerInv ==
  /\ TypeOK
  /\ StoredFromCounter
  /\ StampedByNumber
  /\ IdsAccountedFor
  /\ SeqStrictlyMonotonic
  /\ CallerIdsUnique
  /\ LossExplained

-----------------------------------------------------------------------------
(* The head and the tail of a running call are raw events. *)
LEMMA PendingParts ==
  ASSUME TypeOK, pending # <<>>
  PROVE  /\ Head(pending) \in RawEvent
         /\ Tail(pending) \in Seq(RawEvent)
         /\ Len(Tail(pending)) = Len(pending) - 1
         /\ Len(pending) \in Nat \ {0}
         /\ Rest \subseteq RawEvent
<1>1. pending \in Seq(RawEvent)
  BY DEF TypeOK
<1>2. /\ Head(pending) \in RawEvent
      /\ Tail(pending) \in Seq(RawEvent)
      /\ Len(Tail(pending)) = Len(pending) - 1
      /\ Len(pending) \in Nat \ {0}
  BY <1>1
<1>3. \A i \in 2..Len(pending) : pending[i] \in RawEvent
  BY <1>1
<1> QED
  BY <1>2, <1>3 DEF Rest

(* A canonical event stamped with the next number is well typed. *)
LEMMA StampType ==
  ASSUME NEW raw \in RawEvent, NEW n \in 1..MaxSeq
  PROVE  /\ Stamp(raw, n) \in StoredEvent
         /\ Stamp(raw, n).raw = raw
         /\ Stamp(raw, n).seq = n
<1>1. AutoId(n) \in EventIds
  BY AutoIdAssumption
<1>2. Supplied(raw) => raw.id \in EventIds
  BY DEF Supplied, RawEvent
<1> QED
  BY <1>1, <1>2 DEF Stamp, StoredEvent

(* The empty ledger satisfies the invariant. *)
LEMMA InitInv == Init => LedgerInv
BY DEF Init, LedgerInv, TypeOK, StoredFromCounter, StampedByNumber, IdsAccountedFor,
       SeqStrictlyMonotonic, CallerIdsUnique, LossExplained, StoredEvent

(* Stored events carry integers as sequence numbers. *)
LEMMA StoredSeqType ==
  ASSUME TypeOK
  PROVE  \A i \in DOMAIN events : events[i].seq \in Int
<1>1. events \in Seq(StoredEvent)
  BY DEF TypeOK
<1>2. \A i \in DOMAIN events : events[i] \in StoredEvent
  BY <1>1
<1>3. \A e \in StoredEvent : e.seq \in Int
  BY DEF StoredEvent
<1> QED
  BY <1>2, <1>3

(* What every visit does, whichever way it ends. *)
LEMMA VisitFacts ==
  ASSUME TypeOK, NEW raw, Visit(raw)
  PROVE  /\ raw \in RawEvent
         /\ seq' = seq + 1
         /\ seq + 1 \in 1..MaxSeq
         /\ Remember(raw) \subseteq EventIds
         /\ eventIds \subseteq Remember(raw)
         /\ attempted' \subseteq RawEvent
         /\ raw \in attempted' /\ attempted \subseteq attempted'
<1>1. /\ pending # <<>> /\ raw = Head(pending)
      /\ seq' = seq + 1 /\ attempted' = attempted \cup {raw}
  BY DEF Visit, NextSeq
<1>2. raw \in RawEvent /\ Len(pending) \in Nat \ {0}
  BY <1>1, PendingParts
<1>3. seq + 1 \in 1..MaxSeq
  BY <1>2 DEF TypeOK
<1>4. Remember(raw) \subseteq EventIds /\ eventIds \subseteq Remember(raw)
  BY <1>2 DEF Remember, Supplied, RawEvent, TypeOK
<1>5. attempted' \subseteq RawEvent
  BY <1>1, <1>2 DEF TypeOK
<1> QED
  BY <1>1, <1>2, <1>3, <1>4, <1>5

(* Storing an event appends it, stamped, behind the untouched store. *)
LEMMA StoreFacts ==
  ASSUME LedgerInv, NEW raw, Store(raw)
  PROVE  /\ TypeOK'
         /\ Len(events) \in Nat
         /\ DOMAIN events = 1..Len(events)
         /\ DOMAIN events' = 1..(Len(events) + 1)
         /\ \A i \in DOMAIN events : events'[i] = events[i] /\ i \in DOMAIN events'
         /\ events'[Len(events) + 1] = Stamp(raw, seq + 1)
         /\ Len(events) + 1 \in DOMAIN events'
<1> USE DEF LedgerInv
<1>1. /\ Visit(raw) /\ eventIds' = Remember(raw)
      /\ events' = Append(events, Stamp(raw, seq + 1))
      /\ pending' = Tail(pending) /\ skipped' = skipped
  BY DEF Store, NextSeq
<1>2. pending # <<>>
  BY <1>1 DEF Visit
<1>3. /\ raw \in RawEvent /\ seq' = seq + 1 /\ seq + 1 \in 1..MaxSeq
      /\ Remember(raw) \subseteq EventIds /\ attempted' \subseteq RawEvent
  BY <1>1, VisitFacts
<1>4. Stamp(raw, seq + 1) \in StoredEvent
  BY <1>3, StampType
<1>5. events \in Seq(StoredEvent)
  BY DEF TypeOK
<1>6. events' \in Seq(StoredEvent)
  BY <1>1, <1>4, <1>5
<1>7. /\ Tail(pending) \in Seq(RawEvent)
      /\ Len(Tail(pending)) = Len(pending) - 1 /\ Len(pending) \in Nat
  BY <1>2, PendingParts
<1>8. seq' + Len(pending') <= MaxSeq
  BY <1>1, <1>3, <1>7 DEF TypeOK
<1>9. TypeOK'
  BY <1>1, <1>3, <1>6, <1>7, <1>8 DEF TypeOK
<1> QED
  BY <1>1, <1>4, <1>5, <1>9

(* A refused event changes the store in nothing. *)
LEMMA RefusalType ==
  ASSUME TypeOK, NEW raw, RefuseDuplicate(raw) \/ RefuseMalformed(raw)
  PROVE  TypeOK'
<1>1. Visit(raw) /\ events' = events /\ pending' = <<>> /\ skipped' = skipped \cup Rest
  BY DEF RefuseDuplicate, RefuseMalformed
<1>2. eventIds' = eventIds \/ eventIds' = Remember(raw)
  BY DEF RefuseDuplicate, RefuseMalformed
<1>3. pending # <<>>
  BY <1>1 DEF Visit
<1>4. Rest \subseteq RawEvent
  BY <1>3, PendingParts
<1>5. /\ seq' = seq + 1 /\ seq + 1 \in 1..MaxSeq
      /\ Remember(raw) \subseteq EventIds /\ attempted' \subseteq RawEvent
  BY <1>1, VisitFacts
<1>6. /\ pending' \in Seq(RawEvent) /\ seq' + Len(pending') <= MaxSeq /\ seq' \in 0..MaxSeq
  BY <1>1, <1>5
<1> QED
  BY <1>1, <1>2, <1>4, <1>5, <1>6 DEF TypeOK

(* An id once burned stays burned. *)
LEMMA BurnedForGood ==
  ASSUME attempted \subseteq attempted', NEW x, Burned(x)
  PROVE  Burned(x)'
BY DEF Burned

(* Storing an event keeps it: the event takes the next number and a fresh id. *)
LEMMA StorePreserves ==
  ASSUME LedgerInv, NEW raw, Store(raw)
  PROVE  LedgerInv'
<1> USE DEF LedgerInv
<1>1. /\ raw.body \in Conforming /\ eventIds' = Remember(raw)
      /\ Visit(raw) /\ ~Duplicate(raw)
  BY DEF Store
<1>2. /\ TypeOK'
      /\ Len(events) \in Nat
      /\ DOMAIN events = 1..Len(events)
      /\ DOMAIN events' = 1..(Len(events) + 1)
      /\ \A i \in DOMAIN events : events'[i] = events[i] /\ i \in DOMAIN events'
      /\ events'[Len(events) + 1] = Stamp(raw, seq + 1)
      /\ Len(events) + 1 \in DOMAIN events'
  BY StoreFacts
<1>3. /\ raw \in RawEvent /\ seq' = seq + 1 /\ seq + 1 \in 1..MaxSeq
      /\ eventIds \subseteq eventIds' /\ attempted \subseteq attempted'
  BY <1>1, VisitFacts
<1>4. attempted' = attempted \cup {raw}
  BY <1>1 DEF Visit
<1>5. Stamp(raw, seq + 1).raw = raw /\ Stamp(raw, seq + 1).seq = seq + 1
  BY <1>3, StampType
<1>6. Supplied(raw) => raw.id \in eventIds' /\ raw.id \notin eventIds
  BY <1>1 DEF Duplicate, Remember
<1>7. \A i \in DOMAIN events' : i = Len(events) + 1 \/ i \in DOMAIN events
  BY <1>2
<1>8. \A i \in DOMAIN events : events[i].seq \in Int
  BY StoredSeqType
<1>9. seq \in Int
  BY DEF TypeOK
<1>10. StoredFromCounter'
  <2> SUFFICES ASSUME NEW i \in DOMAIN events'
               PROVE  /\ events'[i].raw.body \in Conforming
                      /\ events'[i].seq <= seq'
                      /\ Supplied(events'[i].raw) => events'[i].raw.id \in eventIds'
    BY DEF StoredFromCounter, Supplied
  <2>1. CASE i = Len(events) + 1
    BY <2>1, <1>1, <1>2, <1>3, <1>5, <1>6, <1>9
  <2>2. CASE i \in DOMAIN events
    BY <2>2, <1>2, <1>3, <1>8, <1>9 DEF StoredFromCounter
  <2> QED
    BY <2>1, <2>2, <1>7
<1>11. IdsAccountedFor'
  <2> SUFFICES ASSUME NEW x \in eventIds'
               PROVE  (\E i \in DOMAIN events' : events'[i].raw.id = x) \/ Burned(x)'
    BY DEF IdsAccountedFor
  <2>1. CASE x \in eventIds
    BY <2>1, <1>2, <1>3, BurnedForGood DEF IdsAccountedFor
  <2>2. CASE x = raw.id
    BY <2>2, <1>2, <1>5
  <2> QED
    BY <2>1, <2>2, <1>1 DEF Remember
<1>12. SeqStrictlyMonotonic'
  <2> SUFFICES ASSUME NEW i \in DOMAIN events', NEW j \in DOMAIN events', i < j
               PROVE  events'[i].seq < events'[j].seq
    BY DEF SeqStrictlyMonotonic
  <2>1. i \in DOMAIN events
    BY <1>2
  <2>2. CASE j = Len(events) + 1
    BY <2>1, <2>2, <1>2, <1>5, <1>8, <1>9 DEF StoredFromCounter
  <2>3. CASE j \in DOMAIN events
    BY <2>1, <2>3, <1>2 DEF SeqStrictlyMonotonic
  <2> QED
    BY <2>2, <2>3, <1>7
<1>13. CallerIdsUnique'
  <2>1. \A i \in DOMAIN events : Supplied(events[i].raw) => events[i].raw.id # raw.id
    BY <1>6 DEF StoredFromCounter, Supplied
  <2> SUFFICES ASSUME NEW i \in DOMAIN events', NEW j \in DOMAIN events',
                      Supplied(events'[i].raw), events'[i].raw.id = events'[j].raw.id
               PROVE  i = j
    BY DEF CallerIdsUnique, Supplied
  <2>2. CASE i \in DOMAIN events /\ j \in DOMAIN events
    BY <2>2, <1>2 DEF CallerIdsUnique
  <2>3. CASE i = Len(events) + 1 /\ j \in DOMAIN events
    BY <2>1, <2>3, <1>2, <1>5 DEF Supplied
  <2>4. CASE i \in DOMAIN events /\ j = Len(events) + 1
    BY <2>1, <2>4, <1>2, <1>5
  <2> QED
    BY <2>2, <2>3, <2>4, <1>7
<1>14. LossExplained'
  <2> SUFFICES ASSUME NEW r \in attempted', r.body \in Conforming
               PROVE  \/ IsStored(r)'
                      \/ \E i \in DOMAIN events' : events'[i].raw.id = r.id
                      \/ Burned(r.id)'
    BY DEF LossExplained
  <2>1. CASE r = raw
    BY <2>1, <1>2, <1>5
  <2>2. CASE r \in attempted
    BY <2>2, <1>2, <1>3, BurnedForGood DEF LossExplained, IsStored
  <2> QED
    BY <2>1, <2>2, <1>4
<1>15. StampedByNumber'
  <2>1. ASSUME NEW i \in DOMAIN events'
        PROVE  events'[i] = Stamp(events'[i].raw, events'[i].seq)
    <3>1. CASE i = Len(events) + 1
      BY <3>1, <1>2, <1>5
    <3>2. CASE i \in DOMAIN events
      BY <3>2, <1>2 DEF StampedByNumber
    <3> QED
      BY <3>1, <3>2, <1>7
  <2> QED
    BY <2>1 DEF StampedByNumber, Stamp, Supplied
<1> QED
  BY <1>2, <1>10, <1>11, <1>12, <1>13, <1>14, <1>15

(* So does refusing one, which uses up its number and stores nothing. *)
LEMMA RefusalPreserves ==
  ASSUME LedgerInv, NEW raw, RefuseDuplicate(raw) \/ RefuseMalformed(raw)
  PROVE  LedgerInv'
<1> USE DEF LedgerInv
<1>1. Visit(raw) /\ events' = events
  BY DEF RefuseDuplicate, RefuseMalformed
<1>2. /\ seq' = seq + 1 /\ seq \in Int
      /\ raw \in attempted' /\ attempted \subseteq attempted'
      /\ attempted' = attempted \cup {raw}
  BY <1>1, VisitFacts DEF TypeOK, Visit
<1>3. TypeOK'
  BY RefusalType
<1>4. eventIds \subseteq eventIds'
  BY <1>1, VisitFacts DEF RefuseDuplicate, RefuseMalformed
<1>5. \A x \in eventIds' \ eventIds : x = raw.id /\ raw.body \notin Conforming
  BY DEF RefuseDuplicate, RefuseMalformed, Remember
<1>6. raw.body \in Conforming => raw.id \in eventIds
  BY DEF RefuseDuplicate, RefuseMalformed, Duplicate
<1>7. StoredFromCounter'
  <2>1. \A i \in DOMAIN events : events[i].seq \in Int
    BY StoredSeqType
  <2> QED
    BY <2>1, <1>1, <1>2, <1>4 DEF StoredFromCounter, Supplied
<1>8. IdsAccountedFor'
  <2> SUFFICES ASSUME NEW x \in eventIds'
               PROVE  (\E i \in DOMAIN events : events[i].raw.id = x) \/ Burned(x)'
    BY <1>1 DEF IdsAccountedFor
  <2>1. CASE x \in eventIds
    BY <2>1, <1>2, BurnedForGood DEF IdsAccountedFor
  <2>2. CASE x \notin eventIds
    BY <2>2, <1>2, <1>5 DEF Burned
  <2> QED
    BY <2>1, <2>2
<1>9. SeqStrictlyMonotonic' /\ CallerIdsUnique'
  BY <1>1 DEF SeqStrictlyMonotonic, CallerIdsUnique, Supplied
<1>10. LossExplained'
  <2> SUFFICES ASSUME NEW r \in attempted', r.body \in Conforming
               PROVE  \/ IsStored(r)
                      \/ \E i \in DOMAIN events : events[i].raw.id = r.id
                      \/ Burned(r.id)'
    BY <1>1 DEF LossExplained, IsStored
  <2>1. CASE r = raw
    BY <2>1, <1>2, <1>6, BurnedForGood DEF IdsAccountedFor
  <2>2. CASE r \in attempted
    BY <2>2, <1>2, BurnedForGood DEF LossExplained
  <2> QED
    BY <2>1, <2>2, <1>2
<1>11. StampedByNumber'
  BY <1>1 DEF StampedByNumber, Stamp, Supplied
<1> QED
  BY <1>3, <1>7, <1>8, <1>9, <1>10, <1>11

(* So does the start of a call, which leaves the ledger as it is. *)
LEMMA CallPreserves ==
  ASSUME LedgerInv, NEW batch \in Batches, Call(batch)
  PROVE  LedgerInv'
<1> USE DEF LedgerInv
<1>1. batch \in Seq(RawEvent)
  OBVIOUS
<1>2. UNCHANGED <<events, seq, eventIds, attempted, skipped>> /\ pending' = batch
      /\ seq + Len(batch) <= MaxSeq
  BY DEF Call
<1>3. TypeOK'
  BY <1>1, <1>2 DEF TypeOK
<1> QED
  BY <1>2, <1>3 DEF StoredFromCounter, StampedByNumber, Stamp, IdsAccountedFor, SeqStrictlyMonotonic,
                    CallerIdsUnique, LossExplained, IsStored, Burned, Supplied

(* And so does a step of something else. *)
LEMMA StutterPreserves == LedgerInv /\ UNCHANGED vars => LedgerInv'
BY DEF vars, LedgerInv, TypeOK, StoredFromCounter, StampedByNumber, IdsAccountedFor,
       SeqStrictlyMonotonic, CallerIdsUnique, LossExplained, IsStored, Burned, Supplied, Stamp

(* The invariant holds in every reachable state of the ledger. *)
LEMMA LedgerInvariant == Spec => []LedgerInv
<1>1. LedgerInv /\ [Next]_vars => LedgerInv'
  BY StorePreserves, RefusalPreserves, CallPreserves, StutterPreserves DEF Next
<1> QED
  BY <1>1, InitInv, PTL DEF Spec

-----------------------------------------------------------------------------
(* The ledger's state stays well typed, whatever the adapters send. *)
THEOREM LedgerTypeOK == Spec => []TypeOK
BY LedgerInvariant, PTL DEF LedgerInv

(* Reconstruction's sort by seq is storage order in every ledger: refused  *)
(* events consume numbers but never disorder the stored ones.              *)
THEOREM SeqMonotonic == Spec => []SeqStrictlyMonotonic
BY LedgerInvariant, PTL DEF LedgerInv

(* No caller-supplied id is ever stored twice. *)
THEOREM SuppliedIdsUnique == Spec => []CallerIdsUnique
BY LedgerInvariant, PTL DEF LedgerInv

(* Uniqueness of supplied ids, of numbers and of the ids generated from    *)
(* them leaves only one clash: a supplied id with a generated one.         *)
LEMMA ClashesExplained == LedgerInv => IdsClashOnlyIfForged
<1> SUFFICES ASSUME LedgerInv, NEW i \in DOMAIN events, NEW j \in DOMAIN events,
                    i # j, events[i].id = events[j].id,
                    Supplied(events[i].raw) <=> Supplied(events[j].raw)
             PROVE  FALSE
  BY DEF IdsClashOnlyIfForged
<1> USE DEF LedgerInv
<1>1. /\ events[i].id = Stamp(events[i].raw, events[i].seq).id
      /\ events[j].id = Stamp(events[j].raw, events[j].seq).id
  BY DEF StampedByNumber
<1>2. CASE Supplied(events[i].raw)
  <2>1. events[i].raw.id = events[j].raw.id
    BY <1>1, <1>2 DEF Stamp
  <2> QED
    BY <2>1, <1>2 DEF CallerIdsUnique
<1>3. CASE ~Supplied(events[i].raw)
  <2>1. events \in Seq(StoredEvent)
    BY DEF TypeOK
  <2>2. events[i] \in StoredEvent /\ events[j] \in StoredEvent
    BY <2>1
  <2>3. events[i].seq \in 1..MaxSeq /\ events[j].seq \in 1..MaxSeq
    BY <2>2 DEF StoredEvent
  <2>4. AutoId(events[i].seq) = AutoId(events[j].seq)
    BY <1>1, <1>3 DEF Stamp
  <2>5. events[i].seq = events[j].seq
    BY <2>3, <2>4, AutoIdAssumption
  <2>6. i \in Int /\ j \in Int
    BY <2>1
  <2>7. i < j \/ j < i
    BY <2>6
  <2> QED
    BY <2>3, <2>5, <2>7 DEF SeqStrictlyMonotonic
<1> QED
  BY <1>2, <1>3

(* Two stored events share an id only where a caller supplied the id the   *)
(* ledger generated.                                                       *)
THEOREM ClashOnlyIfForged == Spec => []IdsClashOnlyIfForged
BY LedgerInvariant, ClashesExplained, PTL

(* Every id in the set was carried by an event that append was called on.  *)
IdsFromAttempts == \A x \in eventIds : \E raw \in attempted : raw.id = x

(* An exception leaves no trace of the events it abandons. *)
LEMMA RestIsUntouched == Spec => []RestUntouched
<1>1. Init => IdsFromAttempts
  BY DEF Init, IdsFromAttempts
<1>2. IdsFromAttempts /\ [Next]_vars => IdsFromAttempts'
  <2> SUFFICES ASSUME IdsFromAttempts, [Next]_vars PROVE IdsFromAttempts'
    OBVIOUS
  <2>1. ASSUME NEW raw, Visit(raw), eventIds' \in {eventIds, Remember(raw)}
        PROVE  IdsFromAttempts'
    BY <2>1 DEF IdsFromAttempts, Visit, Remember
  <2>2. ASSUME NEW raw \in RawEvent, Store(raw) PROVE IdsFromAttempts'
    BY <2>1, <2>2 DEF Store
  <2>3. ASSUME NEW raw \in RawEvent, RefuseDuplicate(raw) PROVE IdsFromAttempts'
    BY <2>1, <2>3 DEF RefuseDuplicate
  <2>4. ASSUME NEW raw \in RawEvent, RefuseMalformed(raw) PROVE IdsFromAttempts'
    BY <2>1, <2>4 DEF RefuseMalformed
  <2>5. ASSUME NEW batch \in Batches, Call(batch) PROVE IdsFromAttempts'
    BY <2>5 DEF Call, IdsFromAttempts
  <2>6. CASE UNCHANGED vars
    BY <2>6 DEF vars, IdsFromAttempts
  <2> QED  BY <2>2, <2>3, <2>4, <2>5, <2>6 DEF Next
<1>3. IdsFromAttempts => RestUntouched
  BY DEF IdsFromAttempts, RestUntouched
<1> QED  BY <1>1, <1>2, <1>3, PTL DEF Spec

(* A well-formed event that append looked at is missing from the ledger    *)
(* only because its id is stored already or was burned by a malformed one, *)
(* and of what an exception abandoned no id is taken: it can be delivered  *)
(* again.                                                                  *)
THEOREM OnlyExplainedLoss == Spec => []NoSilentLoss
<1>1. LedgerInv /\ RestUntouched => NoSilentLoss
  BY DEF LedgerInv, NoSilentLoss
<1> QED  BY <1>1, LedgerInvariant, RestIsUntouched, PTL

-----------------------------------------------------------------------------
(* Storing an event is accepting it into the log. *)
LEMMA StoreAccepts ==
  ASSUME LedgerInv, NEW raw, Store(raw)
  PROVE  Log!Next
<1>1. /\ raw.body \in Conforming /\ Visit(raw) /\ ~Duplicate(raw)
      /\ events' = Append(events, Stamp(raw, seq + 1))
  BY DEF Store, NextSeq
<1>2. /\ raw \in RawEvent /\ seq + 1 \in 1..MaxSeq
  BY <1>1, VisitFacts DEF LedgerInv
<1>3. Stamp(raw, seq + 1).raw = raw
  BY <1>2, StampType
<1>4. /\ Len(events) \in Nat
      /\ DOMAIN events = 1..Len(events)
      /\ DOMAIN events' = 1..(Len(events) + 1)
      /\ \A i \in DOMAIN events : events'[i] = events[i] /\ i \in DOMAIN events'
      /\ events'[Len(events) + 1] = Stamp(raw, seq + 1)
  BY StoreFacts
<1>5. \A i \in DOMAIN events : events[i].raw \in RawEvent
  <2>1. \A i \in DOMAIN events : events[i] \in StoredEvent
    BY DEF LedgerInv, TypeOK
  <2> QED
    BY <2>1 DEF StoredEvent
<1>6. [i \in DOMAIN events |-> events[i].raw] \in Seq(RawEvent)
  BY <1>4, <1>5
<1> DEFINE old == [i \in DOMAIN events |-> events[i].raw]
<1>7. Append(old, raw) = [i \in DOMAIN events' |-> events'[i].raw]
  <2>1. Len(old) = Len(events)
    BY <1>4
  <2>2. DOMAIN Append(old, raw) = 1..(Len(events) + 1)
    BY <1>2, <1>6, <2>1
  <2>3. ASSUME NEW i \in 1..(Len(events) + 1)
        PROVE  Append(old, raw)[i] = events'[i].raw
    <3>1. CASE i = Len(events) + 1
      BY <3>1, <1>2, <1>3, <1>4, <1>6, <2>1
    <3>2. CASE i \in DOMAIN events
      BY <3>2, <1>2, <1>4, <1>6, <2>1
    <3> QED
      BY <3>1, <3>2, <1>4
  <2>4. Append(old, raw) \in Seq(RawEvent)
    BY <1>2, <1>6
  <2> DEFINE new == Append(old, raw)
  <2>5. new = [i \in DOMAIN new |-> new[i]]
    <3> HIDE DEF new
    <3> QED
      BY <2>4 DEF new
  <2>6. DOMAIN new = DOMAIN events' /\ \A i \in DOMAIN new : new[i] = events'[i].raw
    BY <2>2, <2>3, <1>4
  <2> HIDE DEF new
  <2>7. new = [i \in DOMAIN events' |-> events'[i].raw]
    BY <2>5, <2>6, Zenon
  <2> QED
    BY <2>7 DEF new
<1>8. raw.id = NoId \/ ~\E i \in DOMAIN old : old[i].id = raw.id
  BY <1>1 DEF Duplicate, Supplied, LedgerInv, StoredFromCounter
<1>9. raw \in {r \in RawEvent : r.body \in Conforming}
  BY <1>1, <1>2
<1> QED
  BY <1>7, <1>8, <1>9 DEF Log!Next, Log!Accept, Log!Taken

(* Seen through the stored events, the ledger is an idempotent append-only *)
(* log of well-formed evidence: numbering, refusals, abandoned batches and *)
(* burned ids never show as anything but an accepted event or a stutter.   *)
THEOREM LedgerImplementsLog == Spec => ImplementsEvidenceLog
<1>1. Init => Log!Init
  BY DEF Init, Log!Init
<1>2. LedgerInv /\ [Next]_vars => [Log!Next]_([i \in DOMAIN events |-> events[i].raw])
  <2> SUFFICES ASSUME LedgerInv, [Next]_vars
               PROVE  Log!Next \/ events' = events
    OBVIOUS
  <2>1. ASSUME NEW raw, Store(raw) PROVE Log!Next
    BY <2>1, StoreAccepts
  <2>2. ASSUME NEW raw, RefuseDuplicate(raw) \/ RefuseMalformed(raw) PROVE events' = events
    BY <2>2 DEF RefuseDuplicate, RefuseMalformed
  <2>3. ASSUME NEW batch, Call(batch) PROVE events' = events
    BY <2>3 DEF Call
  <2>4. CASE UNCHANGED vars
    BY <2>4 DEF vars
  <2> QED
    BY <2>1, <2>2, <2>3, <2>4 DEF Next
<1> QED
  BY <1>1, <1>2, LedgerInvariant, PTL DEF Spec, ImplementsEvidenceLog, Log!Spec
=============================================================================
