----------------------------- MODULE ServiceProofs -----------------------------
(***************************************************************************)
(* Proofs about the ingestion service and its replay clients, for any      *)
(* number of processes, handlers, clients, events and batches.             *)
(*                                                                         *)
(* The service alone (Ingestion): the inductive invariant IInv, from it    *)
(* the safety properties and the implementation of EventStore.             *)
(*                                                                         *)
(* With clients (Delivery): a replay that has moved past a batch has       *)
(* stored it.  The argument is about two state machines: the request a     *)
(* client waits for is the one that its handler works on, until the        *)
(* handler answers or dies; what that answer is worth is IInv.             *)
(***************************************************************************)
EXTENDS Delivery, FiniteSetTheorems, WellFoundedInduction, TLAPS

-----------------------------------------------------------------------------
(* Induction on the natural numbers, in the first-order form that the      *)
(* provers can use.                                                        *)

\* Every non-empty set of natural numbers has a least element: the fact
\* behind "the first copy of an event_id" in split_in_batch_duplicates.
LEMMA NatMin ==
  ASSUME NEW S \in SUBSET Nat, S # {}
  PROVE  \E n \in S : \A m \in S : n <= m
<1> DEFINE R == {ss \in Nat \X Nat : ss[1] < ss[2]}
<1>1. IsWellFoundedOn(R, Nat)
  BY NatLessThanWellFounded DEF OpToRel
<1>2. \A m, n \in Nat : m < n => <<m, n>> \in R
  OBVIOUS
<1>3. PICK n \in S : \A m \in S : ~(<<m, n>> \in R)
  <2> HIDE DEF R
  <2> QED BY <1>1, WFMin
<1>4. ASSUME NEW m \in S PROVE n <= m
  <2>1. ~(m < n)
    BY <1>2, <1>3
  <2> QED BY <2>1
<1> QED BY <1>4

\* A set of naturals that contains 0 and is closed under successor up to n
\* contains 0..n: induction over the positions of a request.
LEMMA NatUpTo ==
  ASSUME NEW n \in Nat, NEW S, 0 \in S,
         \A k \in 0..(n - 1) : k \in S => k + 1 \in S
  PROVE  0..n \subseteq S
<1> DEFINE Missing == (0..n) \ S
<1>1. CASE Missing = {}
  BY <1>1
<1>2. CASE Missing # {}
  <2>1. PICK k \in Missing : \A m \in Missing : k <= m
    <3>1. Missing \in SUBSET Nat
      OBVIOUS
    <3> HIDE DEF Missing
    <3> QED BY <1>2, <3>1, NatMin
  <2>2. k \in 1..n /\ k - 1 \notin Missing
    BY <2>1
  <2> QED BY <2>1, <2>2
<1> QED BY <1>1, <1>2

-----------------------------------------------------------------------------
(* Requests *)

\* What a request is made of, whichever caller sent it.
LEMMA RequestItems ==
  ASSUME NEW items \in Request \cup {<<>>}
  PROVE  /\ Len(items) \in Nat
         /\ DOMAIN items = 1..Len(items)
         /\ Valid(items) \subseteq DOMAIN items
         /\ Valid(items) \subseteq Nat
         /\ IsFiniteSet(Valid(items))
         /\ \A i \in Valid(items) : items[i] \in Event
<1>1. items \in Seq(Event \cup {Malformed})
  <2>1. <<>> \in Seq(Event \cup {Malformed})
    OBVIOUS
  <2> QED BY <2>1, RequestAssumption
<1>2. Len(items) \in Nat /\ DOMAIN items = 1..Len(items)
  BY <1>1
<1>3. IsFiniteSet(DOMAIN items)
  BY <1>2, FS_Interval
<1>4. Valid(items) \subseteq DOMAIN items
  BY DEF Valid
<1>5. IsFiniteSet(Valid(items))
  BY <1>3, <1>4, FS_Subset
<1>6. \A i \in Valid(items) : items[i] \in Event
  BY <1>1, <1>2 DEF Valid
<1> QED BY <1>2, <1>4, <1>5, <1>6

\* split_in_batch_duplicates loses no event: every valid item has a first
\* copy with its id.
LEMMA FirstCopyExists ==
  ASSUME NEW items \in Request \cup {<<>>}, NEW i \in Valid(items)
  PROVE  \E j \in FirstCopies(items) : items[j].id = items[i].id
<1> DEFINE Same == {j \in Valid(items) : items[j].id = items[i].id}
<1>1. Same \in SUBSET Nat /\ Same # {}
  BY RequestItems
<1>2. PICK j \in Same : \A k \in Same : j <= k
  <2> HIDE DEF Same
  <2> QED BY <1>1, NatMin
<1>3. \A k \in Valid(items) : k < j => items[k].id # items[j].id
  <2> SUFFICES ASSUME NEW k \in Valid(items), k < j, items[k].id = items[j].id
               PROVE  FALSE
    OBVIOUS
  <2>1. k \in Same
    BY <1>2
  <2>2. j \in Nat /\ k \in Nat
    BY <1>2, RequestItems
  <2> QED BY <1>2, <2>1, <2>2
<1> QED BY <1>2, <1>3 DEF FirstCopies

\* The statement always has a next row while rows are left.
LEMMA NextRowInTodo ==
  ASSUME NEW r, r.todo \in SUBSET Nat, r.todo # {}
  PROVE  NextRow(r) \in r.todo
<1>1. \E i \in r.todo : \A j \in r.todo : i <= j
  BY NatMin
<1> QED BY <1>1 DEF NextRow

\* note_pipeline_events takes a maximum: the watermark never decreases, and
\* it is the old one or the time of a valid event of the request.
LEMMA AdvanceMax ==
  ASSUME NEW items \in Request \cup {<<>>}, NEW w \in Nat
  PROVE  /\ Advance(w, items) \in Nat
         /\ w <= Advance(w, items)
         /\ \/ Advance(w, items) = w
            \/ \E i \in Valid(items) : Advance(w, items) = items[i].at
<1> DEFINE times == {items[i].at : i \in Valid(items)} \cup {w}
           upto(k) == {items[i].at : i \in {j \in Valid(items) : j <= k}} \cup {w}
           S == {k \in 0..Len(items) : \E t \in upto(k) : \A u \in upto(k) : u <= t}
<1>1. /\ Len(items) \in Nat
      /\ Valid(items) \subseteq 1..Len(items)
      /\ \A i \in Valid(items) : items[i].at \in Nat
  BY RequestItems, TimeAssumption DEF Event
<1>2. 0 \in S
  BY <1>1
<1>3. ASSUME NEW k \in 0..(Len(items) - 1), k \in S
      PROVE  k + 1 \in S
  <2>1. PICK t \in upto(k) : \A u \in upto(k) : u <= t
    BY <1>3
  <2>2. t \in Nat
    BY <1>1
  <2>3. k + 1 \in 0..Len(items)
    BY <1>1
  <2>4. \A u \in upto(k + 1) :
          u \in Nat /\ (u <= t \/ (k + 1 \in Valid(items) /\ u = items[k + 1].at))
    <3> SUFFICES ASSUME NEW u \in upto(k + 1), u \notin upto(k)
                 PROVE  k + 1 \in Valid(items) /\ u = items[k + 1].at
      BY <1>1, <2>1
    <3>1. PICK j \in Valid(items) : j <= k + 1 /\ u = items[j].at
      OBVIOUS
    <3>2. j \in Nat /\ ~(j <= k)
      BY <1>1, <3>1
    <3>3. j = k + 1
      BY <3>1, <3>2
    <3> QED BY <3>1, <3>3
  <2>5. \E m \in upto(k + 1) : \A u \in upto(k + 1) : u <= m
    <3>1. CASE k + 1 \in Valid(items) /\ ~(items[k + 1].at <= t)
      <4>1. items[k + 1].at \in upto(k + 1)
        BY <1>1, <3>1
      <4> HIDE DEF upto
      <4> QED BY <1>1, <2>2, <2>4, <3>1, <4>1
    <3>2. CASE ~(k + 1 \in Valid(items) /\ ~(items[k + 1].at <= t))
      <4>1. t \in upto(k + 1)
        BY <1>1, <2>1
      <4> HIDE DEF upto
      <4> QED BY <1>1, <2>2, <2>4, <3>2, <4>1
    <3> QED BY <3>1, <3>2
  <2> HIDE DEF upto
  <2> QED BY <2>3, <2>5
<1>4. Len(items) \in S
  <2> HIDE DEF S
  <2>1. 0..Len(items) \subseteq S
    BY <1>1, <1>2, <1>3, NatUpTo
  <2> QED BY <1>1, <2>1
<1>5. upto(Len(items)) = times
  BY <1>1
<1>6. \E t \in times : \A u \in times : u <= t
  BY <1>4, <1>5
<1>7. Advance(w, items) \in times /\ \A u \in times : u <= Advance(w, items)
  BY <1>6 DEF Advance
<1> QED BY <1>1, <1>7

-----------------------------------------------------------------------------
(* The inductive invariant *)

LEMMA IdleOK == IdleHandler \in HandlerRecord /\ HandlerOK(IdleHandler)
<1>1. IdleHandler \in HandlerRecord
  BY DEF IdleHandler, HandlerRecord, HandlerPC, Exceptions, Statuses
<1>2. HandlerOK(IdleHandler)
  BY FS_EmptySet DEF IdleHandler, HandlerOK, InTransaction
<1> QED BY <1>1, <1>2

\* The invariant holds when the service starts.
LEMMA InitIInv == Init => IInv
<1> SUFFICES ASSUME Init PROVE IInv
  OBVIOUS
<1>1. hs \in [Handler -> HandlerRecord] /\ \A h \in Handler : HandlerOK(hs[h])
  BY IdleOK DEF Init
<1>2. TypeOK
  BY <1>1 DEF Init, TypeOK, AppRecord, StoppedApp, PollRecord, IdlePoll
<1>3. KeysExclusive /\ BatchKeysExclusive
  BY DEF Init, KeysExclusive, BatchKeysExclusive, Ids, IdleHandler
<1>4. LedgerExplainsRows
  BY DEF Init, LedgerExplainsRows, Ids
<1>5. WatermarkBacked
  BY DEF Init, WatermarkBacked, StoppedApp
<1> QED BY <1>1, <1>2, <1>3, <1>4, <1>5 DEF IInv

\* The part of the invariant about the handlers and the tables.
StoreInv ==
  /\ rows \subseteq Event
  /\ heard \subseteq Event
  /\ ledger \subseteq [batch : BatchId, accepted : SUBSET EventId]
  /\ hs \in [Handler -> HandlerRecord]
  /\ KeysExclusive
  /\ LedgerExplainsRows
  /\ BatchKeysExclusive
  /\ \A h \in Handler : HandlerOK(hs[h])

\* The part about AppState and the health probes.
AppInv ==
  /\ dbUp \in BOOLEAN
  /\ app \in [Proc -> AppRecord]
  /\ poll \in [Poller -> PollRecord]
  /\ WatermarkBacked

LEMMA IInvParts == IInv <=> StoreInv /\ AppInv
BY DEF IInv, TypeOK, StoreInv, AppInv

\* A step that leaves the tables alone, in which every handler stays as it
\* is or ends up outside a transaction with nothing pending.
LEMMA ReleaseStep ==
  ASSUME StoreInv, UNCHANGED <<rows, heard, ledger>>,
         hs' \in [Handler -> HandlerRecord],
         \A g \in Handler : \/ hs'[g] = hs[g]
                            \/ /\ hs'[g].pending = {}
                               /\ hs'[g].pc # "commit"
                               /\ HandlerOK(hs'[g])
  PROVE  StoreInv'
<1>1. KeysExclusive'
  <2>1. \A g \in Handler : Ids(hs'[g].pending) \subseteq Ids(hs[g].pending)
    BY DEF Ids
  <2>2. \A g \in Handler : hs'[g].pending \subseteq hs[g].pending
    OBVIOUS
  <2>3. KeysExclusive /\ rows' = rows
    BY DEF StoreInv
  <2>4. Ids(rows)' = Ids(rows)
    BY DEF Ids
  <2>5. \A g \in Handler : Ids(hs[g].pending)' = Ids(hs'[g].pending)
    BY DEF Ids
  <2> QED BY <2>1, <2>2, <2>3, <2>4, <2>5 DEF KeysExclusive
<1>2. BatchKeysExclusive'
  BY DEF StoreInv, BatchKeysExclusive
<1>3. \A g \in Handler : HandlerOK(hs[g])'
  BY DEF StoreInv, HandlerOK, Covered, Stored, Ids
<1>4. LedgerExplainsRows'
  BY DEF StoreInv, LedgerExplainsRows, Ids
<1> QED BY <1>1, <1>2, <1>3, <1>4 DEF StoreInv

\* One handler leaves its transaction, or never had one.
LEMMA ReleaseOne ==
  ASSUME StoreInv, UNCHANGED <<rows, heard, ledger>>, NEW h \in Handler,
         NEW r \in HandlerRecord, hs' = [hs EXCEPT ![h] = r],
         r.pending = {}, r.pc # "commit", HandlerOK(r)
  PROVE  StoreInv'
<1>1. hs \in [Handler -> HandlerRecord]
  BY DEF StoreInv
<1>2. hs' \in [Handler -> HandlerRecord] /\ hs'[h] = r
  BY <1>1
<1>3. \A g \in Handler : g # h => hs'[g] = hs[g]
  BY <1>1
<1> QED BY <1>2, <1>3, ReleaseStep

\* What is known of the state of one handler.
LEMMA HandlerType ==
  ASSUME StoreInv, NEW h \in Handler
  PROVE  hs[h] \in HandlerRecord /\ HandlerOK(hs[h])
BY DEF StoreInv

\* A handler that answers with an error keeps nothing.
LEMMA RefusedOK ==
  ASSUME NEW r \in HandlerRecord, r.batch \in BatchId, r.toInsert \subseteq DOMAIN r.items,
         NEW status \in Statuses \ {200}
  PROVE  /\ Refused(r, status) \in HandlerRecord
         /\ HandlerOK(Refused(r, status))
         /\ Refused(r, status).pending = {}
         /\ Refused(r, status).pc = "reply"
<1> DEFINE n == Refused(r, status)
<1>1. /\ n.pc = "reply" /\ n.status = status /\ n.pending = {} /\ n.batch = r.batch
      /\ n.items = r.items /\ n.toInsert = r.toInsert
  BY DEF HandlerRecord, Refused
<1>2. n \in HandlerRecord
  BY DEF HandlerRecord, HandlerPC, Refused
<1>3. IsFiniteSet({})
  BY FS_EmptySet
<1>4. HandlerOK(n)
  <2> HIDE DEF n
  <2> QED BY <1>1, <1>3 DEF HandlerOK, InTransaction
<1> QED BY <1>1, <1>2, <1>4

\* A transaction that an error ends has released its keys.
LEMMA BrokenOK ==
  ASSUME NEW r \in HandlerRecord, r.batch \in BatchId, r.toInsert \subseteq DOMAIN r.items,
         NEW exc \in Exceptions
  PROVE  /\ Broken(r, exc) \in HandlerRecord
         /\ HandlerOK(Broken(r, exc))
         /\ Broken(r, exc).pending = {}
         /\ Broken(r, exc).pc = "broken"
<1> DEFINE n == Broken(r, exc)
<1>1. /\ n.pc = "broken" /\ n.pending = {} /\ n.batch = r.batch
      /\ n.items = r.items /\ n.toInsert = r.toInsert
  BY DEF HandlerRecord, Broken
<1>2. n \in HandlerRecord
  BY DEF HandlerRecord, HandlerPC, Broken
<1>3. IsFiniteSet({})
  BY FS_EmptySet
<1>4. HandlerOK(n)
  <2> HIDE DEF n
  <2> QED BY <1>1, <1>3 DEF HandlerOK, InTransaction
<1> QED BY <1>1, <1>2, <1>4

\* A request arrives: nothing is known of it yet.
LEMMA ReceiveStep ==
  ASSUME StoreInv, NEW h \in Handler, NEW b \in BatchId, NEW items \in Request,
         Receive(h, b, items)
  PROVE  StoreInv'
<1> DEFINE n == Validated(b, items)
<1>1. UNCHANGED <<rows, heard, ledger>>
  BY DEF Receive
<1>2. /\ n \in HandlerRecord /\ n.pc = "find" /\ n.pending = {}
      /\ n.toInsert = {} /\ n.batch = b
  <2>1. IdleHandler \in HandlerRecord
    BY IdleOK
  <2>2. n \in HandlerRecord
    BY <2>1 DEF Validated, HandlerRecord, HandlerPC
  <2> QED BY <2>2 DEF Validated, IdleHandler
<1>3. hs' = [hs EXCEPT ![h] = n] \/ \E status \in {422, 503} :
        hs' = [hs EXCEPT ![h] = Refused(n, status)]
  BY DEF Receive, Gate, RefuseSize
<1> HIDE DEF n
<1>4. HandlerOK(n)
  BY <1>2, FS_EmptySet DEF HandlerOK, InTransaction
<1>5. CASE hs' = [hs EXCEPT ![h] = n]
  BY <1>1, <1>2, <1>4, <1>5, ReleaseOne
<1>6. ASSUME NEW status \in {422, 503}, hs' = [hs EXCEPT ![h] = Refused(n, status)]
      PROVE  StoreInv'
  <2>1. status \in Statuses \ {200}
    BY DEF Statuses
  <2>2. /\ Refused(n, status) \in HandlerRecord /\ HandlerOK(Refused(n, status))
        /\ Refused(n, status).pending = {} /\ Refused(n, status).pc = "reply"
    BY <1>2, <2>1, RefusedOK
  <2> QED BY <1>1, <1>6, <2>2, ReleaseOne
<1> QED BY <1>3, <1>5, <1>6

\* The SELECT of find_existing_ids: whatever it missed is on the list.
LEMMA FindExistingStep ==
  ASSUME StoreInv, NEW h \in Handler, FindExisting(h)
  PROVE  StoreInv'
<1> DEFINE r == hs[h]
           new == ToInsert(r.items, Ids(rows))
           count == Cardinality(Valid(r.items)) - Cardinality(new)
           n == [r EXCEPT !.pc = "insert", !.toInsert = new, !.todo = new,
                          !.dups = count]
<1>1. r \in HandlerRecord /\ HandlerOK(r) /\ r.pc = "find"
  BY HandlerType DEF FindExisting
<1>2. r.items \in Request \cup {<<>>} /\ r.pending = {} /\ r.batch \in BatchId
  BY <1>1 DEF HandlerRecord, HandlerOK, InTransaction
<1>3. new \subseteq Valid(r.items)
  BY DEF ToInsert, FirstCopies
<1>4. new \subseteq DOMAIN r.items /\ new \subseteq Nat
  BY <1>2, <1>3, RequestItems
<1>5. count \in Int
  <2>1. IsFiniteSet(Valid(r.items))
    BY <1>2, RequestItems
  <2>2. IsFiniteSet(new)
    BY <1>3, <2>1, FS_Subset
  <2>3. Cardinality(Valid(r.items)) \in Nat /\ Cardinality(new) \in Nat
    BY <2>1, <2>2, FS_CardinalityType
  <2> QED BY <2>3
<1>6. \A i \in Valid(r.items) :
        r.items[i].id \in Ids(rows) \/ \E j \in new : r.items[j].id = r.items[i].id
  <2> SUFFICES ASSUME NEW i \in Valid(r.items), r.items[i].id \notin Ids(rows)
               PROVE  \E j \in new : r.items[j].id = r.items[i].id
    OBVIOUS
  <2>1. PICK j \in FirstCopies(r.items) : r.items[j].id = r.items[i].id
    BY <1>2, FirstCopyExists
  <2>2. j \in new
    BY <2>1 DEF ToInsert
  <2> QED BY <2>1, <2>2
<1>7. UNCHANGED <<rows, heard, ledger>> /\ hs' = [hs EXCEPT ![h] = n]
  BY DEF FindExisting
<1> HIDE DEF new, count
<1>8. /\ n.pc = "insert" /\ n.pending = {} /\ n.toInsert = new /\ n.todo = new
      /\ n.items = r.items /\ n.batch = r.batch
  BY <1>1, <1>2 DEF HandlerRecord
<1>9. n \in HandlerRecord
  BY <1>1, <1>4, <1>5 DEF HandlerRecord, HandlerPC
<1> HIDE DEF n
<1>10. HandlerOK(n)
  <2>1. Covered(n)
    BY <1>6, <1>8 DEF Covered
  <2>2. IsFiniteSet(n.pending)
    BY <1>8, FS_EmptySet
  <2> QED BY <1>2, <1>3, <1>4, <1>8, <2>1, <2>2 DEF HandlerOK, InTransaction
<1> QED BY <1>7, <1>8, <1>9, <1>10, ReleaseOne

\* The error paths: a refused SELECT, the except clause of the transaction.
LEMMA RefusedStep ==
  ASSUME StoreInv, NEW h \in Handler, FindFails(h) \/ Fail(h)
  PROVE  StoreInv'
<1>1. hs[h] \in HandlerRecord /\ HandlerOK(hs[h]) /\ hs[h].pc \in {"find", "broken"}
  BY HandlerType DEF FindFails, Fail
<1>2. hs[h].batch \in BatchId /\ hs[h].toInsert \subseteq DOMAIN hs[h].items
  BY <1>1 DEF HandlerOK
<1>3. PICK status \in Statuses \ {200} : hs' = [hs EXCEPT ![h] = Refused(hs[h], status)]
  BY DEF FindFails, Fail, Statuses
<1>4. UNCHANGED <<rows, heard, ledger>>
  BY DEF FindFails, Fail
<1>5. /\ Refused(hs[h], status) \in HandlerRecord /\ HandlerOK(Refused(hs[h], status))
      /\ Refused(hs[h], status).pending = {} /\ Refused(hs[h], status).pc = "reply"
  BY <1>1, <1>2, RefusedOK
<1> QED BY <1>3, <1>4, <1>5, ReleaseOne

\* The response leaves.
LEMMA RespondStep ==
  ASSUME StoreInv, NEW h \in Handler, Respond(h)
  PROVE  StoreInv'
<1>1. UNCHANGED <<rows, heard, ledger>> /\ hs' = [hs EXCEPT ![h] = IdleHandler]
  BY DEF Respond
<1>2. IdleHandler.pending = {} /\ IdleHandler.pc # "commit"
  BY DEF IdleHandler
<1> QED BY <1>1, <1>2, IdleOK, ReleaseOne

\* A 200 is built from a commit that stored every valid event.
LEMMA FinishStep ==
  ASSUME StoreInv, NEW h \in Handler, Finish(h)
  PROVE  StoreInv'
<1> DEFINE n == [hs[h] EXCEPT !.pc = "reply", !.status = 200]
<1>1. hs[h] \in HandlerRecord /\ HandlerOK(hs[h]) /\ hs[h].pc = "committed"
  BY HandlerType DEF Finish
<1>2. UNCHANGED <<rows, heard, ledger>>
  BY DEF Finish
<1>3. hs' = [hs EXCEPT ![h] = n]
  BY HandlerType DEF Finish, StoreInv
<1>4. n \in HandlerRecord
  <2>1. "reply" \in HandlerPC /\ 200 \in Statuses
    BY DEF HandlerPC, Statuses
  <2> QED BY <1>1, <2>1 DEF HandlerRecord
<1>5. /\ n.pc = "reply" /\ n.pending = {} /\ n.toInsert = hs[h].toInsert
      /\ n.items = hs[h].items /\ n.batch = hs[h].batch
  BY <1>1 DEF HandlerRecord, HandlerOK, InTransaction
<1> HIDE DEF n
<1>6. HandlerOK(n)
  BY <1>1, <1>5, FS_EmptySet DEF HandlerOK, InTransaction, Stored
<1> QED BY <1>2, <1>3, <1>4, <1>5, <1>6, ReleaseOne

\* The server ends a transaction, or the handler loses its connection.
LEMMA BrokenStep ==
  ASSUME StoreInv, NEW h \in Handler, NEW exc \in Exceptions, hs[h].pc # "idle",
         UNCHANGED <<rows, heard, ledger>>, hs' = [hs EXCEPT ![h] = Broken(hs[h], exc)]
  PROVE  StoreInv'
<1>1. hs[h] \in HandlerRecord /\ HandlerOK(hs[h])
  BY HandlerType
<1>2. hs[h].batch \in BatchId /\ hs[h].toInsert \subseteq DOMAIN hs[h].items
  BY <1>1 DEF HandlerOK
<1>3. /\ Broken(hs[h], exc) \in HandlerRecord /\ HandlerOK(Broken(hs[h], exc))
      /\ Broken(hs[h], exc).pending = {} /\ Broken(hs[h], exc).pc = "broken"
  BY <1>1, <1>2, BrokenOK
<1> QED BY <1>3, ReleaseOne

\* ON CONFLICT DO NOTHING: the row is added under a key that nobody has, or
\* it is skipped and its id is stored or pending already.
LEMMA InsertRowStep ==
  ASSUME StoreInv, NEW h \in Handler, InsertRow(h)
  PROVE  StoreInv'
<1> DEFINE r == hs[h]
           i == NextRow(r)
           e == r.items[i]
           added == IF e.id \in Ids(rows \cup r.pending) THEN {} ELSE {e}
           n == [r EXCEPT !.todo = @ \ {i}, !.pending = @ \cup added]
<1>1. r \in HandlerRecord /\ HandlerOK(r) /\ r.pc = "insert" /\ r.todo # {}
  BY HandlerType DEF InsertRow
<1>2. hs' = [hs EXCEPT ![h] = n] /\ UNCHANGED <<rows, heard, ledger>>
  BY HandlerType DEF InsertRow, StoreInv
<1>3. /\ r.items \in Request \cup {<<>>} /\ r.todo \subseteq Nat
      /\ r.todo \subseteq Valid(r.items) /\ Covered(r) /\ IsFiniteSet(r.pending)
      /\ r.batch \in BatchId /\ r.toInsert \subseteq DOMAIN r.items
      /\ r.pending \subseteq Event
  BY <1>1 DEF HandlerRecord, HandlerOK
<1>4. i \in r.todo
  BY <1>1, <1>3, NextRowInTodo
<1>5. e \in Event /\ added \subseteq {e}
  BY <1>3, <1>4, RequestItems
<1>6. \A g \in Handler \ {h} : e.id \notin Ids(hs[g].pending)
  BY <1>1 DEF InsertRow, Blocked, WaitsFor
<1>7. e.id \in Ids(rows) \/ e.id \in Ids(r.pending \cup added)
  BY DEF Ids
<1>8. added # {} => e.id \notin Ids(rows) /\ e.id \notin Ids(r.pending)
  BY DEF Ids
<1> HIDE DEF added
<1>9. /\ n.pc = "insert" /\ n.batch = r.batch /\ n.items = r.items
      /\ n.toInsert = r.toInsert /\ n.todo = r.todo \ {i}
      /\ n.pending = r.pending \cup added
  BY <1>1 DEF HandlerRecord
<1>10. n \in HandlerRecord
  BY <1>1, <1>5 DEF HandlerRecord
<1> HIDE DEF n, i
<1>11. HandlerOK(n)
  <2>1. IsFiniteSet(n.pending)
    <3>1. IsFiniteSet({e})
      BY FS_Singleton
    <3>2. IsFiniteSet(added)
      BY <1>5, <3>1, FS_Subset
    <3>3. IsFiniteSet(r.pending)
      BY <1>3
    <3>4. IsFiniteSet(r.pending \cup added)
      BY <3>2, <3>3, FS_Union
    <3> QED BY <1>9, <3>4
  <2>2. Covered(n)
    BY <1>3, <1>7, <1>9 DEF Covered, Ids
  <2> QED BY <1>3, <1>9, <2>1, <2>2 DEF HandlerOK, InTransaction
<1>12. hs \in [Handler -> HandlerRecord]
  BY DEF StoreInv
<1>13. hs' \in [Handler -> HandlerRecord] /\ hs'[h] = n
       /\ \A g \in Handler : g # h => hs'[g] = hs[g]
  BY <1>2, <1>10, <1>12
<1>14. KeysExclusive'
  <2>1. \A d, f \in n.pending : d.id = f.id => d = f
    BY <1>5, <1>8, <1>9 DEF StoreInv, KeysExclusive, Ids
  <2>2. Ids(n.pending) \cap Ids(rows) = {}
    BY <1>5, <1>8, <1>9 DEF StoreInv, KeysExclusive, Ids
  <2>3. \A g \in Handler \ {h} : Ids(hs[g].pending) \cap Ids(n.pending) = {}
    BY <1>5, <1>6, <1>9 DEF StoreInv, KeysExclusive, Ids
  <2>4. KeysExclusive
    BY DEF StoreInv
  <2> QED BY <1>2, <1>13, <2>1, <2>2, <2>3, <2>4 DEF KeysExclusive, Ids
<1>15. BatchKeysExclusive'
  BY <1>9, <1>13 DEF StoreInv, BatchKeysExclusive
<1>16. \A g \in Handler : HandlerOK(hs[g])'
  BY <1>2, <1>11, <1>13 DEF StoreInv, HandlerOK, Covered, Stored, Ids
<1>17. LedgerExplainsRows'
  BY <1>2 DEF StoreInv, LedgerExplainsRows, Ids
<1> QED BY <1>2, <1>13, <1>14, <1>15, <1>16, <1>17 DEF StoreInv

\* The batch row: its key is free, and stays with this transaction.
LEMMA RecordBatchStep ==
  ASSUME StoreInv, NEW h \in Handler, RecordBatch(h)
  PROVE  StoreInv'
<1> DEFINE r == hs[h]
           count == r.dups + Cardinality(r.toInsert) - Cardinality(r.pending)
           n == [r EXCEPT !.pc = "commit", !.accepted = Ids(r.pending), !.dups = count]
<1>1. r \in HandlerRecord /\ HandlerOK(r) /\ r.pc = "insert" /\ r.todo = {}
  BY HandlerType DEF RecordBatch
<1>2. UNCHANGED <<rows, heard, ledger>>
  BY DEF RecordBatch
<1>3. CASE \E entry \in ledger : entry.batch = r.batch
  <2>1. hs' = [hs EXCEPT ![h] = Broken(hs[h], "IntegrityError")]
    BY <1>3 DEF RecordBatch
  <2>2. "IntegrityError" \in Exceptions
    BY DEF Exceptions
  <2> QED BY <1>1, <1>2, <2>1, <2>2, BrokenStep
<1>4. CASE ~ \E entry \in ledger : entry.batch = r.batch
  <2>1. hs' = [hs EXCEPT ![h] = n]
    <3>1. hs' = [hs EXCEPT ![h] = IF \E entry \in ledger : entry.batch = r.batch
                                  THEN Broken(r, "IntegrityError") ELSE n]
      BY DEF RecordBatch
    <3> QED BY <1>4, <3>1
  <2>2. /\ r.items \in Request \cup {<<>>} /\ Covered(r) /\ IsFiniteSet(r.pending)
        /\ r.batch \in BatchId /\ r.toInsert \subseteq DOMAIN r.items
        /\ r.pending \subseteq Event /\ r.dups \in Int
    BY <1>1 DEF HandlerRecord, HandlerOK
  <2>3. count \in Int
    <3>1. IsFiniteSet(DOMAIN r.items)
      BY <2>2, RequestItems, FS_Interval
    <3>2. IsFiniteSet(r.toInsert)
      BY <2>2, <3>1, FS_Subset
    <3>3. Cardinality(r.toInsert) \in Nat
      BY <3>2, FS_CardinalityType
    <3>4. Cardinality(r.pending) \in Nat
      BY <2>2, FS_CardinalityType
    <3> QED BY <2>2, <3>3, <3>4
  <2>4. Ids(r.pending) \subseteq EventId
    BY <2>2 DEF Ids, Event
  <2> HIDE DEF count
  <2>5. /\ n.pc = "commit" /\ n.batch = r.batch /\ n.items = r.items /\ n.todo = {}
        /\ n.toInsert = r.toInsert /\ n.pending = r.pending
        /\ n.accepted = Ids(r.pending)
    BY <1>1 DEF HandlerRecord
  <2>6. n \in HandlerRecord
    <3>1. "commit" \in HandlerPC
      BY DEF HandlerPC
    <3> QED BY <1>1, <2>3, <2>4, <3>1 DEF HandlerRecord
  <2> HIDE DEF n
  <2>7. HandlerOK(n)
    BY <1>1, <1>4, <2>2, <2>5 DEF HandlerOK, InTransaction, Covered
  <2>8. hs \in [Handler -> HandlerRecord]
    BY DEF StoreInv
  <2>9. hs' \in [Handler -> HandlerRecord] /\ hs'[h] = n
        /\ \A g \in Handler : g # h => hs'[g] = hs[g]
    BY <2>1, <2>6, <2>8
  <2>10. KeysExclusive'
    <3>1. \A g \in Handler : hs'[g].pending = hs[g].pending
      BY <2>5, <2>9
    <3> QED BY <1>2, <3>1 DEF StoreInv, KeysExclusive, Ids
  <2>11. \A g \in Handler \ {h} : hs[g].pc = "commit" => hs[g].batch # r.batch
    BY <1>1 DEF RecordBatch, Blocked, WaitsFor
  <2>12. BatchKeysExclusive'
    BY <2>5, <2>9, <2>11 DEF StoreInv, BatchKeysExclusive
  <2>13. \A g \in Handler : HandlerOK(hs[g])'
    BY <1>2, <2>7, <2>9 DEF StoreInv, HandlerOK, Covered, Stored, Ids
  <2>14. LedgerExplainsRows'
    BY <1>2 DEF StoreInv, LedgerExplainsRows, Ids
  <2> QED BY <1>2, <2>9, <2>10, <2>12, <2>13, <2>14 DEF StoreInv
<1> QED BY <1>3, <1>4

\* The commit: the pending rows and the batch row appear together.
LEMMA CommitStep ==
  ASSUME StoreInv, NEW h \in Handler, Commit(h)
  PROVE  StoreInv'
<1> DEFINE r == hs[h]
           entry == [batch |-> r.batch, accepted |-> r.accepted]
           n == [r EXCEPT !.pc = "committed", !.pending = {}]
<1>1. r \in HandlerRecord /\ HandlerOK(r) /\ r.pc = "commit"
  BY HandlerType DEF Commit
<1>2. hs \in [Handler -> HandlerRecord]
  BY DEF StoreInv
<1>3. /\ rows' = rows \cup r.pending /\ ledger' = ledger \cup {entry}
      /\ heard' = heard \cup {r.items[i] : i \in Valid(r.items)}
      /\ hs' = [hs EXCEPT ![h] = n]
  BY <1>2 DEF Commit
<1>4. /\ r.pending \subseteq Event /\ r.accepted = Ids(r.pending) /\ r.todo = {}
      /\ r.batch \in BatchId /\ r.accepted \subseteq EventId /\ Covered(r)
      /\ r.toInsert \subseteq DOMAIN r.items /\ \A x \in ledger : x.batch # r.batch
  BY <1>1 DEF HandlerRecord, HandlerOK
<1>5. entry \in [batch : BatchId, accepted : SUBSET EventId]
      /\ entry.batch = r.batch /\ entry.accepted = Ids(r.pending)
  BY <1>4
<1> HIDE DEF entry
<1>6. /\ n.pc = "committed" /\ n.batch = r.batch /\ n.items = r.items
      /\ n.toInsert = r.toInsert /\ n.pending = {}
  BY <1>1 DEF HandlerRecord
<1>7. n \in HandlerRecord
  <2>1. "committed" \in HandlerPC
    BY DEF HandlerPC
  <2> QED BY <1>1, <2>1 DEF HandlerRecord
<1> HIDE DEF n
<1>8. hs' \in [Handler -> HandlerRecord] /\ hs'[h] = n
      /\ \A g \in Handler : g # h => hs'[g] = hs[g]
  BY <1>2, <1>3, <1>7
<1>9. Ids(rows)' = Ids(rows) \cup Ids(r.pending)
  BY <1>3 DEF Ids
<1>10. KeysExclusive /\ LedgerExplainsRows /\ BatchKeysExclusive
  BY DEF StoreInv
<1>11. KeysExclusive'
  <2>1. \A d, e \in rows \cup r.pending : d.id = e.id => d = e
    BY <1>10 DEF KeysExclusive, Ids
  <2>2. \A g \in Handler : \A d, e \in hs'[g].pending : d.id = e.id => d = e
    BY <1>6, <1>8, <1>10 DEF KeysExclusive
  <2>3. \A g \in Handler : Ids(hs'[g].pending) \cap (Ids(rows) \cup Ids(r.pending)) = {}
    BY <1>6, <1>8, <1>10 DEF KeysExclusive, Ids
  <2>4. \A g, k \in Handler : g # k => Ids(hs'[g].pending) \cap Ids(hs'[k].pending) = {}
    BY <1>6, <1>8, <1>10 DEF KeysExclusive, Ids
  <2> QED BY <1>3, <1>9, <2>1, <2>2, <2>3, <2>4 DEF KeysExclusive, Ids
<1>12. BatchKeysExclusive'
  BY <1>6, <1>8, <1>10 DEF BatchKeysExclusive
<1>13. LedgerExplainsRows'
  <2>1. \A id : (\E x \in ledger' : id \in x.accepted)
                <=> (\E x \in ledger : id \in x.accepted) \/ id \in Ids(r.pending)
    BY <1>3, <1>5
  <2>2. Ids(r.pending) \cap Ids(rows) = {}
    BY <1>10 DEF KeysExclusive
  <2>3. \A x \in ledger : x.accepted \subseteq Ids(rows)
    BY <1>10 DEF LedgerExplainsRows
  <2>4. \A d, x \in ledger' : d # x => d.batch # x.batch /\ d.accepted \cap x.accepted = {}
    BY <1>3, <1>4, <1>5, <1>10, <2>2, <2>3 DEF LedgerExplainsRows
  <2>5. \A id : id \in Ids(rows) <=> \E x \in ledger : id \in x.accepted
    BY <1>10 DEF LedgerExplainsRows
  <2>6. \A id : id \in Ids(rows)' <=> \E x \in ledger' : id \in x.accepted
    BY <1>9, <2>1, <2>5
  <2>7. Ids(rows)' = UNION {x.accepted : x \in ledger'}
    <3> DEFINE I == Ids(rows)'
               L == ledger'
    <3>1. \A id : id \in I <=> \E x \in L : id \in x.accepted
      BY <2>6
    <3> HIDE DEF I, L
    <3>2. I = UNION {x.accepted : x \in L}
      BY <3>1
    <3> QED BY <3>2 DEF I, L
  <2> QED BY <2>4, <2>7 DEF LedgerExplainsRows
<1>14. HandlerOK(hs[h])'
  <2>1. Stored(hs[h])'
    BY <1>4, <1>6, <1>8, <1>9 DEF Covered, Stored
  <2>2. \A i \in Valid(n.items) : n.items[i] \in heard'
    BY <1>3, <1>6
  <2> QED BY <1>4, <1>6, <1>8, <2>1, <2>2, FS_EmptySet DEF HandlerOK, InTransaction
<1>15. \A g \in Handler : HandlerOK(hs[g])'
  <2> SUFFICES ASSUME NEW g \in Handler, g # h PROVE HandlerOK(hs[g])'
    BY <1>14
  <2>1. hs'[g] = hs[g] /\ HandlerOK(hs[g])
    BY <1>8, HandlerType
  <2>2. hs[g].pc = "commit" => hs[g].batch # r.batch
    BY <1>1, <1>10 DEF BatchKeysExclusive
  <2>3. Covered(hs[g]) => Covered(hs[g])'
    BY <1>9, <2>1 DEF Covered, Ids
  <2>4. Stored(hs[g]) => Stored(hs[g])'
    BY <1>9, <2>1 DEF Stored
  <2>5. heard \subseteq heard'
    BY <1>3
  <2> QED BY <1>3, <1>5, <2>1, <2>2, <2>3, <2>4, <2>5 DEF HandlerOK, Ids
<1>16. heard' \subseteq Event
  <2>1. r.items \in Request \cup {<<>>} /\ heard \subseteq Event
    BY <1>1 DEF HandlerRecord, StoreInv
  <2> QED BY <1>3, <2>1, RequestItems
<1> QED BY <1>3, <1>4, <1>5, <1>8, <1>11, <1>12, <1>13, <1>15, <1>16 DEF StoreInv

\* An outage breaks every open transaction at once.
LEMMA DbDownStep == ASSUME StoreInv, DbDown PROVE StoreInv'
<1>1. hs \in [Handler -> HandlerRecord] /\ UNCHANGED <<rows, heard, ledger>>
  BY DEF StoreInv, DbDown
<1>2. ASSUME NEW g \in Handler
      PROVE  /\ hs'[g] \in HandlerRecord
             /\ \/ hs'[g] = hs[g]
                \/ hs'[g].pending = {} /\ hs'[g].pc # "commit" /\ HandlerOK(hs'[g])
  <2>1. CASE hs[g].pc \in InTransaction
    <3>1. hs'[g] = Broken(hs[g], "ConnectionLost")
      BY <2>1 DEF DbDown
    <3>2. hs[g] \in HandlerRecord /\ hs[g].batch \in BatchId
          /\ hs[g].toInsert \subseteq DOMAIN hs[g].items
      BY <2>1, HandlerType DEF HandlerOK, InTransaction
    <3>3. "ConnectionLost" \in Exceptions
      BY DEF Exceptions
    <3>4. /\ Broken(hs[g], "ConnectionLost") \in HandlerRecord
          /\ HandlerOK(Broken(hs[g], "ConnectionLost"))
          /\ Broken(hs[g], "ConnectionLost").pending = {}
          /\ Broken(hs[g], "ConnectionLost").pc = "broken"
      BY <3>2, <3>3, BrokenOK
    <3> QED BY <3>1, <3>4
  <2>2. CASE hs[g].pc \notin InTransaction
    <3>1. hs'[g] = hs[g]
      BY <2>2 DEF DbDown
    <3> QED BY <3>1, HandlerType
  <2> QED BY <2>1, <2>2
<1>3. hs' \in [Handler -> HandlerRecord]
  <2>1. hs' = [g \in Handler |-> hs'[g]]
    BY DEF DbDown
  <2> QED BY <1>2, <2>1
<1> QED BY <1>1, <1>2, <1>3, ReleaseStep

\* A crash empties every slot of the process.
LEMMA CrashStep == ASSUME StoreInv, NEW p \in Proc, Crash(p) PROVE StoreInv'
<1>1. hs \in [Handler -> HandlerRecord] /\ UNCHANGED <<rows, heard, ledger>>
  BY DEF StoreInv, Crash
<1>2. hs' = [h \in Handler |-> IF ProcOf[h] = p THEN IdleHandler ELSE hs[h]]
  BY DEF Crash
<1>3. IdleHandler.pending = {} /\ IdleHandler.pc # "commit"
  BY DEF IdleHandler
<1>4. hs' \in [Handler -> HandlerRecord]
  BY <1>1, <1>2, IdleOK
<1>5. \A g \in Handler : hs'[g] = hs[g] \/ hs'[g] = IdleHandler
  BY <1>2
<1> QED BY <1>1, <1>3, <1>4, <1>5, IdleOK, ReleaseStep

\* A step that touches neither the handlers nor the tables.
LEMMA OtherStep == ASSUME StoreInv, UNCHANGED <<rows, heard, ledger, hs>> PROVE StoreInv'
BY ReleaseStep DEF StoreInv

\* Every step of the service preserves the part about handlers and tables.
LEMMA StoreInvStep == ASSUME StoreInv, [Next]_vars PROVE StoreInv'
<1>1. ASSUME NEW h \in Handler, NEW b \in BatchId, NEW items \in Request,
             Receive(h, b, items)
      PROVE  StoreInv'
  BY <1>1, ReceiveStep
<1>2. ASSUME NEW h \in Handler, HandlerStep(h) PROVE StoreInv'
  BY <1>2, FindExistingStep, RefusedStep, InsertRowStep, RecordBatchStep,
     CommitStep, FinishStep, RespondStep DEF HandlerStep
<1>3. ASSUME NEW h \in Handler, DeadlockAbort(h) PROVE StoreInv'
  <2>1. hs[h].pc = "insert"
    BY <1>3 DEF DeadlockAbort, Blocked, WaitsFor
  <2>2. "DeadlockDetected" \in Exceptions
    BY DEF Exceptions
  <2>3. /\ hs' = [hs EXCEPT ![h] = Broken(hs[h], "DeadlockDetected")]
        /\ UNCHANGED <<rows, heard, ledger>>
    BY <1>3 DEF DeadlockAbort
  <2> QED BY <2>1, <2>2, <2>3, BrokenStep
<1>4. ASSUME NEW h \in Handler, LoseConnection(h) PROVE StoreInv'
  <2>1. hs[h].pc # "idle"
    BY <1>4 DEF LoseConnection, InTransaction
  <2>2. "ConnectionLost" \in Exceptions
    BY DEF Exceptions
  <2> QED BY <1>4, <2>1, <2>2, BrokenStep DEF LoseConnection
<1>5. CASE Environment
  <2>1. CASE \E h \in Handler : DeadlockAbort(h)
    BY <1>3, <2>1
  <2>2. CASE ~ \E h \in Handler : DeadlockAbort(h)
    <3>1. UNCHANGED <<rows, heard, ledger, hs>>
      BY <1>5, <2>2 DEF Environment, DbUp, Start, HealthProbe, HealthMark, HealthRequest
    <3> QED BY <3>1, OtherStep
  <2> QED BY <2>1, <2>2
<1>6. CASE Fault
  BY <1>4, <1>6, DbDownStep, CrashStep DEF Fault
<1>7. CASE UNCHANGED vars
  BY <1>7, OtherStep DEF vars
<1> QED BY <1>1, <1>2, <1>5, <1>6, <1>7 DEF Next

-----------------------------------------------------------------------------
(* AppState, and the watermark of each process *)

\* AppState stays well formed whatever a probe reports.
LEMMA MarksType ==
  ASSUME NEW a \in AppRecord
  PROVE  /\ MarkDbUp(a) \in AppRecord /\ MarkDbUp(a).watermark = a.watermark
         /\ MarkDbDown(a) \in AppRecord /\ MarkDbDown(a).watermark = a.watermark
         /\ MarkDbUp(a).running = a.running /\ MarkDbDown(a).running = a.running
BY DEF AppRecord, MarkDbUp, MarkDbDown

\* The rows of the store only grow, and so does what was heard.
LEMMA RowsGrow ==
  ASSUME [Next]_vars PROVE Ids(rows) \subseteq Ids(rows)' /\ heard \subseteq heard'
<1>1. rows \subseteq rows' /\ heard \subseteq heard'
  BY DEF Next, vars, Receive, HandlerStep, FindExisting, FindFails, InsertRow, RecordBatch,
     Commit, Finish, Fail, Respond, Environment, DbUp, DeadlockAbort, Start, HealthProbe,
     HealthMark, HealthRequest, Fault, DbDown, LoseConnection, Crash
<1> QED BY <1>1 DEF Ids

\* Finish is the only step that moves a watermark, and it moves it to the
\* time of an event of the request that was just committed.
LEMMA FinishWatermark ==
  ASSUME StoreInv, AppInv, NEW h \in Handler, Finish(h)
  PROVE  /\ app' \in [Proc -> AppRecord]
         /\ WatermarkBacked'
         /\ \A p \in Proc : app[p].watermark <= app'[p].watermark
<1> DEFINE q == ProcOf[h]
           w == app[q].watermark
           items == hs[h].items
           v == Advance(w, items)
<1>1. q \in Proc
  BY ProcAssumption
<1>2. app \in [Proc -> AppRecord] /\ WatermarkBacked /\ w \in Nat
      /\ \A p \in Proc : app[p].watermark \in Nat
  BY <1>1 DEF AppInv, AppRecord
<1>3. hs[h] \in HandlerRecord /\ HandlerOK(hs[h]) /\ hs[h].pc = "committed"
  BY HandlerType DEF Finish
<1>4. /\ items \in Request \cup {<<>>} /\ Stored(hs[h])
      /\ \A i \in Valid(items) : items[i] \in heard
  BY <1>3 DEF HandlerRecord, HandlerOK
<1>5. v \in Nat /\ w <= v /\ (v = w \/ \E i \in Valid(items) : v = items[i].at)
  BY <1>2, <1>4, AdvanceMax
<1>6. app' = [app EXCEPT ![q].watermark = v] /\ rows' = rows /\ heard' = heard
  BY DEF Finish
<1> HIDE DEF v, q
<1>7. app' \in [Proc -> AppRecord] /\ app'[q].watermark = v
      /\ \A p \in Proc : p # q => app'[p] = app[p]
  BY <1>1, <1>2, <1>5, <1>6 DEF AppRecord
<1>8. v # 0 => \E e \in heard : e.at = v /\ e.id \in Ids(rows)
  <2>1. CASE v = w
    BY <1>1, <1>2, <2>1 DEF WatermarkBacked, q
  <2>2. ASSUME NEW i \in Valid(items), v = items[i].at
        PROVE  \E e \in heard : e.at = v /\ e.id \in Ids(rows)
    BY <1>4, <2>2 DEF Stored
  <2> QED BY <1>5, <2>1, <2>2
<1>9. WatermarkBacked'
  BY <1>2, <1>6, <1>7, <1>8 DEF WatermarkBacked, Ids
<1>10. \A p \in Proc : app[p].watermark <= app'[p].watermark
  BY <1>1, <1>2, <1>5, <1>7 DEF q
<1> QED BY <1>7, <1>9, <1>10

\* What every other step does to AppState: it keeps the watermark of a
\* process that stays alive, and a process that stops or starts has none.
LEMMA OtherApp ==
  ASSUME AppInv, [Next]_vars, ~ \E h \in Handler : Finish(h)
  PROVE  /\ app' \in [Proc -> AppRecord]
         /\ \A p \in Proc : \/ app'[p].watermark = app[p].watermark
                            \/ /\ app'[p].watermark = 0
                               /\ ~(app[p].running /\ app'[p].running)
<1>1. app \in [Proc -> AppRecord] /\ poll \in [Poller -> PollRecord]
  BY DEF AppInv
<1>2. CASE app' = app
  BY <1>1, <1>2
<1>3. ASSUME NEW p \in Proc, Start(p) \/ Crash(p)
      PROVE  /\ app' \in [Proc -> AppRecord]
             /\ app'[p].watermark = 0 /\ ~(app[p].running /\ app'[p].running)
             /\ \A x \in Proc : x # p => app'[x] = app[x]
  <2> DEFINE a == [StoppedApp EXCEPT !.running = TRUE]
  <2>1. StoppedApp \in AppRecord /\ StoppedApp.watermark = 0 /\ ~StoppedApp.running
        /\ a \in AppRecord /\ a.watermark = 0
    BY DEF StoppedApp, AppRecord
  <2>2. PICK n \in AppRecord : /\ app' = [app EXCEPT ![p] = n]
                               /\ n.watermark = 0 /\ ~(app[p].running /\ n.running)
    <3>1. CASE Start(p)
      <4>1. /\ app' = [app EXCEPT ![p] = MarkDbUp(a)] \/ app' = [app EXCEPT ![p] = MarkDbDown(a)]
            /\ ~app[p].running
        BY <3>1 DEF Start
      <4> HIDE DEF a
      <4> QED BY <2>1, <4>1, MarksType
    <3>2. CASE Crash(p)
      BY <2>1, <3>2 DEF Crash
    <3> QED BY <1>3, <3>1, <3>2
  <2> QED BY <1>1, <2>2
<1>4. ASSUME NEW q \in Poller, HealthMark(q)
      PROVE  /\ app' \in [Proc -> AppRecord]
             /\ \A p \in Proc : app'[p].watermark = app[p].watermark
  <2> DEFINE p == poll[q].proc
             n == IF poll[q].ok THEN MarkDbUp(app[p]) ELSE MarkDbDown(app[p])
  <2>1. app' = [app EXCEPT ![p] = n]
    BY <1>4 DEF HealthMark
  <2>2. p \in Proc => n \in AppRecord /\ n.watermark = app[p].watermark
    BY <1>1, MarksType
  <2> HIDE DEF n, p
  <2> QED BY <1>1, <2>1, <2>2
<1>5. \/ app' = app
      \/ \E p \in Proc : Start(p) \/ Crash(p)
      \/ \E q \in Poller : HealthMark(q)
  BY ZenonT(40) DEF Next, vars, Receive, HandlerStep, FindExisting, FindFails, InsertRow, RecordBatch,
     Commit, Fail, Respond, Environment, DbUp, DeadlockAbort, HealthProbe, HealthRequest,
     Fault, DbDown, LoseConnection
<1> QED BY <1>2, <1>3, <1>4, <1>5

\* The part about AppState and probes is preserved by every step.
LEMMA AppInvStep == ASSUME StoreInv, AppInv, [Next]_vars PROVE AppInv'
<1>1. dbUp' \in BOOLEAN
  BY ZenonT(40) DEF AppInv, Next, vars, Receive, HandlerStep, FindExisting, FindFails, InsertRow,
     RecordBatch, Commit, Finish, Fail, Respond, Environment, DbUp, DeadlockAbort, Start,
     HealthProbe, HealthMark, HealthRequest, Fault, DbDown, LoseConnection, Crash
<1>2. poll' \in [Poller -> PollRecord]
  <2>1. poll \in [Poller -> PollRecord] /\ dbUp \in BOOLEAN /\ IdlePoll \in PollRecord
    BY DEF AppInv, IdlePoll, PollRecord
  <2>2. CASE poll' = poll
    BY <2>1, <2>2
  <2>3. ASSUME NEW q \in Poller, NEW p \in Proc, HealthRequest(q, p)
        PROVE  poll' \in [Poller -> PollRecord]
    <3>1. [IdlePoll EXCEPT !.pc = "probe", !.proc = p] \in PollRecord
      BY DEF IdlePoll, PollRecord
    <3> QED BY <2>1, <2>3, <3>1 DEF HealthRequest
  <2>4. ASSUME NEW q \in Poller, HealthProbe(q) PROVE poll' \in [Poller -> PollRecord]
    BY <2>1, <2>4 DEF HealthProbe, PollRecord
  <2>5. ASSUME NEW q \in Poller, HealthMark(q) PROVE poll' \in [Poller -> PollRecord]
    BY <2>1, <2>5 DEF HealthMark
  <2>6. ASSUME NEW p \in Proc, Crash(p) PROVE poll' \in [Poller -> PollRecord]
    BY <2>1, <2>6 DEF Crash
  <2>7. \/ poll' = poll
        \/ \E q \in Poller : HealthProbe(q) \/ HealthMark(q)
        \/ \E q \in Poller, p \in Proc : HealthRequest(q, p)
        \/ \E p \in Proc : Crash(p)
    BY ZenonT(40) DEF Next, vars, Receive, HandlerStep, FindExisting, FindFails, InsertRow,
       RecordBatch, Commit, Finish, Fail, Respond, Environment, DbUp, DeadlockAbort, Start,
       Fault, DbDown, LoseConnection
  <2> QED BY <2>2, <2>3, <2>4, <2>5, <2>6, <2>7
<1>3. CASE \E h \in Handler : Finish(h)
  BY <1>1, <1>2, <1>3, FinishWatermark DEF AppInv
<1>4. CASE ~ \E h \in Handler : Finish(h)
  <2>1. /\ app' \in [Proc -> AppRecord]
        /\ \A p \in Proc : app'[p].watermark = app[p].watermark \/ app'[p].watermark = 0
    BY <1>4, OtherApp
  <2>2. WatermarkBacked'
    BY <2>1, RowsGrow DEF AppInv, WatermarkBacked
  <2> QED BY <1>1, <1>2, <2>1, <2>2 DEF AppInv
<1> QED BY <1>3, <1>4

-----------------------------------------------------------------------------
(* Theorems *)

\* Every step of the service preserves the invariant.
LEMMA NextIInv == ASSUME IInv, [Next]_vars PROVE IInv'
<1>1. StoreInv' /\ AppInv'
  BY IInvParts, StoreInvStep, AppInvStep
<1>2. StoreInv' /\ AppInv' => IInv'
  BY DEF IInv, TypeOK, StoreInv, AppInv
<1> QED BY <1>1, <1>2

\* IInv is an invariant: what a handler has read before an await stays true
\* in the form it needs, however requests, faults and restarts interleave.
THEOREM Invariance == Spec => []IInv
<1>1. IInv /\ [Next]_vars => IInv'
  BY NextIInv
<1> QED BY <1>1, InitIInv, PTL DEF Spec

\* Every reachable state has the declared shape.
THEOREM TypeCorrect == Spec => []TypeOK
<1>1. IInv => TypeOK
  BY DEF IInv
<1> QED BY <1>1, Invariance, PTL

\* No event id is stored twice or is about to be: ON CONFLICT DO NOTHING
\* (repositories.py:66-70) closes the race that the SELECT leaves open.
THEOREM KeysStayExclusive == Spec => []KeysExclusive
<1>1. IInv => KeysExclusive
  BY DEF IInv
<1> QED BY <1>1, Invariance, PTL

\* Every stored row is accepted by exactly one committed batch, and every
\* accepted event is stored (ingestion.py:146-169 is one transaction).
THEOREM EveryRowCountedOnce == Spec => []LedgerExplainsRows
<1>1. IInv => LedgerExplainsRows
  BY DEF IInv
<1> QED BY <1>1, Invariance, PTL

\* A request answered 200 has every one of its valid events stored.
THEOREM AcknowledgedIsStored == Spec => []AckedStored
<1>1. IInv => AckedStored
  BY DEF IInv, HandlerOK, AckedStored
<1> QED BY <1>1, Invariance, PTL

\* The watermark of AppState is the time of an event of a committed request,
\* and the id of that event is stored.
THEOREM WatermarkIsBacked == Spec => []WatermarkBacked
<1>1. IInv => WatermarkBacked
  BY DEF IInv
<1> QED BY <1>1, Invariance, PTL

\* The watermark of a living process never goes back.
THEOREM WatermarkNeverRecedes == Spec => WatermarkMonotone
<1> DEFINE Up == \A p \in Proc : app[p].running /\ app'[p].running =>
                                   app[p].watermark <= app'[p].watermark
<1>1. ASSUME IInv, [Next]_vars PROVE Up
  <2>1. StoreInv /\ AppInv
    BY <1>1, IInvParts
  <2>2. CASE \E h \in Handler : Finish(h)
    BY <2>1, <2>2, FinishWatermark
  <2>3. CASE ~ \E h \in Handler : Finish(h)
    <3>1. \A p \in Proc : app[p].watermark \in Nat
      BY <2>1 DEF AppInv, AppRecord
    <3> QED BY <1>1, <2>1, <2>3, <3>1, OtherApp
  <2> QED BY <2>2, <2>3
<1>2. IInv /\ [Next]_vars => [Up]_vars
  BY <1>1
<1> QED BY <1>2, Invariance, PTL DEF Spec, WatermarkMonotone

\* The service implements the abstract store: a commit appends a whole batch
\* under a new batch id, and no other step changes what is stored.
THEOREM Refinement == Spec => ImplementsEventStore
<1>1. Init => Store!Init
  BY DEF Init, Store!Init
<1>2. IInv /\ [Next]_vars => [Store!Next]_(Store!storeVars)
  <2> SUFFICES ASSUME IInv, [Next]_vars, ~UNCHANGED <<rows, ledger>>
               PROVE  Store!Next
    BY DEF Store!storeVars
  <2>1. PICK h \in Handler : Commit(h)
    BY DEF Next, vars, Receive, HandlerStep, FindExisting, FindFails, InsertRow,
       RecordBatch, Finish, Fail, Respond, Environment, DbUp, DeadlockAbort, Start,
       HealthProbe, HealthMark, HealthRequest, Fault, DbDown, LoseConnection, Crash
  <2>2. StoreInv
    BY IInvParts
  <2>3. hs[h] \in HandlerRecord /\ HandlerOK(hs[h]) /\ hs[h].pc = "commit"
    BY <2>1, <2>2, HandlerType DEF Commit
  <2>4. /\ hs[h].batch \in BatchId /\ hs[h].pending \in SUBSET Event
        /\ hs[h].accepted = Ids(hs[h].pending)
        /\ \A entry \in ledger : entry.batch # hs[h].batch
    BY <2>3 DEF HandlerOK, HandlerRecord
  <2>5. /\ Ids(hs[h].pending) \cap Ids(rows) = {}
        /\ \A d, e \in hs[h].pending : d.id = e.id => d = e
    BY <2>2 DEF StoreInv, KeysExclusive
  <2>6. /\ rows' = rows \cup hs[h].pending
        /\ ledger' = ledger \cup {[batch |-> hs[h].batch, accepted |-> Ids(hs[h].pending)]}
    BY <2>1, <2>4 DEF Commit
  <2>7. Store!Append(hs[h].batch, hs[h].pending)
    BY <2>4, <2>5, <2>6 DEF Store!Append, Store!Ids, Ids
  <2> QED BY <2>4, <2>7 DEF Store!Next, Store!Event, Event
<1> QED BY <1>1, <1>2, Invariance, PTL DEF Spec, ImplementsEventStore, Store!Spec

-----------------------------------------------------------------------------
(* Clients *)

ClientRecord ==
  [pc : {"ready", "waiting", "failed", "done"}, pos : Nat \ {0}, attempt : Nat,
   handler : Handler \cup {"none"}]

\* The handler of a waiting client is busy with the batch the client posted.
Served(c) ==
  client[c].pc = "waiting" =>
    /\ client[c].handler \in Handler
    /\ hs[client[c].handler].pc # "idle"
    /\ hs[client[c].handler].items = File[c][client[c].pos]

\* A client that posts or has posted is within its file.
WithinFile(c) ==
  client[c].pc \in {"ready", "waiting"} => client[c].pos \in DOMAIN File[c]

\* No handler serves two clients.
HandlersApart ==
  \A c, d \in Client :
    c # d /\ client[c].pc = "waiting" /\ client[d].pc = "waiting"
      => client[c].handler # client[d].handler

\* All valid events of the k-th batch of c are stored.
BatchStored(c, k) == \A i \in Valid(File[c][k]) : File[c][k][i].id \in Ids(rows)

DInv ==
  /\ IInv
  /\ client \in [Client -> ClientRecord]
  /\ \A c \in Client : Served(c) /\ WithinFile(c)
  /\ HandlersApart
  /\ \A c \in Client : \A k \in 1..(client[c].pos - 1) : BatchStored(c, k)

-----------------------------------------------------------------------------
(* Files and clients *)

LEMMA Batches ==
  ASSUME NEW c \in Client
  PROVE  /\ Len(File[c]) \in Nat \ {0}
         /\ DOMAIN File[c] = 1..Len(File[c])
         /\ \A k \in DOMAIN File[c] : File[c][k] \in Request
BY FileAssumption

LEMMA IdleClientOK == ASSUME NEW c \in Client PROVE IdleClient \in ClientRecord /\ 1 \in DOMAIN File[c]
BY Batches DEF IdleClient, ClientRecord

LEMMA FailedOK ==
  ASSUME NEW r \in ClientRecord
  PROVE  /\ AttemptFailed(r) \in ClientRecord
         /\ AttemptFailed(r).pc \in {"ready", "failed"}
         /\ AttemptFailed(r).pos = r.pos
<1>1. CASE r.attempt < MaxAttempts
  <2>1. AttemptFailed(r) = [r EXCEPT !.pc = "ready", !.attempt = @ + 1, !.handler = "none"]
    BY <1>1 DEF AttemptFailed
  <2>2. r.attempt + 1 \in Nat
    BY DEF ClientRecord
  <2>. QED
    BY <2>1, <2>2 DEF ClientRecord
<1>2. CASE ~(r.attempt < MaxAttempts)
  BY <1>2 DEF AttemptFailed, ClientRecord
<1>. QED
  BY <1>1, <1>2

LEMMA DoneOK ==
  ASSUME NEW c \in Client, NEW r \in ClientRecord, r.pos \in DOMAIN File[c]
  PROVE  /\ BatchDone(c, r) \in ClientRecord
         /\ BatchDone(c, r).pc \in {"ready", "done"}
         /\ BatchDone(c, r).pos = r.pos + 1
         /\ BatchDone(c, r).pc = "ready" => r.pos + 1 \in DOMAIN File[c]
<1>1. r.pos \in Nat \ {0} /\ r.pos + 1 \in Nat \ {0}
  BY DEF ClientRecord
<1>2. r.pos # Len(File[c]) => r.pos + 1 \in DOMAIN File[c]
  BY <1>1, Batches
<1>3. BatchDone(c, r) \in ClientRecord
  BY <1>1 DEF BatchDone, ClientRecord
<1>4. /\ BatchDone(c, r).pc = IF r.pos = Len(File[c]) THEN "done" ELSE "ready"
      /\ BatchDone(c, r).pos = r.pos + 1
  BY DEF BatchDone, ClientRecord
<1>. QED
  BY <1>2, <1>3, <1>4

-----------------------------------------------------------------------------
(* What a step of the service leaves alone *)

LEMMA BrokenBusy ==
  ASSUME NEW r \in HandlerRecord, NEW exc
  PROVE  Broken(r, exc).pc # "idle" /\ Broken(r, exc).items = r.items
BY DEF Broken, HandlerRecord

LEMMA RefusedBusy ==
  ASSUME NEW r \in HandlerRecord, NEW status
  PROVE  Refused(r, status).pc # "idle" /\ Refused(r, status).items = r.items
BY DEF Refused, HandlerRecord

Busy(h) == hs[h].pc # "idle"

StaysBusy(h) == Busy(h) => hs'[h].pc # "idle" /\ hs'[h].items = hs[h].items

\* A handler that works on a request goes on with it, whatever the others do,
\* unless it answers or its process dies.
LEMMA ServiceKeeps ==
  ASSUME hs \in [Handler -> HandlerRecord], NEW h \in Handler,
         \/ FindExisting(h) \/ FindFails(h) \/ InsertRow(h) \/ RecordBatch(h)
         \/ Commit(h) \/ Finish(h) \/ Fail(h) \/ DeadlockAbort(h) \/ LoseConnection(h)
  PROVE  \A g \in Handler : StaysBusy(g)
<1>1. hs[h] \in HandlerRecord
  OBVIOUS
<1>2. CASE FindExisting(h)
  BY <1>1, <1>2 DEF FindExisting, StaysBusy, Busy, HandlerRecord
<1>3. CASE FindFails(h) \/ Fail(h)
  <2>1. PICK status : hs' = [hs EXCEPT ![h] = Refused(hs[h], status)]
    BY <1>3 DEF FindFails, Fail
  <2>. QED
    BY <1>1, <2>1, RefusedBusy DEF StaysBusy, Busy
<1>4. CASE InsertRow(h)
  <2>1. \E todo, pending : hs' = [hs EXCEPT ![h].todo = todo, ![h].pending = pending]
    BY <1>4 DEF InsertRow
  <2>. QED
    BY <1>1, <2>1 DEF StaysBusy, Busy, HandlerRecord
<1>5. CASE RecordBatch(h)
  <2>1. \/ hs' = [hs EXCEPT ![h] = Broken(hs[h], "IntegrityError")]
        \/ \E accepted, dups : hs' = [hs EXCEPT ![h] =
             [hs[h] EXCEPT !.pc = "commit", !.accepted = accepted, !.dups = dups]]
    BY <1>5 DEF RecordBatch
  <2>2. CASE hs' = [hs EXCEPT ![h] = Broken(hs[h], "IntegrityError")]
    BY <1>1, <2>2, BrokenBusy DEF StaysBusy, Busy
  <2>3. ASSUME NEW accepted, NEW dups,
               hs' = [hs EXCEPT ![h] =
                 [hs[h] EXCEPT !.pc = "commit", !.accepted = accepted, !.dups = dups]]
        PROVE  \A g \in Handler : StaysBusy(g)
    BY <1>1, <2>3 DEF StaysBusy, Busy, HandlerRecord
  <2>. QED
    BY <2>1, <2>2, <2>3
<1>6. CASE Commit(h)
  BY <1>1, <1>6 DEF Commit, StaysBusy, Busy, HandlerRecord
<1>7. CASE Finish(h)
  BY <1>1, <1>7 DEF Finish, StaysBusy, Busy, HandlerRecord
<1>8. CASE DeadlockAbort(h) \/ LoseConnection(h)
  <2>1. PICK exc : hs' = [hs EXCEPT ![h] = Broken(hs[h], exc)]
    BY <1>8 DEF DeadlockAbort, LoseConnection
  <2>. QED
    BY <1>1, <2>1, BrokenBusy DEF StaysBusy, Busy
<1>. QED
  BY <1>2, <1>3, <1>4, <1>5, <1>6, <1>7, <1>8

\* An outage breaks transactions and leaves their requests to their handlers.
LEMMA OutageKeeps ==
  ASSUME hs \in [Handler -> HandlerRecord], DbDown
  PROVE  \A g \in Handler : StaysBusy(g)
BY BrokenBusy DEF DbDown, StaysBusy, Busy

\* Receiving a request occupies an idle handler with it.
LEMMA ReceiveKeeps ==
  ASSUME hs \in [Handler -> HandlerRecord], NEW h \in Handler, NEW b \in BatchId,
         NEW items \in Request, Receive(h, b, items)
  PROVE  /\ ~Busy(h)
         /\ hs'[h].pc # "idle" /\ hs'[h].items = items
         /\ \A g \in Handler : StaysBusy(g)
<1>1. hs[h].pc = "idle"
  BY DEF Receive
<1>. DEFINE n == Validated(b, items)
<1>2. n.pc = "find" /\ n.items = items
  BY DEF Validated, IdleHandler
<1>3. \A status : Refused(n, status).pc = "reply" /\ Refused(n, status).items = items
  BY DEF Refused, Validated, IdleHandler
<1>4. \E r \in {n, Refused(n, 422), Refused(n, 503)} : hs' = [hs EXCEPT ![h] = r]
  BY DEF Receive, RefuseSize, Gate
<1>. QED
  BY <1>1, <1>2, <1>3, <1>4 DEF StaysBusy, Busy

-----------------------------------------------------------------------------
(* The invariant *)

\* Every step of the composition is a step of the service or none of it.
LEMMA ServiceRefined ==
  ASSUME DInv, [DeliveryNext]_deliveryVars
  PROVE  [Next]_vars
<1>1. CASE \E c \in Client : Post(c)
  <2>1. PICK c \in Client, h \in Handler, b \in FreshBatchId :
           client[c].pc = "ready" /\ Receive(h, b, File[c][client[c].pos])
    BY <1>1 DEF Post
  <2>2. File[c][client[c].pos] \in Request
    BY <2>1, Batches DEF DInv, WithinFile
  <2>3. b \in BatchId
    BY DEF FreshBatchId
  <2>. QED
    BY <2>1, <2>2, <2>3 DEF Next
<1>2. CASE \E c \in Client : ConnectionRefused(c) \/ Timeout(c) \/ Rerun(c)
  BY <1>2 DEF ConnectionRefused, Timeout, Rerun, vars
<1>3. CASE \E c \in Client : Answer(c)
  <2>1. PICK c \in Client : client[c].pc = "waiting" /\ Respond(client[c].handler)
    BY <1>3 DEF Answer
  <2>2. client[c].handler \in Handler
    BY <2>1 DEF DInv, Served
  <2>. QED
    BY <2>1, <2>2 DEF Next, HandlerStep
<1>4. CASE \E h \in Handler : ServiceStep(h) \/ Unheard(h)
  BY <1>4 DEF ServiceStep, Unheard, Next, HandlerStep
<1>5. CASE Environment
  BY <1>5 DEF Next
<1>6. CASE ServiceFault
  BY <1>6 DEF ServiceFault, Next, Fault
<1>7. CASE UNCHANGED deliveryVars
  BY <1>7 DEF deliveryVars, vars
<1>. QED
  BY <1>1, <1>2, <1>3, <1>4, <1>5, <1>6, <1>7 DEF DeliveryNext

\* What is stored stays stored.
LEMMA StoredStays ==
  ASSUME [Next]_vars, NEW c \in Client, NEW k, BatchStored(c, k)
  PROVE  BatchStored(c, k)'
BY RowsGrow DEF BatchStored

\* The clients stay as they are, and so do the requests they wait for.
LEMMA ClientsStay ==
  ASSUME DInv, IInv', [Next]_vars, UNCHANGED client, \A h \in Handler : StaysBusy(h)
  PROVE  DInv'
<1>1. \A c \in Client : Served(c)'
  BY DEF DInv, Served, StaysBusy, Busy
<1>2. \A c \in Client : WithinFile(c)'
  BY DEF DInv, WithinFile
<1>3. HandlersApart'
  BY DEF DInv, HandlersApart
<1>4. (\A c \in Client : \A k \in 1..(client[c].pos - 1) : BatchStored(c, k))'
  BY StoredStays DEF DInv
<1>. QED
  BY <1>1, <1>2, <1>3, <1>4 DEF DInv

\* Some clients stop waiting without moving on; the others wait for handlers
\* that keep their requests.
LEMMA ClientsFail ==
  ASSUME DInv, IInv', [Next]_vars, client' \in [Client -> ClientRecord],
         \A c \in Client :
           /\ client'[c].pos <= client[c].pos
           /\ client'[c].pc \in {"ready", "waiting"} => client'[c].pos \in DOMAIN File[c]
           /\ client'[c].pc = "waiting" =>
                client'[c] = client[c] /\ StaysBusy(client[c].handler)
  PROVE  DInv'
<1>1. \A c \in Client : Served(c)'
  BY DEF DInv, Served, StaysBusy, Busy
<1>2. \A c \in Client : WithinFile(c)'
  BY DEF WithinFile
<1>3. HandlersApart'
  BY DEF DInv, HandlersApart
<1>4. (\A c \in Client : \A k \in 1..(client[c].pos - 1) : BatchStored(c, k))'
  <2> SUFFICES ASSUME NEW c \in Client, NEW k \in 1..(client'[c].pos - 1)
               PROVE  BatchStored(c, k)'
    OBVIOUS
  <2>1. client[c].pos \in Nat /\ client'[c].pos \in Nat
    BY DEF DInv, ClientRecord
  <2>2. k \in 1..(client[c].pos - 1)
    BY <2>1
  <2>. QED
    BY <2>2, StoredStays DEF DInv
<1>. QED
  BY <1>1, <1>2, <1>3, <1>4 DEF DInv

\* The client whose batch was answered 200 moves on; the batch is stored.
LEMMA AnswerStep ==
  ASSUME DInv, IInv', [Next]_vars, NEW c \in Client, Answer(c)
  PROVE  DInv'
<1>. DEFINE h == client[c].handler
            r == client[c]
<1>1. /\ r.pc = "waiting" /\ r \in ClientRecord /\ h \in Handler
      /\ hs[h].items = File[c][r.pos] /\ r.pos \in DOMAIN File[c]
  BY DEF Answer, DInv, Served, WithinFile
<1>2. hs[h].pc = "reply" /\ hs' = [hs EXCEPT ![h] = IdleHandler]
  BY DEF Answer, Respond
<1>3. hs \in [Handler -> HandlerRecord]
  BY DEF DInv, IInv, TypeOK
<1>4. \A d \in Client : d # c /\ client[d].pc = "waiting" => StaysBusy(client[d].handler)
  BY <1>1, <1>2, <1>3 DEF DInv, Served, HandlersApart, StaysBusy, Busy
<1>5. CASE hs[h].status = 200
  <2>1. client' = [client EXCEPT ![c] = BatchDone(c, r)]
    BY <1>5 DEF Answer
  <2>2. /\ BatchDone(c, r) \in ClientRecord
        /\ BatchDone(c, r).pc \in {"ready", "done"}
        /\ BatchDone(c, r).pos = r.pos + 1
        /\ BatchDone(c, r).pc = "ready" => r.pos + 1 \in DOMAIN File[c]
    BY <1>1, DoneOK
  <2>3. /\ client' \in [Client -> ClientRecord]
        /\ client'[c] = BatchDone(c, r)
        /\ \A d \in Client : d # c => client'[d] = client[d]
    BY <2>1, <2>2 DEF DInv
  <2>4. BatchStored(c, r.pos)
    <3>1. HandlerOK(hs[h])
      BY <1>1 DEF DInv, IInv
    <3>. QED
      BY <1>1, <1>2, <1>5, <3>1 DEF HandlerOK, Stored, BatchStored
  <2>5. \A d \in Client : Served(d)' /\ WithinFile(d)'
    BY <1>4, <2>2, <2>3 DEF DInv, Served, WithinFile, StaysBusy, Busy
  <2>6. HandlersApart'
    BY <2>2, <2>3 DEF DInv, HandlersApart
  <2>7. (\A d \in Client : \A k \in 1..(client[d].pos - 1) : BatchStored(d, k))'
    <3> SUFFICES ASSUME NEW d \in Client, NEW k \in 1..(client'[d].pos - 1)
                 PROVE  BatchStored(d, k)'
      OBVIOUS
    <3>1. r.pos \in Nat
      BY <1>1 DEF ClientRecord
    <3>2. k \in 1..(client[d].pos - 1) \/ (d = c /\ k = r.pos)
      BY <2>2, <2>3, <3>1
    <3>. QED
      BY <2>4, <3>2, StoredStays DEF DInv
  <2>. QED
    BY <2>3, <2>5, <2>6, <2>7 DEF DInv
<1>6. CASE hs[h].status # 200
  <2>1. client' = [client EXCEPT ![c] = AttemptFailed(r)]
    BY <1>6 DEF Answer
  <2>2. /\ AttemptFailed(r) \in ClientRecord
        /\ AttemptFailed(r).pc \in {"ready", "failed"} /\ AttemptFailed(r).pos = r.pos
    BY <1>1, FailedOK
  <2>3. /\ client' \in [Client -> ClientRecord]
        /\ client'[c] = AttemptFailed(r)
        /\ \A d \in Client : d # c => client'[d] = client[d]
    BY <2>1, <2>2 DEF DInv
  <2>4. \A d \in Client : client[d].pos \in Nat
    BY DEF DInv, ClientRecord
  <2>. QED
    BY <1>1, <1>4, <2>2, <2>3, <2>4, ClientsFail DEF DInv, WithinFile
<1>. QED
  BY <1>5, <1>6

\* A client posts its batch to an idle handler.
LEMMA PostStep ==
  ASSUME DInv, IInv', [Next]_vars, NEW c \in Client, Post(c)
  PROVE  DInv'
<1>1. PICK h \in Handler, b \in FreshBatchId :
        /\ Receive(h, b, File[c][client[c].pos])
        /\ client' = [client EXCEPT ![c].pc = "waiting", ![c].handler = h]
  BY DEF Post
<1>2. client[c].pc = "ready" /\ client[c].pos \in DOMAIN File[c]
  BY DEF Post, DInv, WithinFile
<1>3. /\ ~Busy(h) /\ hs'[h].pc # "idle" /\ hs'[h].items = File[c][client[c].pos]
      /\ \A g \in Handler : StaysBusy(g)
  <2>1. b \in BatchId /\ File[c][client[c].pos] \in Request
    BY <1>2, Batches DEF FreshBatchId
  <2>2. hs \in [Handler -> HandlerRecord]
    BY DEF DInv, IInv, TypeOK
  <2>. QED
    BY <1>1, <2>1, <2>2, ReceiveKeeps
<1>4. /\ client' \in [Client -> ClientRecord]
      /\ client'[c].pc = "waiting" /\ client'[c].handler = h
      /\ client'[c].pos = client[c].pos
      /\ \A d \in Client : d # c => client'[d] = client[d]
  <2>1. client \in [Client -> ClientRecord]
    BY DEF DInv
  <2>2. client[c] \in ClientRecord
    BY <2>1
  <2>3. client' = [client EXCEPT ![c] = [client[c] EXCEPT !.pc = "waiting", !.handler = h]]
    BY <1>1, <2>1
  <2>. QED
    BY <2>1, <2>2, <2>3 DEF ClientRecord
<1>5. \A d \in Client : Served(d)' /\ WithinFile(d)'
  BY <1>2, <1>3, <1>4 DEF DInv, Served, WithinFile, StaysBusy, Busy
<1>6. HandlersApart'
  BY <1>3, <1>4 DEF DInv, HandlersApart, Served, Busy
<1>7. (\A d \in Client : \A k \in 1..(client[d].pos - 1) : BatchStored(d, k))'
  BY <1>4, StoredStays DEF DInv
<1>. QED
  BY <1>4, <1>5, <1>6, <1>7 DEF DInv

\* The answer to a request nobody waits for frees a handler that serves nobody.
LEMMA UnheardStep ==
  ASSUME DInv, IInv', [Next]_vars, NEW h \in Handler, Unheard(h)
  PROVE  DInv'
<1>1. hs' = [hs EXCEPT ![h] = IdleHandler] /\ client' = client
  BY DEF Unheard, Respond
<1>2. \A c \in Client : client[c].handler # h
  BY DEF Unheard
<1>3. \A c \in Client : client[c].pc = "waiting" => StaysBusy(client[c].handler)
  BY <1>1, <1>2 DEF DInv, IInv, TypeOK, StaysBusy, Served
<1>4. \A c \in Client : client[c].pos \in Nat
  BY DEF DInv, ClientRecord
<1>. QED
  BY <1>1, <1>3, <1>4, ClientsFail DEF DInv, WithinFile

\* A client gives up on an attempt, or starts its file again.
LEMMA ClientStep ==
  ASSUME DInv, IInv', [Next]_vars, NEW c \in Client,
         ConnectionRefused(c) \/ Timeout(c) \/ Rerun(c)
  PROVE  DInv'
<1>1. hs' = hs
  BY DEF ConnectionRefused, Timeout, Rerun, vars
<1>2. client \in [Client -> ClientRecord] /\ client[c] \in ClientRecord
  BY DEF DInv
<1>3. PICK r :
        /\ client' = [client EXCEPT ![c] = r]
        /\ \/ r = IdleClient
           \/ r = AttemptFailed(client[c]) /\ client[c].pc \in {"ready", "waiting"}
  BY DEF ConnectionRefused, Timeout, Rerun
<1>4. /\ r \in ClientRecord /\ r.pc # "waiting" /\ r.pos <= client[c].pos
      /\ r.pc = "ready" => r.pos \in DOMAIN File[c]
  <2>1. CASE r = IdleClient
    BY <1>2, <2>1, IdleClientOK DEF IdleClient, ClientRecord
  <2>2. CASE r = AttemptFailed(client[c]) /\ client[c].pc \in {"ready", "waiting"}
    <3>1. r \in ClientRecord /\ r.pc \in {"ready", "failed"} /\ r.pos = client[c].pos
      BY <1>2, <2>2, FailedOK
    <3>2. client[c].pos \in Nat
      BY <1>2 DEF ClientRecord
    <3>3. client[c].pos \in DOMAIN File[c]
      BY <2>2 DEF DInv, WithinFile
    <3>. QED
      BY <3>1, <3>2, <3>3
  <2>. QED
    BY <1>3, <2>1, <2>2
<1>5. /\ client' \in [Client -> ClientRecord]
      /\ client'[c] = r
      /\ \A d \in Client : d # c => client'[d] = client[d]
  BY <1>2, <1>3, <1>4
<1>6. \A d \in Client : client[d].pos \in Nat /\ StaysBusy(client[d].handler)
  BY <1>1, <1>2 DEF ClientRecord, StaysBusy, Busy
<1>. QED
  BY <1>4, <1>5, <1>6, ClientsFail DEF DInv, WithinFile

\* A process dies: its clients lose their attempts, the others their nothing.
LEMMA CrashServed ==
  ASSUME DInv, IInv', [Next]_vars, NEW p \in Proc, Crash(p),
         client' = [c \in Client |->
               IF client[c].pc = "waiting" /\ ProcOf[client[c].handler] = p
               THEN AttemptFailed(client[c]) ELSE client[c]]
  PROVE  DInv'
<1>1. \A h \in Handler : ProcOf[h] # p => StaysBusy(h)
  BY DEF Crash, StaysBusy, Busy
<1>2. \A c \in Client : client[c] \in ClientRecord /\ client[c].pos \in Nat
  BY DEF DInv, ClientRecord
<1>3. \A c \in Client :
        /\ AttemptFailed(client[c]) \in ClientRecord
        /\ AttemptFailed(client[c]).pc \in {"ready", "failed"}
        /\ AttemptFailed(client[c]).pos = client[c].pos
  BY <1>2, FailedOK
<1>4. client' \in [Client -> ClientRecord]
  BY <1>2, <1>3
<1>5. ASSUME NEW c \in Client
      PROVE  /\ client'[c].pos <= client[c].pos
             /\ client'[c].pc \in {"ready", "waiting"} => client'[c].pos \in DOMAIN File[c]
             /\ client'[c].pc = "waiting" =>
                  client'[c] = client[c] /\ StaysBusy(client[c].handler)
  <2>1. CASE client[c].pc = "waiting" /\ ProcOf[client[c].handler] = p
    BY <1>2, <1>3, <2>1 DEF DInv, WithinFile
  <2>2. CASE ~(client[c].pc = "waiting" /\ ProcOf[client[c].handler] = p)
    BY <1>1, <1>2, <2>2 DEF DInv, WithinFile, Served
  <2>. QED
    BY <2>1, <2>2
<1>. QED
  BY <1>4, <1>5, ClientsFail

LEMMA DInvStep == ASSUME DInv, [DeliveryNext]_deliveryVars PROVE DInv'
<1>1. [Next]_vars
  BY ServiceRefined
<1>2. IInv'
  BY <1>1, NextIInv DEF DInv
<1>3. hs \in [Handler -> HandlerRecord]
  BY DEF DInv, IInv, TypeOK
<1>4. CASE \E c \in Client :
             Post(c) \/ ConnectionRefused(c) \/ Answer(c) \/ Timeout(c) \/ Rerun(c)
  BY <1>1, <1>2, <1>4, PostStep, AnswerStep, ClientStep
<1>5. CASE \E h \in Handler : ServiceStep(h)
  <2>1. (\A g \in Handler : StaysBusy(g)) /\ UNCHANGED client
    BY <1>3, <1>5, ServiceKeeps DEF ServiceStep
  <2>. QED
    BY <1>1, <1>2, <2>1, ClientsStay
<1>6. CASE \E h \in Handler : Unheard(h)
  BY <1>1, <1>2, <1>6, UnheardStep
<1>7. CASE Environment /\ UNCHANGED <<client, faults>>
  <2>1. hs' = hs \/ \E h \in Handler : DeadlockAbort(h)
    BY <1>7 DEF Environment, DbUp, Start, HealthProbe, HealthMark, HealthRequest
  <2>2. \A g \in Handler : StaysBusy(g)
    BY <1>3, <2>1, ServiceKeeps DEF StaysBusy, Busy
  <2>. QED
    BY <1>1, <1>2, <1>7, <2>2, ClientsStay
<1>8. CASE ServiceFault
  <2>1. CASE (DbDown \/ \E h \in Handler : LoseConnection(h)) /\ UNCHANGED client
    <3>1. \A g \in Handler : StaysBusy(g)
      BY <1>3, <2>1, ServiceKeeps, OutageKeeps
    <3>. QED
      BY <1>1, <1>2, <2>1, <3>1, ClientsStay
  <2>2. CASE \E p \in Proc :
               /\ Crash(p)
               /\ client' = [c \in Client |->
                    IF client[c].pc = "waiting" /\ ProcOf[client[c].handler] = p
                    THEN AttemptFailed(client[c]) ELSE client[c]]
    BY <1>1, <1>2, <2>2, CrashServed
  <2>. QED
    BY <1>8, <2>1, <2>2 DEF ServiceFault
<1>9. CASE UNCHANGED deliveryVars
  <2>1. (\A g \in Handler : StaysBusy(g)) /\ UNCHANGED client
    BY <1>9 DEF deliveryVars, StaysBusy, Busy
  <2>. QED
    BY <1>1, <1>2, <2>1, ClientsStay
<1>. QED
  BY <1>4, <1>5, <1>6, <1>7, <1>8, <1>9 DEF DeliveryNext
LEMMA DInvInit == DeliveryInit => DInv
<1> SUFFICES ASSUME DeliveryInit PROVE DInv
  OBVIOUS
<1>1. IInv
  BY InitIInv DEF DeliveryInit
<1>2. client \in [Client -> ClientRecord] /\ \A c \in Client : client[c] = IdleClient
  BY IdleClientOK DEF DeliveryInit
<1>3. IdleClient.pc = "ready" /\ IdleClient.pos = 1
  BY DEF IdleClient
<1>4. \A c \in Client : Served(c) /\ WithinFile(c)
  BY <1>2, <1>3, IdleClientOK DEF Served, WithinFile
<1>5. HandlersApart
  BY <1>2, <1>3 DEF HandlersApart
<1>6. \A c \in Client : \A k \in 1..(client[c].pos - 1) : BatchStored(c, k)
  BY <1>2, <1>3
<1>. QED
  BY <1>1, <1>2, <1>4, <1>5, <1>6 DEF DInv

LEMMA DInvMeans == DInv => PassedIsStored
BY DEF DInv, BatchStored, PassedIsStored, Ids

-----------------------------------------------------------------------------
(* The theorems. *)

\* Whatever is lost, refused, repeated or killed on the way, a replay that goes
\* on to its next batch has the batch before it in the store (replay.py:30-33).
THEOREM ReplayedIsStored == DeliverySpec => []PassedIsStored
BY DInvInit, DInvStep, DInvMeans, PTL DEF DeliverySpec

\* The same of the replays whose retries wait for released locks, the ones
\* whose liveness is model-checked.
THEOREM PatientReplayedIsStored == FairDeliverySpec => []PassedIsStored
<1>1. [PatientNext]_deliveryVars => [DeliveryNext]_deliveryVars
  BY DEF PatientNext
<1>. QED
  BY <1>1, DInvInit, DInvStep, DInvMeans, PTL DEF FairDeliverySpec

\* The store behind the replays is the atomic, idempotent one.
THEOREM DeliveryRefinesService == DeliverySpec => Spec
<1>1. DeliveryInit => Init
  BY DEF DeliveryInit
<1>2. DInv /\ [DeliveryNext]_deliveryVars => [Next]_vars
  BY ServiceRefined
<1>. QED
  BY <1>1, <1>2, DInvInit, DInvStep, PTL DEF DeliverySpec, Spec
===============================================================================
