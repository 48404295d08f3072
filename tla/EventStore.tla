------------------------------ MODULE EventStore ------------------------------
(***************************************************************************)
(* What ingestion promises to everybody who reads the event store: a set   *)
(* of event rows that only grows, together with a ledger of the batches    *)
(* that wrote it.  A batch commits once, as a whole, and every row is      *)
(* accounted for by exactly one batch, however often it was sent.  Nothing *)
(* here mentions requests, locks, failures or retries; Ingestion           *)
(* implements this module.                                                 *)
(***************************************************************************)
CONSTANTS EventId, Time, BatchId

VARIABLES rows,    \* the committed rows of raw_events
          ledger   \* the committed rows of ingest_batches

storeVars == <<rows, ledger>>

Event == [id : EventId, at : Time]

Ids(events) == {e.id : e \in events}

Init == rows = {} /\ ledger = {}

(***************************************************************************)
(* Batch b is stored: the events in new become rows, all of them at once,  *)
(* and none of them has an id that a row already has.                      *)
(***************************************************************************)
Append(b, new) ==
  /\ \A entry \in ledger : entry.batch # b
  /\ Ids(new) \cap Ids(rows) = {}
  /\ \A d, e \in new : d.id = e.id => d = e
  /\ rows' = rows \cup new
  /\ ledger' = ledger \cup {[batch |-> b, accepted |-> Ids(new)]}

Next == \E b \in BatchId, new \in SUBSET Event : Append(b, new)

Spec == Init /\ [][Next]_storeVars
=============================================================================
