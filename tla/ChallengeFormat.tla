--------------------------- MODULE ChallengeFormat ---------------------------
(***************************************************************************)
(* The two shapes of an event: the internal envelope and the challenge row *)
(* of the exported logs, and the conversions between them                  *)
(* (schemas/challenge_events.py).  None stands for an absent or null       *)
(* field.  Times, ids and confidence pass unchanged and are left out.      *)
(***************************************************************************)
EXTENDS Integers, FiniteSets

CONSTANTS
  None,         \* an absent field
  Tracks,       \* tracker ids
  TrackName     \* the visitor id "track-N" of each track

\* What is there can be told from what is absent.
ASSUME FormatAssumption ==
  /\ None \notin Tracks \cup Nat \cup {TrackName[t] : t \in Tracks} \cup {"random"}
  /\ \A t, u \in Tracks : TrackName[t] = TrackName[u] => t = u

\* The types the pipeline emits.
PipelineType ==
  {"entry", "exit", "zone_enter", "zone_exit", "zone_dwell", "dwell",
   "queue_join", "queue_leave", "queue_depth", "reentry"}

Or(x, y) == IF x = None THEN y ELSE x

\* A number that is absent or zero gives way to the other.
OrPositive(x, y) == IF x = None \/ x = 0 THEN y ELSE x

\* Mutant of Misclassified: every entry is exported as an entry.
NeverMisclassified(e) == FALSE

\* An entry that carries a queue depth was a QUEUE_DEPTH row when it came in.
Misclassified(e) == e.type = "entry" /\ e.depth # None

ChallengeType(e) ==
  CASE Misclassified(e) \/ e.type = "queue_depth" -> "QUEUE_DEPTH"
    [] e.type = "entry" /\ ~Misclassified(e) -> "ENTRY"
    [] e.type = "exit" -> "EXIT"
    [] e.type = "zone_enter" -> "ZONE_ENTER"
    [] e.type = "zone_exit" -> "ZONE_EXIT"
    [] e.type \in {"zone_dwell", "dwell"} -> "ZONE_DWELL"
    [] e.type = "queue_join" -> "BILLING_QUEUE_JOIN"
    [] e.type = "queue_leave" -> "BILLING_QUEUE_ABANDON"
    [] e.type = "reentry" -> "REENTRY"

\* The type a row is stored under; QUEUE_DEPTH is not in the table and falls
\* back to an entry.
InternalType(type) ==
  CASE type \in {"ENTRY", "QUEUE_DEPTH"} -> "entry"
    [] type = "EXIT" -> "exit"
    [] type = "ZONE_ENTER" -> "zone_enter"
    [] type = "ZONE_EXIT" -> "zone_exit"
    [] type = "ZONE_DWELL" -> "zone_dwell"
    [] type = "BILLING_QUEUE_JOIN" -> "queue_join"
    [] type = "BILLING_QUEUE_ABANDON" -> "queue_leave"
    [] type = "REENTRY" -> "reentry"

\* The visitor an exported row names; an event of no visitor gets a random one.
ExportedVisitor(e, random) ==
  Or(Or(e.visitor, e.person), IF e.track # None THEN TrackName[e.track] ELSE random)

\* envelope_to_challenge.  The dwell is multiplied as a float and truncated:
\* short is 1 when the product falls short of the whole number of milliseconds.
ToChallenge(e, random, short) ==
  LET dwell == IF e.dwell # None /\ e.dwell > short THEN e.dwell - short ELSE 0
  IN  [type    |-> ChallengeType(e),
       visitor |-> ExportedVisitor(e, random),
       zone    |-> e.zone,
       dwell   |-> IF dwell = 0 /\ e.type \in {"zone_dwell", "dwell"} THEN OrPositive(e.dwellMs, 0)
                   ELSE dwell,
       depth   |-> e.depth,
       sku     |-> Or(e.sku, e.zone),
       seq     |-> OrPositive(e.sequence, e.seq),
       staff   |-> e.staff]

\* challenge_to_envelope.
ToEnvelope(r) ==
  [type     |-> InternalType(r.type),
   visitor  |-> r.visitor,
   person   |-> r.visitor,
   track    |-> IF \E t \in Tracks : TrackName[t] = r.visitor
                THEN CHOOSE t \in Tracks : TrackName[t] = r.visitor ELSE None,
   zone     |-> r.zone,
   dwell    |-> r.dwell,
   dwellMs  |-> None,
   depth    |-> r.depth,
   sku      |-> r.sku,
   sequence |-> None,
   seq      |-> r.seq,
   staff    |-> r.staff]

\* The event that an export reads back from raw_events: without a visitor in the
\* payload, it is the person of the row (_row_to_envelope, and convert_rows of a
\* dump of the table).
FromTable(e) == [e EXCEPT !.visitor = Or(@, e.person)]

\* The key under which metrics and funnel file an event (_session_key).
VisitorKey(e) == Or(Or(e.visitor, e.person), IF e.track # None THEN TrackName[e.track] ELSE None)

----------------------------------------------------------------------------
(* What an export keeps *)

\* Depths are counted for queue events only, and the depth of a queue belongs to
\* no visitor and no track; milliseconds are those of a dwell.
Consistent(e) ==
  /\ e.depth # None => e.type \in {"queue_join", "queue_leave", "queue_depth"}
  /\ e.type = "queue_depth" => e.depth # None /\ e.visitor = None /\ e.person = None /\ e.track = None
  /\ e.dwellMs # None => e.type \in {"zone_dwell", "dwell"}
  /\ e.seq # None => e.sequence = None

WithoutDwell(r) == [f \in DOMAIN r \ {"dwell"} |-> r[f]]

\* An exported event that is stored and exported again is the same row, but for
\* a millisecond of dwell per export, and the analytics file it under the
\* visitor it had (envelope_to_challenge after challenge_to_envelope).  An event
\* that was stored as the pipeline made it is exported from the table as the row
\* the pipeline itself would have written (export_store).
StableExport(e, short, again) ==
  LET row   == ToChallenge(e, "random", short)
      event == ToEnvelope(row)
      next  == ToChallenge(FromTable(event), "other", again)
  IN  /\ WithoutDwell(next) = WithoutDwell(row)
      /\ row.dwell - next.dwell \in 0..1
      /\ VisitorKey(e) # None => VisitorKey(event) = VisitorKey(e)
      /\ VisitorKey(e) # None => ToChallenge(FromTable(e), "other", short) = row
=============================================================================
