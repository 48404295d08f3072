--------------------------- MODULE VisitorPipeline ---------------------------
(***************************************************************************)
(* The frame loop of the edge pipeline (pipeline/orchestrator.py) with the *)
(* session engine and the re-identification gallery.  The detectors are an *)
(* environment that is as free as their code allows: in a frame, the line  *)
(* detector reports first, then the zones, then the queues; a track        *)
(* crosses the entry line at most once in a frame, and enters, leaves or   *)
(* dwells in a zone at most once.                                          *)
(*                                                                         *)
(* One action is the whole treatment of one event, up to its emission.     *)
(***************************************************************************)
EXTENDS SessionEngine

CONSTANTS
  ReentryWindow,   \* reentry_timeout_seconds
  GalleryMax,      \* gallery_max_entries
  RoiChoices,      \* the sets of tracks a frame may show in staff areas
  MaxTime,         \* bound on frame indices
  MaxVisitors,     \* bound on new visitors
  MaxDrops         \* bound on dropped frames

ASSUME GalleryAssumption == ReentryWindow \in Nat /\ GalleryMax \in Nat \ {0}
ASSUME RoiAssumption == RoiChoices \subseteq SUBSET Track
ASSUME FrameAssumption == {MaxTime, MaxVisitors, MaxDrops} \subseteq Nat

VARIABLES
  now,       \* index of the current frame, from which its events are dated
  frames,    \* frames_processed: complete frames, dropped ones not counted
  stage,     \* the detector whose events are being treated
  moved,     \* tracks and zone memberships already reported in this frame
  inRoi,     \* tracks whose centroid is in a staff area
  eng,       \* the session engine
  inside,    \* the open sessions of the zone engine, as <<track, zone>>
  gallery,   \* exited visitors that can be recognised, oldest first
  out        \* the event emitted last

vars == <<now, frames, stage, moved, inRoi, eng, inside, gallery, out>>
frameVars == <<now, frames, inRoi>>

Lines == 1
Zones == 2
Queues == 3
Done == 4

Silent == [visitor |-> NoVisitor, staff |-> FALSE]

\* The detectors run one after the other; whoever reports in a later stage
\* ends the earlier ones.
InStage(s) == stage <= s /\ stage' = s

-----------------------------------------------------------------------------
(* The gallery *)

\* _prune_expired.
Fresh(g) == Keep(g, {r \in Range(g) : now <= r.at + ReentryWindow})

\* register_exit of an exit with a usable crop; a full deque drops its oldest.
Remember(g, v) ==
  LET longer == Append(g, [visitor |-> v, at |-> now])
  IN  IF Len(longer) > GalleryMax THEN Tail(longer) ELSE longer

\* Mutant of Forget: the gallery is left alone.
ForgetNobody(g, v) == g

\* remove_visitor.
Forget(g, v) == Keep(g, {r \in Range(g) : r.visitor # v})

-----------------------------------------------------------------------------
(* Events *)

\* _enrich_visitor_payload and emit: the session that the track leads to
\* after the event was treated overrides what the event said of the staff.
Emit(t, roi, e) ==
  LET v == Resolve(e, t)
  IN  out' = [visitor |-> v,
              staff |-> IF v = NoVisitor THEN roi ELSE e.active[v].staff]

InStaffArea(t) == t \in inRoi

Crosses(t) == t \notin moved /\ moved' = moved \cup {t}

\* An ENTRY that Re-ID does not recognise.
NewEntry(t) ==
  /\ InStage(Lines)
  /\ Crosses(t)
  /\ eng.born < MaxVisitors
  /\ gallery' = Fresh(gallery)
  /\ \E e \in CleanedUp(eng, now) : eng' = Enter(e, t, InStaffArea(t), now)
  /\ Emit(t, InStaffArea(t), eng')
  /\ UNCHANGED <<frameVars, inside>>

\* Similarity is a matter of pixels: any remembered visitor may be the best
\* match, the right one or not.
Matches == Range(Fresh(gallery))

\* An ENTRY that is recognised and becomes a REENTRY.
Reentry(t) ==
  /\ InStage(Lines)
  /\ Crosses(t)
  /\ \E r \in Matches, e \in CleanedUp(eng, now) :
       /\ gallery' = Forget(Fresh(gallery), r.visitor)
       /\ eng' = Resume(e, r.visitor, t, InStaffArea(t), now)
  /\ Emit(t, InStaffArea(t), eng')
  /\ UNCHANGED <<frameVars, inside>>

\* An EXIT; the gallery learns of it when a session ended, and keeps it when
\* an appearance could be extracted.
Exit(t) ==
  /\ InStage(Lines)
  /\ Crosses(t)
  /\ \E e \in CleanedUp(eng, now) :
       LET v == Resolve(e, t) IN
       /\ eng' = Leave(e, t, now)
       /\ gallery' \in IF v = NoVisitor THEN {gallery}
                       ELSE {Fresh(gallery), Remember(Fresh(gallery), v)}
  /\ Emit(t, InStaffArea(t), eng')
  /\ UNCHANGED <<frameVars, inside>>

\* What the events of the zone engine have in common.
AtZone(t, z) ==
  /\ InStage(Zones)
  /\ <<t, z>> \notin moved
  /\ moved' = moved \cup {<<t, z>>}
  /\ UNCHANGED <<frameVars, gallery>>

ZoneEnter(t, z) ==
  /\ AtZone(t, z)
  /\ <<t, z>> \notin inside
  /\ inside' = inside \cup {<<t, z>>}
  /\ \E e \in CleanedUp(eng, now) : eng' = EnterZone(e, t, z, now)
  /\ Emit(t, InStaffArea(t), eng')

\* The centroid has left the zone, or the track was missing too long.  The
\* event has no bbox, so nobody looks whether it is in a staff area.
ZoneExit(t, z) ==
  /\ AtZone(t, z)
  /\ <<t, z>> \in inside
  /\ inside' = inside \ {<<t, z>>}
  /\ \E e \in CleanedUp(eng, now) : eng' = LeaveZone(e, t, z, now)
  /\ Emit(t, FALSE, eng')

ZoneDwell(t, z) ==
  /\ AtZone(t, z)
  /\ <<t, z>> \in inside
  /\ \E e \in CleanedUp(eng, now) : eng' = Dwell(e, t, z, now)
  /\ Emit(t, InStaffArea(t), eng')
  /\ UNCHANGED inside

\* Queue events mean nothing to the session engine but the passing of time.
\* QUEUE_DEPTH has neither a track nor a bbox.
QueueEvent(t) ==
  /\ InStage(Queues)
  /\ eng' \in CleanedUp(eng, now)
  /\ out' = Silent \/ Emit(t, InStaffArea(t), eng')
  /\ UNCHANGED <<frameVars, moved, inside, gallery>>

-----------------------------------------------------------------------------
(* The video *)

\* The next readable frame.  Dropped frames have an index and are skipped.
NextFrame ==
  /\ stage # Done
  /\ frames' = frames + 1
  /\ now' \in now + 1 .. MaxTime
  /\ now' - frames' <= MaxDrops
  /\ inRoi' \in RoiChoices
  /\ stage' = Lines
  /\ moved' = {}
  /\ out' = Silent
  /\ UNCHANGED <<eng, inside, gallery>>

\* The reader is exhausted: what is active ends, at the time of the frame
\* whose index is the number of frames processed.
EndOfVideo ==
  /\ stage # Done
  /\ stage' = Done
  /\ frames' = frames + 1
  /\ eng' \in ClosedAll(eng, frames')
  /\ out' = Silent
  /\ UNCHANGED <<now, moved, inRoi, inside, gallery>>

-----------------------------------------------------------------------------

Init ==
  /\ now \in 0..MaxDrops
  /\ frames = 0
  /\ stage = Lines
  /\ moved = {}
  /\ inRoi \in RoiChoices
  /\ eng = EmptyEngine
  /\ inside = {}
  /\ gallery = <<>>
  /\ out = Silent

Next ==
  \/ \E t \in Track : NewEntry(t) \/ Reentry(t) \/ Exit(t) \/ QueueEvent(t)
  \/ \E t \in Track, z \in Zone : ZoneEnter(t, z) \/ ZoneExit(t, z) \/ ZoneDwell(t, z)
  \/ NextFrame
  \/ EndOfVideo

Spec == Init /\ [][Next]_vars

-----------------------------------------------------------------------------
(* Properties *)

Active == eng.active
Mapped == DOMAIN eng.mapping

\* The track mapping names only active sessions, each on its own track: a
\* completed session takes its mapping with it, also in a timeout between two
\* events of its track, so no event is credited to a visit that is over.
MappingsLive ==
  \A t \in Mapped : /\ eng.mapping[t] \in DOMAIN Active
                    /\ Active[eng.mapping[t]].track = t

\* A session number belongs to one visitor, among the sessions that are
\* active or still in the ring, however often visitors return and the ring
\* forgets them.
SequenceIdentity ==
  LET sessions == {<<Active[v].seq, v>> : v \in DOMAIN Active}
                  \cup {<<c.seq, c.visitor>> : c \in Range(eng.completed)}
  IN  \A x, y \in sessions : x[1] = y[1] => x[2] = y[2]

\* A zone visit that a reachable session has open is one in which the zone
\* engine has the track: dwell is not counted on after the visitor has left.
OpenVisitsAreInside ==
  \A t \in Mapped : \A z \in Active[eng.mapping[t]].open : <<t, z>> \in inside

\* The visits that the pipeline implements.  The number of an exit is that of
\* the session in the ring that a return would continue.
visits == INSTANCE Visits WITH
  Window <- ReentryWindow,
  clock <- now,
  here <- {[visitor |-> v, number |-> Active[v].seq, staff |-> Active[v].staff] : v \in DOMAIN Active},
  left <- {[visitor |-> r.visitor, at |-> r.at,
            number |-> IF Completed(eng, r.visitor) = {} THEN 0
                       ELSE PriorSequence(eng, r.visitor)] : r \in Range(gallery)},
  met <- eng.born,
  issued <- eng.lastSeq,
  told <- out

\* Entries, returns and exits with their numbers are as Visits promises: a
\* return follows one remembered exit, within the window, and uses it up; and
\* no event names a visitor who has left or says something else of the staff
\* than the events of the same stay before it.
ImplementsVisits == visits!Spec

===============================================================================
