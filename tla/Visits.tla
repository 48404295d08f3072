-------------------------------- MODULE Visits --------------------------------
(***************************************************************************)
(* What the visitor pipeline promises to whoever counts visitors.  A       *)
(* person who enters is a new visitor with a new session number, or the    *)
(* visitor of an exit that is remembered and recent enough; each exit can  *)
(* be answered by one return.  Tracks, frames, timeouts and galleries are  *)
(* not mentioned; VisitorPipeline implements this module.                  *)
(***************************************************************************)
EXTENDS Naturals

CONSTANT Window   \* how long after an exit a return is recognised

VARIABLES
  clock,
  here,     \* the visitors in the store, with their session numbers and
            \* whether they are taken for staff
  left,     \* the exits that can still be answered; number 0 is forgotten
  met,      \* visitors so far
  issued,   \* session numbers so far
  told      \* the visitor the latest event is about, 0 for nobody, and its flag

visitVars == <<clock, here, left, met, issued, told>>

Init ==
  /\ clock \in Nat /\ here = {} /\ left = {} /\ met = 0 /\ issued = 0
  /\ told.visitor = 0

\* An event that names a visitor names one who is in the store, and says of
\* the staff what is said of that visitor from arrival to departure.
Tells ==
  told'.visitor # 0 =>
    \E x \in here' : x.visitor = told'.visitor /\ x.staff = told'.staff

Tick == clock' > clock /\ UNCHANGED <<here, left, met, issued>>

\* The visitors outside stay, except for some who have just left the store;
\* an exit may never be remembered, may be forgotten, or lose its number.
LeftAfter(stay) ==
  \A r \in left' :
    \/ \E q \in left : /\ r.visitor = q.visitor /\ r.at = q.at
                       /\ r.number \in {q.number, 0}
    \/ \E x \in here \ stay : /\ r.visitor = x.visitor /\ r.at = clock
                              /\ r.number \in {x.number, 0}

Leave ==
  /\ here' \subseteq here
  /\ LeftAfter(here')
  /\ UNCHANGED <<clock, met, issued>>

Arrive ==
  /\ met' = met + 1
  /\ issued' = issued + 1
  /\ \E stay \in SUBSET here :
       /\ here' = stay \cup {[visitor |-> met', number |-> issued',
                               staff |-> told'.staff]}
       /\ LeftAfter(stay)
  /\ UNCHANGED clock

Return ==
  \E r \in left, stay \in SUBSET here :
    /\ clock <= r.at + Window
    /\ issued' \in {issued, issued + 1}
    /\ here' = stay \cup
         {[visitor |-> r.visitor,
           number |-> IF issued' = issued THEN r.number ELSE issued',
           staff |-> told'.staff]}
    /\ issued' = issued => r.number # 0
    /\ LeftAfter(stay)
    /\ \A q \in left' : q.visitor # r.visitor
    /\ UNCHANGED <<clock, met>>

Next == (Tick \/ Leave \/ Arrive \/ Return) /\ Tells

Spec == Init /\ [][Next]_visitVars
===============================================================================
