------------------------------ MODULE MCDelivery ------------------------------
(***************************************************************************)
(* Two replay clients whose files hold the same two events in opposite     *)
(* orders, so that their transactions wait for each other; one of the      *)
(* batches also has an item that the service refuses.                      *)
(***************************************************************************)
EXTENDS Delivery, TLC

CONSTANTS e1, e2, bad, c1, c2

Ev(id) == [id |-> id, at |-> 1]

B12 == <<Ev(e1), Ev(e2)>>
B21 == <<Ev(e2), bad, Ev(e1)>>

MCRequest == {B12, B21}

Crossed == [c \in Client |-> IF c = c1 THEN <<B12>> ELSE <<B21>>]

OneProc == [h \in Handler |-> CHOOSE p \in Proc : TRUE]
=============================================================================
