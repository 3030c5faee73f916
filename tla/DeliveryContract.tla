--------------------------- MODULE DeliveryContract ---------------------------
(***************************************************************************)
(* What the notification pipeline promises about the deliveries of one     *)
(* event while nothing fails, without jobs, queues or handlers: a row is   *)
(* created once, is deferred only before it is pending, is pushed at most  *)
(* once and only after it was pending, and records a true outcome.         *)
(***************************************************************************)
EXTENDS Naturals

CONSTANT Device

VARIABLES
  delivery,   \* status of the delivery of each device
  pushes      \* messages each device got

\* The status changes of a row. An opened row can still receive the outcome of the
\* push that was opened; any row can be erased.
Moves ==
  (  {"none"} \X {"pending", "deferred"}
  \union {"deferred"} \X {"pending", "opened", "none"}
  \union {"pending", "opened"} \X {"pending", "sent", "failed", "invalid_token", "opened", "none"}
  \union {"sent", "failed", "invalid_token"} \X {"opened", "none"} )

\* "sent" is recorded after the push, the other outcomes without one
Truthful(d, status) ==
  /\ status = "sent" => pushes[d] = 1
  /\ status \in {"failed", "invalid_token"} => pushes[d] = 0

\* Rows change status
Settle ==
  /\ delivery' \in [Device -> {"none", "pending", "deferred", "sent", "failed",
                               "invalid_token", "opened"}]
  /\ \A d \in Device :
       delivery'[d] # delivery[d] => /\ <<delivery[d], delivery'[d]>> \in Moves
                                     /\ Truthful(d, delivery'[d])
  /\ UNCHANGED pushes

\* Devices that got nothing get the message; a row erased or opened since it was read
\* as pending does not stop the push
Push ==
  /\ \E S \in SUBSET Device :
       /\ \A d \in S : pushes[d] = 0 /\ delivery[d] \in {"pending", "opened", "none"}
       /\ pushes' = [d \in Device |-> IF d \in S THEN 1 ELSE pushes[d]]
  /\ UNCHANGED delivery

Init ==
  /\ delivery = [d \in Device |-> "none"]
  /\ pushes = [d \in Device |-> 0]

Next == Settle \/ Push

Spec == Init /\ [][Next]_<<delivery, pushes>>
===============================================================================
