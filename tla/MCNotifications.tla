---------------------------- MODULE MCNotifications ----------------------------
(* Small instances of NotificationPipeline for TLC. *)
EXTENDS NotificationPipeline

\* One phone owns the first and the last row (its token was renewed), the other
\* phone owns the rest.
MCOwner == [d \in Device |-> IF d \in {1, 3} THEN "phone1" ELSE "phone2"]

\* One job of each kind at a time, or two send jobs
OneEach == [k \in {"dispatch", "send", "promote"} |-> 1]
TwoSends == [OneEach EXCEPT !["send"] = 2]
===============================================================================
