---------------------------- MODULE MCReadThrough ----------------------------
(* One API process with one request at a time, and a worker. *)
EXTENDS ReadThrough

CONSTANTS api, r1, worker

MCHome == [r \in Reader |-> api]
=============================================================================
