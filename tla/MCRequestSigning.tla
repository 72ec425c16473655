-------------------------- MODULE MCRequestSigning --------------------------
(* Instances of RequestSigning for TLC: an endpoint and two workers.       *)
EXTENDS RequestSigning

CONSTANTS proxy, worker1, worker2, r1, r2, secret
=============================================================================
