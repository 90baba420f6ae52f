----------------------------- MODULE MCRequests -----------------------------
(* Model-checking instances of Requests.                                   *)
EXTENDS Requests
=============================================================================
