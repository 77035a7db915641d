---------------------- MODULE MCSubprocessTransport ----------------------
(* Instances of SubprocessTransport for TLC. *)
EXTENDS SubprocessTransport
=============================================================================
