------------------------------- MODULE MCDaemon -------------------------------
(* Daemon with values for its constants: a plain call, and a stream whose  *)
(* handler emits up to two chunks.                                         *)
EXTENDS Daemon, TLC

CONSTANTS p, q

TwoChunks == p :> 0 @@ q :> 2

=============================================================================
