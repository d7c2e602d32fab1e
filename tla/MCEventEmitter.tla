--------------------------- MODULE MCEventEmitter ---------------------------
(* The instances of EventEmitter that TLC checks.                           *)
EXTENDS EventEmitter
=============================================================================
