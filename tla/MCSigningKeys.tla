--------------------------- MODULE MCSigningKeys ----------------------------
(* The instance of SigningKeys, and so of RedLock, that TLC checks.         *)
EXTENDS SigningKeys
=============================================================================
