-------------------------- MODULE MCMediaFinalize ---------------------------
(* The instances of MediaFinalize that TLC checks.                          *)
EXTENDS MediaFinalize
=============================================================================
