-------------------------- MODULE MCSessionHandshake --------------------------
(* Instances of SessionHandshake for TLC.                                  *)
EXTENDS SessionHandshake

===============================================================================
