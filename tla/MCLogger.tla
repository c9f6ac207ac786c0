------------------------------- MODULE MCLogger -------------------------------
(* Instances of Logger for TLC.                                            *)
EXTENDS Logger

===============================================================================
