------------------------------- MODULE MCBase64 -------------------------------
(* Instances of Base64 for TLC.                                            *)
EXTENDS Base64

===============================================================================
