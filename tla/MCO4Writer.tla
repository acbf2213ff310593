------------------------------ MODULE MCO4Writer ------------------------------
(* The write half alone, against a peer that reads at its own pace.        *)
EXTENDS O4Writer
=============================================================================
