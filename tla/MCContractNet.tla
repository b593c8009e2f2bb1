---------------------------- MODULE MCContractNet ----------------------------
(* The instances of ContractNet for TLC.  Which proposal is the best is     *)
(* left open, so the participants are alike; one cfg checks a liveness      *)
(* property and so declares no symmetry.                                    *)
EXTENDS ContractNet, TLC
=============================================================================
