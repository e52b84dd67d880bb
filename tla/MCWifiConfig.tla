---------------------------- MODULE MCWifiConfig ----------------------------
(***************************************************************************)
(* WifiConfig for TLC: nothing in the code tells one network name from     *)
(* another, so behaviours that differ only by swapping them are one.       *)
(***************************************************************************)
EXTENDS WifiConfig, TLC

NetworkNames == Permutations(Ssids)
=============================================================================
