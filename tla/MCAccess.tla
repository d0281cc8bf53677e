-------------------------------- MODULE MCAccess -------------------------------
(***************************************************************************)
(* A small instance of Access: two devices, one address typed in two ways. *)
(***************************************************************************)
EXTENDS Access, TLC

CONSTANTS typedLower, typedUpper

MCNormal == typedLower :> typedLower @@ typedUpper :> typedLower

DeviceSymmetry == Permutations(Device)
================================================================================
