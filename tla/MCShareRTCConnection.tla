------------------------- MODULE MCShareRTCConnection -------------------------
(***************************************************************************)
(* ShareRTCConnection for TLC. Two peers make the lists of peers differ;   *)
(* two sign-ins are a session and the one after it, or the one that a      *)
(* delayed DoConnect brings in the middle of the first; two delayed        *)
(* DoConnects overtake each other.                                         *)
(***************************************************************************)
EXTENDS ShareRTCConnection, TLC

PeerSymmetry == Permutations(Peers)
=============================================================================
