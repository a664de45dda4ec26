------------------------ MODULE MCConnectionManager ------------------------
(***************************************************************************)
(* ConnectionManager on small instances.                                   *)
(***************************************************************************)
EXTENDS WheelConfig, TLC

(* No definition and no property tells one client socket from another.     *)
SockSymmetry == Permutations(Socks)
=============================================================================
