---------------------------- MODULE MCSupplements ----------------------------
(***************************************************************************)
(* The instance of Supplements that TLC checks: two published stories and  *)
(* three messages, the first two of which begin alike.                     *)
(***************************************************************************)
EXTENDS Supplements, TLC

CONSTANTS alike, other

MCPrefixes == {alike, other}
MCPrefixOf == (1 :> alike) @@ (2 :> alike) @@ (3 :> other)

=============================================================================
