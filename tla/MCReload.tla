------------------------------ MODULE MCReload ------------------------------
(* Instances of Reload for TLC. *)
EXTENDS ReloadInv, TLC

CONSTANTS a1, a2, v1, v2, r1, r2

\* v1 and v2 claim the routes of two different projects.
MCClaims == v1 :> r1 @@ v2 :> r2

\* An edit leaves anything in any directory.
AnyContents == Files

\* An edit touches an application or gives it a new version.
VersionContents == [App -> Version]

Symmetry == Permutations(Request)

=============================================================================
