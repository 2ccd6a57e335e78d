------------------------- MODULE MCWorkspaceAccess -------------------------
(* Values that no definition treats differently, for TLC. *)
EXTENDS WorkspaceAccess, TLC

Symmetry == Permutations(Requests) \cup Permutations(Passwords)
              \cup Permutations(Workspaces) \cup Permutations(Registered)

=============================================================================
