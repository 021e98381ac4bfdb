--------------------------- MODULE MCRebuildReset ---------------------------
(* Instances of RebuildReset for TLC.                                      *)
EXTENDS RebuildReset, TLC

\* The competitor loses or wins the creation race against the Rebuild.
RebuildFirst == 1 :> "Rebuild" @@ 2 :> "Migrate"
RebuildLast == 1 :> "Migrate" @@ 2 :> "Rebuild"
RebuildTwice == 1 :> "Rebuild" @@ 2 :> "Rebuild"

=============================================================================
