---------------------------- MODULE MCOperations ----------------------------
(* Instances of Operations for TLC: which Operations exist, by type.       *)
EXTENDS Operations, TLC

\* Names are in the order of the creation race.
Single == 1 :> "Bootstrap"
MigrateBootstrap == 1 :> "Migrate" @@ 2 :> "Bootstrap"
RefreshUpdate == 1 :> "Refresh" @@ 2 :> "Update"
AddBootstrapMigrate == 1 :> "AddRegions" @@ 2 :> "Bootstrap" @@ 3 :> "Migrate"
UpdateBootstrapMigrate == 1 :> "Update" @@ 2 :> "Bootstrap" @@ 3 :> "Migrate"

=============================================================================
