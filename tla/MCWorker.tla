------------------------------ MODULE MCWorker ------------------------------
(***************************************************************************)
(* Instances of Worker.                                                    *)
(***************************************************************************)
EXTENDS Worker

\* Jobs 1 to 4: an import, a region more, a Rebuild and a Bootstrap of other
\* regions; 5 to 9: an import, both kinds of update, a Freeze and a repeated
\* Bootstrap.
JobType ==
  <<"Bootstrap", "AddRegions", "Rebuild", "Bootstrap",
    "Bootstrap", "Update", "CatchUp", "Freeze", "Bootstrap">>
JobRegions == <<<<1, 2>>, <<3>>, <<2>>, <<3>>, <<1>>, <<1>>, <<1>>, <<>>, <<1>>>>

\* A second Bootstrap of other regions, and a second Update.
PairType == <<"Bootstrap", "Bootstrap", "Update", "Update">>
PairRegions == <<<<1, 2>>, <<1, 3>>, <<1>>, <<1>>>>
=============================================================================
