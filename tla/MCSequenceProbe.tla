-------------------------- MODULE MCSequenceProbe --------------------------
(***************************************************************************)
(* Instances of SequenceProbe.                                             *)
(***************************************************************************)
EXTENDS SequenceProbe

\* A Bootstrap, then a region more and an Update, or a Rebuild.
WriteType == <<"Bootstrap", "AddRegions", "Update", "Rebuild">>
WriteRegions == <<{1}, {2}, {1}, {1}>>
UpdateType == <<"Bootstrap", "Update", "Update", "Rebuild">>
UpdateRegions == <<{1}, {1}, {1}, {1}>>

\* Names that leave the suffix of the probe whole, or cut it.
ShortNames == <<59, 60, 61, 20>>
LastCharDash == <<62, 60, 61, 20>>
NameOfWorker == <<59, 63, 61, 20>>
=============================================================================
