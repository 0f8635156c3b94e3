------------------------- MODULE MCSetupController -------------------------
(* A disk with an NTFS partition that offers everything and a small data   *)
(* partition that can only be deleted or extended.                         *)
EXTENDS SetupController
CONSTANTS windows, data

MCPartitions == {windows, data}
MCCanDelete == {windows, data}
MCCanFormat == {windows}
MCCanShrink == {windows}
MCCanExtend == {windows, data}
MCCanInstall == {windows}
=============================================================================
