---------------------------- MODULE MCRomUpload -----------------------------
(***************************************************************************)
(* Directories and FATs for TLC: a flash of two sectors of one page each,  *)
(* and one spill page.                                                     *)
(***************************************************************************)
EXTENDS RomUpload, TLC

CONSTANTS blank, low

\* Both contents of one sector's blocks, one of the others'.
MCHostData == [b \in Blocks |-> IF b \in {0, 1} THEN {blank, low} ELSE {low}]

Entry(type, size, first) == [type |-> type, size |-> size, first |-> first]

\* A file of a page and a half beside another one, and one that the drive holds
\* and the installer refuses.
MCDirectories ==
  {<<Entry("Other", 1, 0), Entry("Sfc", 3, 1)>>,
   <<Entry("Raw", 5, 0)>>}

\* In order; and scattered over the spill page.
MCFats ==
  {(0 :> 1) @@ (1 :> 2) @@ (2 :> End),
   (0 :> End) @@ (1 :> 0) @@ (2 :> 0)}
=============================================================================
