--------------------------- MODULE MCScannerTool ----------------------------
(***************************************************************************)
(* ScannerTool for TLC: every scanner up to MaxWork ticks of work and      *)
(* MaxOutput lines of output, with and without a helper, and caps below    *)
(* the longest output.                                                     *)
(***************************************************************************)
EXTENDS ScannerTool

=============================================================================
