-------------------------- MODULE MCSelectionScan --------------------------
(* A small instance of SelectionScan for TLC. *)
EXTENDS SelectionScan

\* ASN 0 is among them: it is also the initial selection.
FourAsns == 0 .. 3

=============================================================================
