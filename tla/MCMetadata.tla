----------------------------- MODULE MCMetadata ------------------------------
(* An instance of Metadata for TLC.                                         *)
EXTENDS Metadata
CONSTANTS n1, n2, f1, f2
=============================================================================
