---------------------------- MODULE MCIngestFiles ----------------------------
(* An RFC, and a second file about it.                                     *)
EXTENDS IngestFiles

CONSTANT x

MCAboutExtra == [f \in {x} |-> 1]
=============================================================================
