-------------------------- MODULE MCPublishedWords --------------------------
(***************************************************************************)
(* Small instances of PublishedWords for TLC.                              *)
(***************************************************************************)
EXTENDS PublishedWords

\* A literal that fits the chip's 15 bits.
OneValue == {7}

\* Every word that opens or closes a structure.
StructureWords == Vocabulary \ {"VARIABLE", "CONSTANT", "#", "ALLOT"}

=============================================================================
