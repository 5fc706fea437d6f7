------------------------------ MODULE MCEtlChord -------------------------------
(* Values of the constants of EtlChord that a .cfg cannot write. *)
EXTENDS EtlChordProps

(* The last phase reads nothing. *)
ChunksLidos == <<{1, 2}, {1}, {}>>
===============================================================================
