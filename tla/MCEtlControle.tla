---------------------------- MODULE MCEtlControle ------------------------------
(* Values of the constants of EtlControle that a .cfg cannot write. *)
EXTENDS EtlControleProps, TLC

TodasAsFases == {Fases}
TodasOuPrimeira == {Fases, {1}}
================================================================================
