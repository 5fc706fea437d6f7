---------------------------- MODULE MCEtlDominios ------------------------------
(* Every domain; runs of programas also with the current year only. *)
EXTENDS EtlDominiosProps

Todos == DOMAIN FasesDe

FiltrosMC ==
  [d \in Todos |-> IF d = "programas" THEN {{}, {"corrente"}} ELSE {{}}]
===============================================================================
