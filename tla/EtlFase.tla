-------------------------------- MODULE EtlFase --------------------------------
(***************************************************************************)
(* What one phase of the ETL promises to the loop of phases: it writes the *)
(* chunks of its source and either concludes, with all of them written, or *)
(* fails.  EtlControle relies on it: SincronizarFase is a phase that       *)
(* concludes.  EtlFasePipeline shows that _executar_fase implements it.    *)
(***************************************************************************)
CONSTANT Chunks

VARIABLES
  situacao,   \* "executando", then "concluida" or "falhou" for good
  escritos    \* the chunks this run of the phase has written

varsFase == <<situacao, escritos>>

Init ==
  /\ situacao = "executando"
  /\ escritos = {}

(* A chunk may be written again: the source may deliver it twice. *)
Escrever(c) ==
  /\ situacao = "executando"
  /\ escritos' = escritos \cup {c}
  /\ UNCHANGED situacao

(* The phase returns its metrics. *)
Concluir ==
  /\ situacao = "executando"
  /\ escritos = Chunks
  /\ situacao' = "concluida"
  /\ UNCHANGED escritos

(* The phase raises. *)
Falhar ==
  /\ situacao = "executando"
  /\ situacao' = "falhou"
  /\ UNCHANGED escritos

Terminar == Concluir \/ Falhar

Next == (\E c \in Chunks : Escrever(c)) \/ Terminar

Contrato == Init /\ [][Next]_varsFase

Spec == Contrato /\ WF_varsFase(Terminar)
================================================================================
