---------------------------- MODULE EtlChordProps ------------------------------
(* What a run with --celery guarantees. *)
EXTENDS EtlChord

(* Every variable has its type. *)
TypeOK ==
  /\ comando \in [Ids -> Comando]
  /\ situacao \in [Ids -> {"inexistente", "em_execucao", "concluido",
                           "interrompido"}]
  /\ checkpoint \in Checkpoint
  /\ chord \in [Elos -> Chord]
  /\ escrito \subseteq Ids \X Fases \X Chunks
  /\ usos \in [{"falhas", "duplicatas"} -> Nat]

(* Every chunk of phase f was written by executions of the lineage l. *)
FaseEscrita(l, f) == \A c \in ChunksDaFase[f] : <<l, f, c>> \in escrito

(* The tables a phase refers to are loaded before it: its chord is published  *)
(* only when every phase before it was written, by its execution or by those  *)
(* it continues, though callbacks come twice and chains run at once.          *)
FasesEmOrdem ==
  \A k \in Elos :
    chord[k].etapa # "ausente" =>
      \A f \in 1..k[2] - 1 : FaseEscrita(comando[k[1]].linhagem, f)

(* A checkpoint at page f is never ahead of the data: a chain that continues  *)
(* from it leaves no phase unwritten.                                         *)
CheckpointCoberto ==
  \A f \in 1..checkpoint.pagina :
    FaseEscrita(comando[checkpoint.exec].linhagem, f)

(* An execution is concluded only when every chunk of every phase was         *)
(* written, whatever failed, died or came twice.                              *)
ConcluidoCompleto ==
  \A e \in Ids :
    situacao[e] = "concluido" =>
      \A f \in Fases : FaseEscrita(comando[e].linhagem, f)

(* The executions of a domain run with --celery, seen as what they do for     *)
(* each request: a phase is done when every chunk of it was written by        *)
(* executions that serve the request, and one that reads nothing always is.   *)
Comecadas == {e \in Ids : comando[e].etapa # "ausente"}
PedidoDe == [e \in Ids |-> IF e \in Comecadas THEN comando[e].linhagem ELSE 0]
EscopoDe == [e \in Ids |-> IF e \in Comecadas THEN Fases ELSE {}]
FeitasPara == [r \in Ids |-> {f \in Fases : FaseEscrita(r, f)}]
Concluidas == {e \in Ids : situacao[e] = "concluido"}
SemChunks == {f \in Fases : ChunksDaFase[f] = {}}

Pedido ==
  INSTANCE EtlPedido
    WITH Vazias <- SemChunks, pedido <- PedidoDe, escopo <- EscopoDe,
         feitas <- FeitasPara, concluidas <- Concluidas

(* A chain of chords implements requests (EtlPedido) like the execution       *)
(* control does: with callbacks that come twice, workers that die and chains  *)
(* that run at once, an execution is reported concluded only when every phase *)
(* was written for the request it serves, and nothing is written for one      *)
(* that was not made.                                                         *)
ImplementaPedido == Pedido!Spec

(* A chain ends unless one of its steps failed for good: a chunk out of       *)
(* retries, or a callback or a launch lost, which nobody retries.             *)
Perdida(e) ==
  \/ comando[e].etapa = "falhou"
  \/ \E k \in Elos : k[1] = e /\ chord[k].etapa = "falhou"

(* Every execution launched is concluded or lost in one of those ways: empty  *)
(* phases, retries, dead workers and limpar-orfas do not stop a chain.        *)
CadeiaConclui ==
  []<>(\A e \in Ids :
         comando[e].etapa = "lancado" => situacao[e] = "concluido" \/ Perdida(e))

-------------------------------------------------------------------------------
(* The inductive invariant. *)

Linhagem(k) == comando[k[1]].linhagem

(* A chord that was published is that of a command that launched; the phases  *)
(* before it were written, and so were the chunks its tasks say they wrote;   *)
(* its callback runs when every task is done.                                 *)
EloCerto(k) ==
  chord[k].etapa # "ausente" =>
    /\ comando[k[1]].etapa = "lancado"
    /\ \A f \in 1..k[2] - 1 : FaseEscrita(Linhagem(k), f)
    /\ \A c \in ChunksDaFase[k[2]] :
         chord[k].chunk[c] \in {"escrito", "feito"}
           => <<Linhagem(k), k[2], c>> \in escrito
    /\ chord[k].etapa \in {"callback", "gravado", "encerrado"} =>
         \A c \in Chunks : chord[k].chunk[c] = "feito"

ElosCertos == \A k \in Elos : EloCerto(k)

(* A command starts after phases that its lineage wrote. *)
InicioCoberto ==
  \A e \in Ids : comando[e].etapa # "ausente" =>
    \A f \in 1..comando[e].inicio - 1 : FaseEscrita(comando[e].linhagem, f)

(* A checkpoint is that of an execution that launched. *)
CheckpointLancado ==
  checkpoint.pagina > 0 =>
    checkpoint.exec \in Ids /\ comando[checkpoint.exec].etapa = "lancado"

(* A situation is that of an execution that began. *)
SituacaoIniciada ==
  \A e \in Ids :
    situacao[e] # "inexistente" => comando[e].etapa # "ausente"

(* What ImplementaPedido needs besides ChordInv: a request is one that began. *)
LinhagemIniciada ==
  \A e \in Comecadas : comando[e].linhagem \in Comecadas

ChordInv ==
  /\ TypeOK
  /\ ElosCertos /\ InicioCoberto
  /\ CheckpointLancado /\ CheckpointCoberto
  /\ SituacaoIniciada /\ ConcluidoCompleto
===============================================================================
