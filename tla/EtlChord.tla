------------------------------- MODULE EtlChord --------------------------------
(***************************************************************************)
(* A domain run with --celery: the command publishes a Celery chord for    *)
(* the first phase, a task for each chunk (processar_chunk) and a callback *)
(* (finalizar_fase) that writes the checkpoint and publishes the chord of  *)
(* the next phase, until the last one finishes the execution.              *)
(*                                                                         *)
(* Chunk tasks are acknowledged late and retried; the callback is          *)
(* acknowledged early and is not.  The broker may deliver a callback again,*)
(* and a worker may die at any step.  limpar-orfas takes a running chain   *)
(* for an orphan: the task it looks for is the one that ran the command,   *)
(* which ended when the chord was published.                               *)
(***************************************************************************)
EXTENDS Integers, FiniteSets

CONSTANTS
  NumFases,       \* len(servico._fases), which is the command's fase_final
  Chunks,         \* identifiers of chunks
  ChunksDaFase,   \* the chunks each phase reads from the EOL
  MaxRetries,     \* max_retries of processar_chunk
  MaxExecucoes,   \* bound: executions registered
  MaxFalhas,      \* bound: exceptions raised and workers killed
  MaxDuplicatas   \* bound: callbacks delivered again

Fases == 1..NumFases
Ids == 1..MaxExecucoes
Copias == 0..MaxDuplicatas

ASSUME ChordAssumption ==
  /\ NumFases \in Nat \ {0}
  /\ ChunksDaFase \in [Fases -> SUBSET Chunks]
  /\ MaxRetries \in Nat /\ MaxExecucoes \in Nat
  /\ MaxFalhas \in Nat /\ MaxDuplicatas \in Nat

VARIABLES
  comando,     \* the command that launched each execution
  situacao,    \* EtlExecucao.situacao
  checkpoint,  \* the row of EtlCheckpointDominio
  chord,       \* the chord of each phase of each execution
  escrito,     \* history: chunks in the destination, by lineage of executions
  usos         \* history: how much of each bound was used

vars == <<comando, situacao, checkpoint, chord, escrito, usos>>

(* A chord is of an execution and a phase; one that comes from a callback
   delivered again is another copy.                                        *)
Elos == Ids \X Fases \X Copias

Chord == [etapa : {"ausente", "rodando", "callback", "gravado", "encerrado",
                   "falhou"},
          chunk : [Chunks -> {"pendente", "escrito", "feito", "falhou"}],
          tent : [Chunks -> 0..MaxRetries]]

(* linhagem is history: an execution that continues from the checkpoint of
   another has its lineage.                                                *)
Comando == [etapa : {"ausente", "iniciando", "lancando", "lancado", "falhou"},
            inicio : Fases, linhagem : Ids]

Checkpoint == [exec : 0..MaxExecucoes, pagina : 0..NumFases,
               situacao : {"pendente", "em_execucao", "concluido",
                           "interrompido"}]

Init ==
  /\ comando = [e \in Ids |-> [etapa |-> "ausente", inicio |-> 1, linhagem |-> e]]
  /\ situacao = [e \in Ids |-> "inexistente"]
  /\ checkpoint = [exec |-> 0, pagina |-> 0, situacao |-> "pendente"]
  /\ chord = [k \in Elos |-> [etapa |-> "ausente",
                              chunk |-> [c \in Chunks |-> "feito"],
                              tent |-> [c \in Chunks |-> 0]]]
  /\ escrito = {}
  /\ usos = [falhas |-> 0, duplicatas |-> 0]

Gastar(uso, limite) ==
  /\ usos[uso] < limite
  /\ usos' = [usos EXCEPT ![uso] = @ + 1]

-------------------------------------------------------------------------------
(* The command: BaseEtlCommand.handle with --celery. *)

(* _obter_ponto_partida: a chain never writes a checkpoint in error. *)
PontoDoCheckpoint ==
  IF checkpoint.situacao = "interrompido" /\ checkpoint.pagina > 0
  THEN checkpoint.pagina ELSE 1

Iniciar(e, continuar) ==
  LET p == IF continuar THEN PontoDoCheckpoint ELSE 1
  IN /\ comando[e].etapa = "ausente"
     /\ \A d \in Ids : d < e => comando[d].etapa # "ausente"
     /\ comando' = [comando EXCEPT ![e] =
          [etapa |-> "iniciando", inicio |-> p,
           linhagem |-> IF p > 1 THEN comando[checkpoint.exec].linhagem
                        ELSE e]]
     /\ UNCHANGED <<situacao, checkpoint, chord, escrito, usos>>

(* iniciar_execucao *)
Registrar(e) ==
  /\ comando[e].etapa = "iniciando"
  /\ comando' = [comando EXCEPT ![e].etapa = "lancando"]
  /\ situacao' = [situacao EXCEPT ![e] = "em_execucao"]
  /\ UNCHANGED <<checkpoint, chord, escrito, usos>>

(* A chord to publish: one without tasks is its callback alone. *)
Novo(f) ==
  [etapa |-> IF ChunksDaFase[f] = {} THEN "callback" ELSE "rodando",
   chunk |-> [c \in Chunks |-> IF c \in ChunksDaFase[f] THEN "pendente"
                               ELSE "feito"],
   tent |-> [c \in Chunks |-> 0]]

(* BaseEtlOrquestrador.lancar *)
Lancar(e) ==
  /\ comando[e].etapa = "lancando"
  /\ comando' = [comando EXCEPT ![e].etapa = "lancado"]
  /\ chord' = [chord EXCEPT ![<<e, comando[e].inicio, 0>>] =
                 Novo(comando[e].inicio)]
  /\ UNCHANGED <<situacao, checkpoint, escrito, usos>>

(* The EOL cannot be read, or the process dies; nobody finishes the
   execution.                                                              *)
FalharLancamento(e) ==
  /\ comando[e].etapa \in {"iniciando", "lancando"}
  /\ Gastar("falhas", MaxFalhas)
  /\ comando' = [comando EXCEPT ![e].etapa = "falhou"]
  /\ UNCHANGED <<situacao, checkpoint, chord, escrito>>

-------------------------------------------------------------------------------
(* processar_chunk *)

Fase(k) == k[2]

Marcado(k, c, estado) == [chord[k] EXCEPT !.chunk[c] = estado]

(* The rows of the chunk and their hashes are written (EtlLote). *)
Escrever(k, c) ==
  /\ chord[k].etapa \in {"rodando", "falhou"}
  /\ chord[k].chunk[c] = "pendente"
  /\ escrito' = escrito \cup {<<comando[k[1]].linhagem, Fase(k), c>>}
  /\ chord' = [chord EXCEPT ![k] = Marcado(k, c, "escrito")]
  /\ UNCHANGED <<comando, situacao, checkpoint, usos>>

(* The chord without chunk c: the last task fires the callback. *)
Contado(k, c) ==
  [Marcado(k, c, "feito") EXCEPT
     !.etapa = IF @ = "rodando"
                  /\ \A d \in Chunks \ {c} : chord[k].chunk[d] = "feito"
               THEN "callback" ELSE @]

(* Mutant: the task is counted before it has written. *)
TerminarAntes(k, c) ==
  /\ chord[k].etapa \in {"rodando", "falhou"}
  /\ chord[k].chunk[c] \in {"pendente", "escrito"}
  /\ chord' = [chord EXCEPT ![k] = Contado(k, c)]
  /\ UNCHANGED <<comando, situacao, checkpoint, escrito, usos>>

(* The task returns and is counted. *)
Terminar(k, c) ==
  /\ chord[k].etapa \in {"rodando", "falhou"}
  /\ chord[k].chunk[c] = "escrito"
  /\ chord' = [chord EXCEPT ![k] = Contado(k, c)]
  /\ UNCHANGED <<comando, situacao, checkpoint, escrito, usos>>

(* Mutant: an exception ends the task as if it had worked. *)
EngolirFalha(k, c) ==
  /\ chord[k].etapa \in {"rodando", "falhou"}
  /\ chord[k].chunk[c] \in {"pendente", "escrito"}
  /\ Gastar("falhas", MaxFalhas)
  /\ chord' = [chord EXCEPT ![k] = Contado(k, c)]
  /\ UNCHANGED <<comando, situacao, checkpoint, escrito>>

(* The task raises, before it wrote or after the rows and before the hashes:
   self.retry runs it again, and out of retries the chord fails.           *)
FalharChunk(k, c) ==
  /\ chord[k].etapa \in {"rodando", "falhou"}
  /\ chord[k].chunk[c] \in {"pendente", "escrito"}
  /\ Gastar("falhas", MaxFalhas)
  /\ chord' = [chord EXCEPT ![k] =
       IF chord[k].tent[c] < MaxRetries
       THEN [Marcado(k, c, "pendente") EXCEPT !.tent[c] = chord[k].tent[c] + 1]
       ELSE [Marcado(k, c, "falhou") EXCEPT !.etapa = "falhou"]]
  /\ UNCHANGED <<comando, situacao, checkpoint, escrito>>

(* The worker dies after the write: acks_late delivers the task again. *)
PerderWorker(k, c) ==
  /\ chord[k].etapa \in {"rodando", "falhou"}
  /\ chord[k].chunk[c] = "escrito"
  /\ Gastar("falhas", MaxFalhas)
  /\ chord' = [chord EXCEPT ![k] = Marcado(k, c, "pendente")]
  /\ UNCHANGED <<comando, situacao, checkpoint, escrito>>

-------------------------------------------------------------------------------
(* finalizar_fase *)

GravarCheckpoint(k) ==
  /\ chord[k].etapa = "callback"
  /\ checkpoint' = [exec |-> k[1], pagina |-> Fase(k),
                    situacao |-> IF Fase(k) = NumFases THEN "concluido"
                                 ELSE "em_execucao"]
  /\ chord' = [chord EXCEPT ![k].etapa = "gravado"]
  /\ UNCHANGED <<comando, situacao, escrito, usos>>

(* Mutant: todas_fases is indexed from 1. *)
LancarDuasAdiante(k) ==
  /\ chord[k].etapa = "gravado" /\ Fase(k) + 1 < NumFases
  /\ chord' = [chord EXCEPT ![k].etapa = "encerrado",
                            ![<<k[1], Fase(k) + 2, k[3]>>] = Novo(Fase(k) + 2)]
  /\ UNCHANGED <<comando, situacao, checkpoint, escrito, usos>>

(* Mutant: a phase without chunks ends the chain. *)
LancarSeHouverChunks(k) ==
  /\ chord[k].etapa = "gravado" /\ Fase(k) < NumFases
  /\ chord' = IF ChunksDaFase[Fase(k) + 1] = {}
              THEN [chord EXCEPT ![k].etapa = "encerrado"]
              ELSE [chord EXCEPT ![k].etapa = "encerrado",
                      ![<<k[1], Fase(k) + 1, k[3]>>] = Novo(Fase(k) + 1)]
  /\ UNCHANGED <<comando, situacao, checkpoint, escrito, usos>>

(* _lancar_fase_seguinte *)
LancarSeguinte(k) ==
  /\ chord[k].etapa = "gravado" /\ Fase(k) < NumFases
  /\ chord' = [chord EXCEPT ![k].etapa = "encerrado",
                            ![<<k[1], Fase(k) + 1, k[3]>>] = Novo(Fase(k) + 1)]
  /\ UNCHANGED <<comando, situacao, checkpoint, escrito, usos>>

(* finalizar_execucao, whatever the situation was. *)
Finalizar(k) ==
  /\ chord[k].etapa = "gravado" /\ Fase(k) = NumFases
  /\ situacao' = [situacao EXCEPT ![k[1]] = "concluido"]
  /\ chord' = [chord EXCEPT ![k].etapa = "encerrado"]
  /\ UNCHANGED <<comando, checkpoint, escrito, usos>>

(* The callback raises or its worker dies: it is not run again. *)
FalharCallback(k) ==
  /\ chord[k].etapa \in {"callback", "gravado"}
  /\ Gastar("falhas", MaxFalhas)
  /\ chord' = [chord EXCEPT ![k].etapa = "falhou"]
  /\ UNCHANGED <<comando, situacao, checkpoint, escrito>>

(* The broker delivers a callback again, late perhaps. *)
Duplicar(k) ==
  LET copia == usos.duplicatas + 1
  IN /\ chord[k].etapa \in {"callback", "gravado", "encerrado"}
     /\ Gastar("duplicatas", MaxDuplicatas)
     /\ chord' = [chord EXCEPT ![<<k[1], Fase(k), copia>>] =
                    [chord[k] EXCEPT !.etapa = "callback"]]
     /\ UNCHANGED <<comando, situacao, checkpoint, escrito>>

-------------------------------------------------------------------------------
(* limpar-orfas, for one execution (its steps are those of EtlControle). *)
LimparOrfa(e) ==
  /\ situacao[e] = "em_execucao"
  /\ situacao' = [situacao EXCEPT ![e] = "interrompido"]
  /\ checkpoint' = IF checkpoint.situacao = "em_execucao"
                   THEN [checkpoint EXCEPT !.situacao = "interrompido"]
                   ELSE checkpoint
  /\ UNCHANGED <<comando, chord, escrito, usos>>

-------------------------------------------------------------------------------

PassoComando(e) == Registrar(e) \/ Lancar(e)

PassoChunk(k, c) == Escrever(k, c) \/ Terminar(k, c)

PassoCallback(k) == GravarCheckpoint(k) \/ LancarSeguinte(k) \/ Finalizar(k)

Next ==
  \/ \E e \in Ids :
       \/ \E continuar \in BOOLEAN : Iniciar(e, continuar)
       \/ PassoComando(e) \/ FalharLancamento(e) \/ LimparOrfa(e)
  \/ \E k \in Elos :
       \/ PassoCallback(k) \/ FalharCallback(k) \/ Duplicar(k)
       \/ \E c \in Chunks :
            PassoChunk(k, c) \/ FalharChunk(k, c) \/ PerderWorker(k, c)

Spec == Init /\ [][Next]_vars

(* A command that started goes on, and live workers keep taking tasks. *)
FairSpec ==
  /\ Spec
  /\ WF_vars(\E e \in Ids : PassoComando(e))
  /\ WF_vars(\E k \in Elos : PassoCallback(k) \/ \E c \in Chunks : PassoChunk(k, c))
===============================================================================
