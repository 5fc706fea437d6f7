------------------------------ MODULE EtlControle ------------------------------
(***************************************************************************)
(* Execution control of one ETL domain: the executions and the checkpoint  *)
(* of the audit database, the Celery tasks and terminal commands that run  *)
(* the phases (executar_dominio_task, BaseEtlCommand, BaseEtlService), and *)
(* the API that dispatches, cancels, cleans up and resumes executions.     *)
(*                                                                         *)
(* A process is one OS process that can run the domain's command: the      *)
(* child of a Celery worker, or a terminal.  Every write to the audit      *)
(* database is a step, so that a process may fail or die between two.      *)
(* Checkpoint, executions and recovery are all keyed by the domain; this   *)
(* is one domain.  Executions are numbered in the order they start.        *)
(***************************************************************************)
EXTENDS Integers, FiniteSets

CONSTANTS
  Workers,          \* Celery worker processes
  Terminais,        \* processes started with manage.py by an operator
  NumFases,         \* len(servico._fases)
  FaseFinal,        \* Command.fase_final
  Selecoes,         \* the sets of phases that --fases may select
  MaxTentativas,    \* max_tentativas of the recovery endpoints
  MaxRetries,       \* max_retries of executar_dominio_task
  MaxExecucoes,     \* bound: executions registered
  MaxTasks,         \* bound: Celery tasks published by the API and recovery
  MaxManuais,       \* bound: commands started on terminals
  MaxFalhas,        \* bound: exceptions and Ctrl+C while a command runs
  MaxQuedas,        \* bound: processes killed
  MaxCancelamentos, \* bound: calls of the cancel endpoint and command
  HeartbeatExpira   \* whether a live run may be silent beyond the limit

Fases == 1..NumFases
Ids == 1..MaxExecucoes
Processos == Workers \cup Terminais

(* Workers and terminals are different processes; fase_final is a phase of the
   service; every bound is a number.                                       *)
ASSUME ControleAssumption ==
  /\ Workers \cap Terminais = {}
  /\ NumFases \in Nat /\ FaseFinal \in 1..NumFases
  /\ Selecoes # {} /\ Selecoes \subseteq SUBSET Fases
  /\ MaxTentativas \in Nat /\ MaxRetries \in Nat
  /\ MaxExecucoes \in Nat /\ MaxTasks \in Nat /\ MaxManuais \in Nat
  /\ MaxFalhas \in Nat /\ MaxQuedas \in Nat /\ MaxCancelamentos \in Nat
  /\ HeartbeatExpira \in BOOLEAN

VARIABLES
  numExec,     \* number of rows of EtlExecucao
  situacao,    \* EtlExecucao.situacao
  ficha,       \* what a row keeps of its dispatch, and its history (below)
  checkpoint,  \* the row of EtlCheckpointDominio
  fila,        \* tasks in the broker
  numTasks,    \* task ids given out
  proc,        \* what each process is doing
  orfas,       \* the call of limpar-orfas in progress
  cancelando,  \* the execution a cancel call has read and not yet saved
  sinc,        \* last execution that synchronised each phase completely
  usos         \* how much of each environment bound is spent

vars == <<numExec, situacao, ficha, checkpoint, fila, numTasks, proc, orfas,
          cancelando, sinc, usos>>

-------------------------------------------------------------------------------
(* Types. *)

Situacoes == {"inexistente", "em_execucao", "concluido", "erro", "interrompido", "cancelado"}

(* celery: published to the broker (id > 0) or typed on a terminal (id = 0).
   raiz: execucao_origem of a recovery dispatch, 0 otherwise.
   desde is history: the first execution number a dispatch of a full run
   can get, 0 for a dispatch that asks to continue or forces a phase.      *)
Task == [id : 0..MaxTasks, continuar : BOOLEAN, fase : 0..NumFases,
         fases : Selecoes, raiz : 0..MaxExecucoes, retries : 0..MaxRetries,
         desde : 0..MaxExecucoes + 1]

(* linhagem and cobre are history.  An execution that starts from the
   checkpoint of another inherits what that one had covered: linhagem is the
   oldest execution it inherits from, cobre the phases it answers for.     *)
Ficha == [task : 0..MaxTasks, fases : Selecoes, raiz : 0..MaxExecucoes,
          desde : 0..MaxExecucoes + 1, linhagem : Ids, cobre : SUBSET Fases]

Checkpoint == [exec : 0..MaxExecucoes, pagina : 0..NumFases,
               situacao : {"pendente", "em_execucao", "concluido", "erro",
                           "interrompido"}]

Etapas == {"livre", "registrando", "rodando", "fase", "sincronizada",
           "sucesso", "retornando", "erro", "erro_gravado", "interrupcao",
           "interrupcao_gravada", "reagendando"}

(* inicio: fase_inicial (0: none); atual and ultima: fase_atual and
   ultima_fase_concluida; base and cobre are the history read with the
   checkpoint (base = 0 when nothing is inherited).                        *)
Processo == [etapa : Etapas, task : Task, exec : 0..MaxExecucoes,
             inicio : 0..NumFases, ultima : 0..NumFases, atual : 0..NumFases,
             base : 0..MaxExecucoes, cobre : SUBSET Fases]

TaskVazia == [id |-> 0, continuar |-> FALSE, fase |-> 0,
              fases |-> CHOOSE s \in Selecoes : TRUE, raiz |-> 0,
              retries |-> 0, desde |-> 0]

Livre == [etapa |-> "livre", task |-> TaskVazia, exec |-> 0, inicio |-> 0,
          ultima |-> 0, atual |-> 0, base |-> 0, cobre |-> {}]

SemLimpeza == [etapa |-> "parada", lista |-> {}, vivas |-> {}]

-------------------------------------------------------------------------------
(* Where a run starts: BaseEtlCommand._obter_ponto_partida. *)

(* Mutant: an interrupted phase is taken as finished, like a failed page.    *)
PontoAposInterrompida ==
  IF /\ checkpoint.situacao \in {"erro", "interrompido"}
     /\ 0 < checkpoint.pagina /\ checkpoint.pagina < FaseFinal
  THEN checkpoint.pagina + 1 ELSE 1

PontoDoCheckpoint ==
  CASE /\ checkpoint.situacao = "erro"
       /\ 0 < checkpoint.pagina /\ checkpoint.pagina < FaseFinal
         -> checkpoint.pagina + 1
    [] /\ checkpoint.situacao = "interrompido"
       /\ 0 < checkpoint.pagina /\ checkpoint.pagina <= FaseFinal
         -> checkpoint.pagina
    [] OTHER -> 1

PontoPartida(t) ==
  CASE t.fase > 0 -> t.fase
    [] t.fase = 0 /\ t.continuar -> PontoDoCheckpoint
    [] OTHER -> 1

(* What a run started now inherits, besides the phases it will execute. *)
Herda(t) == t.fase = 0 /\ t.continuar /\ PontoDoCheckpoint > 1
Base(t) == IF Herda(t) THEN ficha[checkpoint.exec].linhagem ELSE 0
Cobertura(t) ==
  LET i == PontoPartida(t)
  IN {f \in t.fases : f >= i}
       \cup (IF Herda(t) THEN {f \in ficha[checkpoint.exec].cobre : f < i} ELSE {})

(* A process takes a task up and reads the checkpoint. *)
Comecar(p, t) ==
  proc' = [proc EXCEPT ![p] =
    [Livre EXCEPT !.etapa = "registrando", !.task = t,
                  !.inicio = PontoPartida(t),
                  !.base = Base(t), !.cobre = Cobertura(t)]]

-------------------------------------------------------------------------------
Init ==
  /\ numExec = 0
  /\ situacao = [e \in Ids |-> "inexistente"]
  /\ ficha = [e \in Ids |->
       [task |-> 0, fases |-> CHOOSE s \in Selecoes : TRUE, raiz |-> 0,
        desde |-> 0, linhagem |-> e, cobre |-> {}]]
  /\ checkpoint = [exec |-> 0, pagina |-> 0, situacao |-> "pendente"]
  /\ fila = {}
  /\ numTasks = 0
  /\ proc = [p \in Processos |-> Livre]
  /\ orfas = SemLimpeza
  /\ cancelando = 0
  /\ sinc = [f \in Fases |-> 0]
  /\ usos = [manuais |-> 0, falhas |-> 0, quedas |-> 0, cancelamentos |-> 0]

Gastar(uso, limite) ==
  /\ usos[uso] < limite
  /\ usos' = [usos EXCEPT ![uso] = @ + 1]

-------------------------------------------------------------------------------
(* Dispatch. *)

Publicar(continuar, fases, raiz, desde) ==
  /\ numTasks < MaxTasks
  /\ numTasks' = numTasks + 1
  /\ fila' = fila \cup
       {[id |-> numTasks + 1, continuar |-> continuar, fase |-> 0,
         fases |-> fases, raiz |-> raiz, retries |-> 0, desde |-> desde]}

Desde(continuar) == IF continuar THEN 0 ELSE numExec + 1

(* POST dominios/<dominio>/executar/ and the command agendar_dominio. *)
Disparar(continuar, fases) ==
  /\ Publicar(continuar, fases, 0, Desde(continuar))
  /\ UNCHANGED <<numExec, situacao, ficha, checkpoint, proc, orfas,
                 cancelando, sinc, usos>>

(* manage.py etl_<dominio> [--continuar] [--fase N] [--fases ...] *)
RodarNoTerminal(p, continuar, fase, fases) ==
  /\ p \in Terminais /\ proc[p].etapa = "livre"
  /\ Gastar("manuais", MaxManuais)
  /\ Comecar(p, [id |-> 0, continuar |-> continuar, fase |-> fase,
                 fases |-> fases, raiz |-> 0, retries |-> 0,
                 desde |-> IF fase > 0 THEN 0 ELSE Desde(continuar)])
  /\ UNCHANGED <<numExec, situacao, ficha, checkpoint, fila, numTasks, orfas,
                 cancelando, sinc>>

(* The worker takes a task (acknowledged at once: acks_late is not set). *)
ReceberTask(p, t) ==
  /\ p \in Workers /\ proc[p].etapa = "livre"
  /\ t \in fila
  /\ fila' = fila \ {t}
  /\ Comecar(p, t)
  /\ UNCHANGED <<numExec, situacao, ficha, checkpoint, numTasks, orfas,
                 cancelando, sinc, usos>>

-------------------------------------------------------------------------------
(* A run, step by step. *)

IrPara(p, etapa) == proc' = [proc EXCEPT ![p].etapa = etapa]

(* RepositorioAuditoriaPostgres.iniciar_execucao *)
IniciarExecucao(p) ==
  /\ proc[p].etapa = "registrando"
  /\ numExec < MaxExecucoes
  /\ LET e == numExec + 1
         t == proc[p].task
     IN /\ numExec' = e
        /\ situacao' = [situacao EXCEPT ![e] = "em_execucao"]
        /\ ficha' = [ficha EXCEPT ![e] =
             [task |-> t.id, fases |-> t.fases, raiz |-> t.raiz,
              desde |-> t.desde, cobre |-> proc[p].cobre,
              linhagem |-> IF proc[p].base = 0 THEN e ELSE proc[p].base]]
        /\ proc' = [proc EXCEPT ![p] = [@ EXCEPT !.etapa = "rodando",
                                                 !.exec = e]]
  /\ UNCHANGED <<checkpoint, fila, numTasks, orfas, cancelando, sinc, usos>>

(* The selected phases the loop of BaseEtlService.executar has yet to run. *)
Pendentes(p) ==
  {f \in proc[p].task.fases : f >= proc[p].inicio /\ f > proc[p].ultima}

GravarCheckpoint(p, pagina, sit) ==
  checkpoint' = [exec |-> proc[p].exec, pagina |-> pagina, situacao |-> sit]

IniciarFase(p) ==
  /\ proc[p].etapa = "rodando"
  /\ \E f \in Pendentes(p) :
       /\ \A g \in Pendentes(p) : f <= g
       /\ proc' = [proc EXCEPT ![p] = [@ EXCEPT !.etapa = "fase", !.atual = f]]
  /\ UNCHANGED <<numExec, situacao, ficha, checkpoint, fila, numTasks, orfas,
                 cancelando, sinc, usos>>

(* _registrar_progresso_parcial: a chunk went by and the phase goes on. *)
RegistrarParcial(p) ==
  /\ proc[p].etapa = "fase"
  /\ GravarCheckpoint(p, proc[p].atual, "em_execucao")
  /\ UNCHANGED <<numExec, situacao, ficha, fila, numTasks, proc, orfas,
                 cancelando, sinc, usos>>

(* The pipeline of _executar_fase has synchronised every row of the phase. *)
SincronizarFase(p) ==
  /\ proc[p].etapa = "fase"
  /\ sinc' = [sinc EXCEPT ![proc[p].atual] =
                IF @ < proc[p].exec THEN proc[p].exec ELSE @]
  /\ IrPara(p, "sincronizada")
  /\ UNCHANGED <<numExec, situacao, ficha, checkpoint, fila, numTasks, orfas,
                 cancelando, usos>>

(* _registrar_auditoria_fase, and the end of an iteration of executar. *)
ConcluirFase(p) ==
  /\ proc[p].etapa = "sincronizada"
  /\ GravarCheckpoint(p, proc[p].atual,
       IF proc[p].atual = NumFases THEN "concluido" ELSE "em_execucao")
  /\ proc' = [proc EXCEPT ![p] = [@ EXCEPT !.etapa = "rodando",
                                           !.ultima = proc[p].atual,
                                           !.atual = 0]]
  /\ UNCHANGED <<numExec, situacao, ficha, fila, numTasks, orfas, cancelando,
                 sinc, usos>>

(* _finalizar_com_sucesso, first write: the checkpoint. *)
GravarSucesso(p) ==
  /\ proc[p].etapa = "rodando" /\ Pendentes(p) = {}
  /\ GravarCheckpoint(p, proc[p].ultima, "concluido")
  /\ IrPara(p, "sucesso")
  /\ UNCHANGED <<numExec, situacao, ficha, fila, numTasks, orfas, cancelando,
                 sinc, usos>>

(* finalizar_execucao overwrites the situation, whatever it is. *)
FinalizarExecucao(p, etapa, sit) ==
  /\ proc[p].etapa = etapa
  /\ situacao' = [situacao EXCEPT ![proc[p].exec] = sit]
  /\ UNCHANGED <<numExec, ficha, checkpoint, fila, numTasks, orfas,
                 cancelando, sinc, usos>>

FinalizarSucesso(p) ==
  /\ FinalizarExecucao(p, "sucesso", "concluido")
  /\ IrPara(p, "retornando")

(* The command returns; the task reads the checkpoint again and ends. *)
Retornar(p) ==
  /\ proc[p].etapa = "retornando"
  /\ proc' = [proc EXCEPT ![p] = Livre]
  /\ UNCHANGED <<numExec, situacao, ficha, checkpoint, fila, numTasks, orfas,
                 cancelando, sinc, usos>>

-------------------------------------------------------------------------------
(* A run that goes wrong. *)

(* Mutant: what follows the verdict is still inside the try. *)
EmTryComRetorno == {"rodando", "fase", "sincronizada", "sucesso", "retornando"}

EmTry == {"rodando", "fase", "sincronizada", "sucesso"}

(* An exception inside the try of _handle_sync. *)
Falhar(p) ==
  /\ proc[p].etapa \in EmTry
  /\ Gastar("falhas", MaxFalhas)
  /\ IrPara(p, "erro")
  /\ UNCHANGED <<numExec, situacao, ficha, checkpoint, fila, numTasks, orfas,
                 cancelando, sinc>>

(* An exception outside it: the audit database fails before the execution is
   registered, while the failure is recorded, or when the task reads the
   checkpoint after a success.                                             *)
FalharForaDoTry(p) ==
  /\ proc[p].etapa \in {"registrando", "erro", "erro_gravado", "retornando"}
  /\ Gastar("falhas", MaxFalhas)
  /\ IrPara(p, "reagendando")
  /\ UNCHANGED <<numExec, situacao, ficha, checkpoint, fila, numTasks, orfas,
                 cancelando, sinc>>

(* Mutants: the failed phase is recorded as the last finished one; the phase
   before the current one is recorded even when there is no current one.   *)
GravarErroNaAtual(p) ==
  /\ proc[p].etapa = "erro"
  /\ GravarCheckpoint(p, IF proc[p].atual # 0 THEN proc[p].atual
                         ELSE proc[p].ultima, "erro")
  /\ IrPara(p, "erro_gravado")
  /\ UNCHANGED <<numExec, situacao, ficha, fila, numTasks, orfas, cancelando,
                 sinc, usos>>

GravarErroNaAnterior(p) ==
  /\ proc[p].etapa = "erro"
  /\ GravarCheckpoint(p, proc[p].atual - 1, "erro")
  /\ IrPara(p, "erro_gravado")
  /\ UNCHANGED <<numExec, situacao, ficha, fila, numTasks, orfas, cancelando,
                 sinc, usos>>

(* _finalizar_com_erro, first write. *)
GravarErro(p) ==
  /\ proc[p].etapa = "erro"
  /\ GravarCheckpoint(p,
       IF proc[p].atual # 0 /\ proc[p].atual - 1 > proc[p].ultima
       THEN proc[p].atual - 1 ELSE proc[p].ultima, "erro")
  /\ IrPara(p, "erro_gravado")
  /\ UNCHANGED <<numExec, situacao, ficha, fila, numTasks, orfas, cancelando,
                 sinc, usos>>

FinalizarErro(p) ==
  /\ FinalizarExecucao(p, "erro_gravado", "erro")
  /\ IrPara(p, "reagendando")

(* self.retry: the same task, always with continuar.  A terminal command
   just ends, and so does a task out of retries.                           *)
Reagendar(p) ==
  LET t == proc[p].task IN
  /\ proc[p].etapa = "reagendando"
  /\ fila' = IF p \in Workers /\ t.retries < MaxRetries
             THEN fila \cup {[t EXCEPT !.continuar = TRUE, !.retries = @ + 1]}
             ELSE fila
  /\ proc' = [proc EXCEPT ![p] = Livre]
  /\ UNCHANGED <<numExec, situacao, ficha, checkpoint, numTasks, orfas,
                 cancelando, sinc, usos>>

(* Ctrl+C on a terminal, inside the try. *)
Interromper(p) ==
  /\ p \in Terminais /\ proc[p].etapa \in EmTry
  /\ Gastar("falhas", MaxFalhas)
  /\ IrPara(p, "interrupcao")
  /\ UNCHANGED <<numExec, situacao, ficha, checkpoint, fila, numTasks, orfas,
                 cancelando, sinc>>

(* Mutant: an interruption is recorded like a failure. *)
GravarInterrupcaoComoErro(p) ==
  /\ proc[p].etapa = "interrupcao"
  /\ GravarCheckpoint(p,
       IF proc[p].atual # 0 THEN proc[p].atual ELSE proc[p].ultima, "erro")
  /\ IrPara(p, "interrupcao_gravada")
  /\ UNCHANGED <<numExec, situacao, ficha, fila, numTasks, orfas, cancelando,
                 sinc, usos>>

(* _finalizar_com_interrupcao, first write. *)
GravarInterrupcao(p) ==
  /\ proc[p].etapa = "interrupcao"
  /\ GravarCheckpoint(p,
       IF proc[p].atual # 0 THEN proc[p].atual ELSE proc[p].ultima,
       "interrompido")
  /\ IrPara(p, "interrupcao_gravada")
  /\ UNCHANGED <<numExec, situacao, ficha, fila, numTasks, orfas, cancelando,
                 sinc, usos>>

FinalizarInterrupcao(p) ==
  /\ FinalizarExecucao(p, "interrupcao_gravada", "interrompido")
  /\ proc' = [proc EXCEPT ![p] = Livre]

(* The process is killed: container restart, out of memory. *)
Morrer(p) ==
  /\ proc[p].etapa # "livre"
  /\ Gastar("quedas", MaxQuedas)
  /\ proc' = [proc EXCEPT ![p] = Livre]
  /\ UNCHANGED <<numExec, situacao, ficha, checkpoint, fila, numTasks, orfas,
                 cancelando, sinc>>

-------------------------------------------------------------------------------
(* POST execucoes/limpar-orfas/: read the executions, ask Celery, then for
   each execution in the order they started, save it and mark the domain's
   checkpoint.                                                             *)

(* Mutant: the clean-up looks only at the last execution of the domain. *)
LerUltimaOrfa ==
  /\ orfas.etapa = "parada" /\ numExec > 0
  /\ situacao[numExec] = "em_execucao"
  /\ orfas' = [etapa |-> "lida", lista |-> {numExec}, vivas |-> {}]
  /\ UNCHANGED <<numExec, situacao, ficha, checkpoint, fila, numTasks, proc,
                 cancelando, sinc, usos>>

LerOrfas ==
  LET lista == {e \in Ids : situacao[e] = "em_execucao"} IN
  /\ orfas.etapa = "parada" /\ lista # {}
  /\ orfas' = [etapa |-> "lida", lista |-> lista, vivas |-> {}]
  /\ UNCHANGED <<numExec, situacao, ficha, checkpoint, fila, numTasks, proc,
                 cancelando, sinc, usos>>

TasksAtivas == {proc[w].task.id : w \in {p \in Workers : proc[p].etapa # "livre"}}

(* The executions whose task Celery reports: active, or still in the broker
   but already prefetched (reserved) or scheduled by the worker.           *)
ConsultarCelery ==
  /\ orfas.etapa = "lida"
  /\ \E prefetch \in SUBSET {t.id : t \in fila} :
       orfas' = [orfas EXCEPT !.etapa = "tratando",
         !.vivas = {e \in orfas.lista : ficha[e].task \in
                                          (TasksAtivas \cup prefetch) \ {0}}]
  /\ UNCHANGED <<numExec, situacao, ficha, checkpoint, fila, numTasks, proc,
                 cancelando, sinc, usos>>

CeleryIndisponivel ==
  /\ orfas.etapa = "lida"
  /\ orfas' = SemLimpeza
  /\ UNCHANGED <<numExec, situacao, ficha, checkpoint, fila, numTasks, proc,
                 cancelando, sinc, usos>>

Proxima(e) == e \in orfas.lista /\ \A x \in orfas.lista : e <= x

PreservarViva(e) ==
  /\ orfas.etapa = "tratando" /\ Proxima(e) /\ e \in orfas.vivas
  /\ orfas' = [orfas EXCEPT !.lista = @ \ {e},
                          !.vivas = @ \ {e}]
  /\ UNCHANGED <<numExec, situacao, ficha, checkpoint, fila, numTasks, proc,
                 cancelando, sinc, usos>>

InterromperOrfa(e) ==
  /\ orfas.etapa = "tratando" /\ Proxima(e)
  /\ e \in orfas.vivas => HeartbeatExpira
  /\ situacao' = [situacao EXCEPT ![e] = "interrompido"]
  /\ orfas' = [orfas EXCEPT !.etapa = "marcando", !.lista = @ \ {e},
                          !.vivas = @ \ {e}]
  /\ UNCHANGED <<numExec, ficha, checkpoint, fila, numTasks, proc, cancelando,
                 sinc, usos>>

(* Mutant: the checkpoint is marked as failed. *)
MarcarCheckpointComErro ==
  /\ orfas.etapa = "marcando"
  /\ checkpoint' = IF checkpoint.situacao = "em_execucao"
                   THEN [checkpoint EXCEPT !.situacao = "erro"]
                   ELSE checkpoint
  /\ orfas' = [orfas EXCEPT !.etapa = "tratando"]
  /\ UNCHANGED <<numExec, situacao, ficha, fila, numTasks, proc, cancelando,
                 sinc, usos>>

(* marcar_checkpoint_interrompido *)
MarcarCheckpoint ==
  /\ orfas.etapa = "marcando"
  /\ checkpoint' = IF checkpoint.situacao = "em_execucao"
                   THEN [checkpoint EXCEPT !.situacao = "interrompido"]
                   ELSE checkpoint
  /\ orfas' = [orfas EXCEPT !.etapa = "tratando"]
  /\ UNCHANGED <<numExec, situacao, ficha, fila, numTasks, proc, cancelando,
                 sinc, usos>>

ResponderLimpeza ==
  /\ orfas.etapa = "tratando" /\ orfas.lista = {}
  /\ orfas' = SemLimpeza
  /\ UNCHANGED <<numExec, situacao, ficha, checkpoint, fila, numTasks, proc,
                 cancelando, sinc, usos>>

-------------------------------------------------------------------------------
(* Resuming the last execution: POST execucoes/retomar/ takes it only when
   interrupted, reprocessar-erros/ also when it failed.                    *)

Raiz(e) == IF ficha[e].raiz # 0 THEN ficha[e].raiz ELSE e
Tentativas(r) == {e \in Ids : ficha[e].raiz = r}

AgendarRetomada(situacoes) ==
  /\ numExec > 0 /\ situacao[numExec] \in situacoes
  /\ Cardinality(Tentativas(Raiz(numExec))) < MaxTentativas
  /\ Publicar(TRUE, ficha[numExec].fases, Raiz(numExec), ficha[numExec].desde)
  /\ UNCHANGED <<numExec, situacao, ficha, checkpoint, proc, orfas, cancelando,
                 sinc, usos>>

(* Mutant: the recovery takes only what failed. *)
RetomarErros == AgendarRetomada({"erro"})

RetomarInterrompidas == AgendarRetomada({"interrompido"})
ReprocessarErros == AgendarRetomada({"erro", "interrompido"})

-------------------------------------------------------------------------------
(* DELETE execucoes/<id>/ checks what it read, then saves; the process that
   runs the execution is not told.  cancelar_execucoes is one UPDATE.      *)

LerCancelamento(e) ==
  /\ cancelando = 0 /\ situacao[e] = "em_execucao"
  /\ Gastar("cancelamentos", MaxCancelamentos)
  /\ cancelando' = e
  /\ UNCHANGED <<numExec, situacao, ficha, checkpoint, fila, numTasks, proc,
                 orfas, sinc>>

SalvarCancelamento ==
  /\ cancelando # 0
  /\ situacao' = [situacao EXCEPT ![cancelando] = "cancelado"]
  /\ cancelando' = 0
  /\ UNCHANGED <<numExec, ficha, checkpoint, fila, numTasks, proc, orfas, sinc,
                 usos>>

CancelarExecucoes ==
  /\ \E e \in Ids : situacao[e] = "em_execucao"
  /\ Gastar("cancelamentos", MaxCancelamentos)
  /\ situacao' = [e \in Ids |-> IF situacao[e] = "em_execucao"
                                THEN "cancelado" ELSE situacao[e]]
  /\ UNCHANGED <<numExec, ficha, checkpoint, fila, numTasks, proc, orfas,
                 cancelando, sinc>>

-------------------------------------------------------------------------------
(* What a process does next when nothing goes wrong, or once it has. *)
Passo(p) ==
  \/ IniciarExecucao(p) \/ IniciarFase(p) \/ SincronizarFase(p)
  \/ ConcluirFase(p) \/ GravarSucesso(p) \/ FinalizarSucesso(p) \/ Retornar(p)
  \/ GravarErro(p) \/ FinalizarErro(p) \/ Reagendar(p)
  \/ GravarInterrupcao(p) \/ FinalizarInterrupcao(p)

Receber(p) == \E t \in fila : ReceberTask(p, t)

Imprevisto(p) ==
  Falhar(p) \/ FalharForaDoTry(p) \/ Interromper(p) \/ Morrer(p)

TratarOrfa == \E e \in Ids : PreservarViva(e) \/ InterromperOrfa(e)

Next ==
  \/ \E c \in BOOLEAN, s \in Selecoes : Disparar(c, s)
  \/ \E p \in Terminais, c \in BOOLEAN, f \in 0..NumFases, s \in Selecoes :
       RodarNoTerminal(p, c, f, s)
  \/ \E p \in Processos :
       Passo(p) \/ RegistrarParcial(p) \/ Receber(p) \/ Imprevisto(p)
  \/ LerOrfas \/ ConsultarCelery \/ CeleryIndisponivel \/ TratarOrfa
  \/ MarcarCheckpoint \/ ResponderLimpeza
  \/ RetomarInterrompidas \/ ReprocessarErros
  \/ \E e \in Ids : LerCancelamento(e)
  \/ SalvarCancelamento \/ CancelarExecucoes

Spec == Init /\ [][Next]_vars

(* A live process keeps running and a worker keeps taking tasks; cron runs
   recuperar_etl.sh (limpar-orfas, then retomar) every 30 minutes, and the
   worker does not fail to answer every inspection.                        *)
Justica ==
  /\ \A p \in Processos : WF_vars(Passo(p)) /\ WF_vars(Receber(p))
  /\ WF_vars(LerOrfas) /\ SF_vars(ConsultarCelery)
  /\ WF_vars(TratarOrfa) /\ WF_vars(MarcarCheckpoint)
  /\ WF_vars(ResponderLimpeza) /\ WF_vars(RetomarInterrompidas)
  /\ WF_vars(SalvarCancelamento)

FairSpec == Spec /\ Justica
================================================================================
