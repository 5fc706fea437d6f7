--------------------------- MODULE EtlControleProps ----------------------------
(* What the execution control of a domain guarantees, and what the            *)
(* repository says it guarantees and the code does not.                       *)
EXTENDS EtlControle

(* Every variable has the type the code gives it; in particular a checkpoint  *)
(* page and a starting phase are phases of the service (0 when there is       *)
(* none), so that a resumed run never indexes past _fases.                    *)
TypeOK ==
  /\ numExec \in 0..MaxExecucoes
  /\ situacao \in [Ids -> Situacoes]
  /\ ficha \in [Ids -> Ficha]
  /\ checkpoint \in Checkpoint
  /\ fila \subseteq Task
  /\ numTasks \in 0..MaxTasks
  /\ proc \in [Processos -> Processo]
  /\ orfas \in [etapa : {"parada", "lida", "tratando", "marcando"},
                lista : SUBSET Ids, vivas : SUBSET Ids]
  /\ cancelando \in 0..MaxExecucoes
  /\ sinc \in [Fases -> 0..MaxExecucoes]
  /\ usos \in [{"manuais", "falhas", "quedas", "cancelamentos"} -> Nat]

(* Phase f was synchronised completely by execution e or by one of those it   *)
(* inherits from (or by a later one).                                         *)
Coberta(f, e) == sinc[f] >= ficha[e].linhagem

(* The checkpoint never promises more than was done: every phase that a run   *)
(* resumed from it would skip has been synchronised since the run it belongs  *)
(* to began.  "erro" stores the last finished phase, "em_execucao" and        *)
(* "interrompido" the phase to repeat, "concluido" that nothing is left.      *)
CheckpointCoberto ==
  checkpoint.exec # 0 =>
    \A f \in ficha[checkpoint.exec].cobre :
      \/ checkpoint.situacao = "concluido"
      \/ f < checkpoint.pagina
      \/ f = checkpoint.pagina /\ checkpoint.situacao = "erro"
      => Coberta(f, checkpoint.exec)

(* An execution reported "concluido" has every phase it answers for, also     *)
(* those it skipped because its checkpoint said so, whatever failures, kills, *)
(* retries, clean-ups and concurrent runs came in between.                    *)
ConcluidoCoberto ==
  \A e \in Ids : situacao[e] = "concluido" =>
    \A f \in ficha[e].cobre : Coberta(f, e)

(* A run gives one verdict: no step turns "erro" into "concluido" or back     *)
(* (_handle_sync either finalises with success or with the error).            *)
VereditoUnico ==
  [][\A e \in Ids : {situacao[e], situacao'[e]} # {"erro", "concluido"}]_vars

(* The executions of a domain, seen as what they do for each request: one     *)
(* that continues from a checkpoint serves the request of the execution that  *)
(* wrote it, and a phase is done for a request once an execution that began   *)
(* with it or later has synchronised it.                                      *)
PedidoDe == [e \in Ids |-> IF e <= numExec THEN ficha[e].linhagem ELSE 0]
EscopoDe == [e \in Ids |-> ficha[e].cobre]
FeitasPara == [r \in Ids |-> {f \in Fases : sinc[f] >= r}]
Concluidas == {e \in Ids : situacao[e] = "concluido"}

Pedido ==
  INSTANCE EtlPedido
    WITH Vazias <- {}, pedido <- PedidoDe, escopo <- EscopoDe,
         feitas <- FeitasPara, concluidas <- Concluidas

(* The execution control implements requests (EtlPedido): whatever fails, is  *)
(* killed, retried, resumed or runs at once, an execution joins a request     *)
(* that exists, no phase is done before it is asked for, none is undone, and  *)
(* none is missing from an execution when it is reported concluded.           *)
ImplementaPedido == Pedido!Spec

(* No execution stays "em_execucao" for ever: its process ends it or, if it   *)
(* was killed, limpar-orfas does.                                             *)
ExecucaoTermina ==
  \A e \in Ids : situacao[e] = "em_execucao" ~> situacao[e] # "em_execucao"

(* The last execution, once interrupted, is followed by a resumed one unless  *)
(* it is closed otherwise, its attempts are spent or the model's bound on     *)
(* published tasks is reached.                                                *)
InterrompidaRetomada ==
  \A e \in Ids :
    e = numExec /\ situacao[e] = "interrompido"
      ~> \/ numExec > e \/ situacao[e] # "interrompido"
         \/ Cardinality(Tentativas(Raiz(e))) >= MaxTentativas
         \/ numTasks = MaxTasks

-------------------------------------------------------------------------------
(* The inductive invariant behind CheckpointCoberto and ConcluidoCoberto.     *)

(* Steps at which the process has an execution of its own.                    *)
EtapasDeRun == EmTry \cup {"erro", "erro_gravado", "interrupcao",
                           "interrupcao_gravada"}

CheckpointRegistrado ==
  /\ checkpoint.exec <= numExec
  /\ checkpoint.exec = 0 => checkpoint.pagina = 0

LinhagemPassada == \A e \in Ids : ficha[e].linhagem <= e

(* A process about to register its execution is past no phase of its own and  *)
(* inherits only covered ones.                                                *)
HerancaCoberta(p) ==
  proc[p].etapa = "registrando" =>
    /\ proc[p].base <= numExec
    /\ proc[p].ultima = 0 /\ proc[p].atual = 0
    /\ \A f \in proc[p].cobre :
         /\ f >= proc[p].inicio => f \in proc[p].task.fases
         /\ f < proc[p].inicio => proc[p].base # 0 /\ sinc[f] >= proc[p].base

(* The phases a running execution is past.                                    *)
Passada(f, p) ==
  \/ f < proc[p].inicio \/ f <= proc[p].ultima \/ f < proc[p].atual
  \/ f = proc[p].atual /\ proc[p].etapa = "sincronizada"
  \/ proc[p].etapa = "sucesso"

(* A running execution has covered the phases it is past, and the others it   *)
(* answers for are among those it was asked to run.                           *)
RunCoberto(p) ==
  proc[p].etapa \in EtapasDeRun =>
    /\ proc[p].exec \in 1..numExec
    /\ \A f \in ficha[proc[p].exec].cobre :
         /\ f >= proc[p].inicio => f \in proc[p].task.fases
         /\ Passada(f, p) => Coberta(f, proc[p].exec)

IInv ==
  /\ TypeOK
  /\ CheckpointRegistrado
  /\ LinhagemPassada
  /\ \A p \in Processos : HerancaCoberta(p) /\ RunCoberto(p)
  /\ CheckpointCoberto
  /\ ConcluidoCoberto

(* The inductive invariant behind VereditoUnico: a process that runs an       *)
(* execution is the only one to run it, and it has given no verdict yet.      *)
ExecucaoPropria(p) ==
  proc[p].etapa \in EtapasDeRun =>
    /\ situacao[proc[p].exec] \notin {"erro", "concluido"}
    /\ \A q \in Processos \ {p} :
         proc[q].etapa \in EtapasDeRun => proc[q].exec # proc[p].exec

VInv == \A p \in Processos : ExecucaoPropria(p)

(* What ImplementaPedido needs besides IInv: nothing was synchronised or      *)
(* concluded by an execution to come, so that a new request finds no phase    *)
(* done; and a process about to register its execution continues a request    *)
(* that exists.                                                               *)
SincPassada == \A f \in Fases : sinc[f] <= numExec

ConcluidaRegistrada == \A e \in Concluidas : e <= numExec

BaseRegistrada(p) ==
  proc[p].etapa = "registrando" /\ proc[p].base # 0 =>
    \E d \in 1..numExec : ficha[d].linhagem = proc[p].base

PedidoInv ==
  /\ SincPassada /\ ConcluidaRegistrada
  /\ \A p \in Processos : BaseRegistrada(p)

-------------------------------------------------------------------------------
(* What the repository says and the code does not do.                         *)

(* docs/dominios/programas/retomada.md: a run resumed with --continuar leaves *)
(* no phase skipped.  A concluded execution has every phase its request asked *)
(* for synchronised since that request was made.                              *)
NenhumaFasePulada ==
  \A e \in Ids : situacao[e] = "concluido" =>
    \A f \in ficha[e].fases : ficha[e].desde = 0 \/ sinc[f] >= ficha[e].desde

(* LimparOrfasView: marks executions that are still "em_execucao".            *)
LimpezaSoEmExecucao ==
  [][\A e \in Ids : InterromperOrfa(e) => situacao[e] = "em_execucao"]_vars

(* RetomarInterrompidasView: at most max_tentativas resumptions of a root.    *)
RetomadasLimitadas ==
  \A r \in Ids :
    Cardinality({ficha[e].task : e \in Tentativas(r)}) <= MaxTentativas
================================================================================
