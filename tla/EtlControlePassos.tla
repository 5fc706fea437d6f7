--------------------------- MODULE EtlControlePassos ---------------------------
(***************************************************************************)
(* Proofs, for every number of phases, processes, executions and tasks, of *)
(* what no step of the execution control does: an execution gets one       *)
(* verdict, since a process runs it alone and no longer once it has given  *)
(* the verdict; and every step is one of a request (EtlPedido) or changes  *)
(* nothing that a request shows.                                           *)
(***************************************************************************)
EXTENDS EtlControleProofs

(* The situations that are a verdict of the process that ran the execution. *)
Vereditos == {"erro", "concluido"}

(* A step that registers no execution keeps VInv when every process that goes *)
(* on running keeps its execution, and a verdict is given only to an          *)
(* execution that nobody runs any more.                                       *)
LEMMA VereditoEstavel ==
  ASSUME VInv, TypeOK,
         \A p \in Processos : proc'[p].etapa \in EtapasDeRun =>
           /\ proc[p].etapa \in EtapasDeRun
           /\ proc'[p].exec = proc[p].exec
           /\ situacao'[proc[p].exec] \in Vereditos =>
                situacao[proc[p].exec] \in Vereditos
  PROVE  VInv'
<1> SUFFICES ASSUME NEW p \in Processos, proc'[p].etapa \in EtapasDeRun
             PROVE  /\ situacao'[proc'[p].exec] \notin Vereditos
                    /\ \A q \in Processos \ {p} :
                         proc'[q].etapa \in EtapasDeRun =>
                           proc'[q].exec # proc'[p].exec
  BY DEF VInv, ExecucaoPropria, Vereditos
<1>1. ExecucaoPropria(p)
  BY DEF VInv
<1>2. QED
  BY <1>1 DEF ExecucaoPropria, Vereditos

(* A process that takes a task up registers its execution first.              *)
LEMMA ComecarEtapa ==
  ASSUME TypeOK, NEW p \in Processos, NEW t, Comecar(p, t)
  PROVE  \A q \in Processos :
           proc'[q] = proc[q] \/ proc'[q].etapa = "registrando"
<1>1. proc \in [Processos -> Processo]
  BY DEF TypeOK
<1>2. [Livre EXCEPT !.etapa = "registrando", !.task = t,
                    !.inicio = PontoPartida(t),
                    !.base = Base(t), !.cobre = Cobertura(t)].etapa = "registrando"
  BY DEF Livre
<1>3. QED
  BY <1>1, <1>2 DEF Comecar

(* A step from one stage to the next keeps the execution.                     *)
LEMMA IrParaMesma ==
  ASSUME TypeOK, NEW p \in Processos, NEW etapa, IrPara(p, etapa)
  PROVE  /\ proc'[p].etapa = etapa /\ proc'[p].exec = proc[p].exec
         /\ \A q \in Processos \ {p} : proc'[q] = proc[q]
<1>1. proc \in [Processos -> Processo] /\ proc[p] \in Processo
  BY DEF TypeOK
<1>2. proc' = [proc EXCEPT ![p] = [@ EXCEPT !.etapa = etapa]]
  BY DEF IrPara
<1>3. QED
  BY <1>1, <1>2 DEF Processo

(* A process that takes another step of its run, leaves it, or never was in   *)
(* it, keeps its execution.                                                   *)
LEMMA MesmaExecucao ==
  ASSUME TypeOK, NEW p \in Processos, NEW q \in Processos,
         Passo(p) \/ RegistrarParcial(p) \/ Receber(p) \/ Imprevisto(p),
         ~IniciarExecucao(p), proc'[q].etapa \in EtapasDeRun
  PROVE  proc[q].etapa \in EtapasDeRun /\ proc'[q].exec = proc[q].exec
<1> USE DEF EtapasDeRun, EmTry
<1>1. proc \in [Processos -> Processo]
  BY DEF TypeOK
<1>2. CASE RegistrarParcial(p)
  BY <1>2 DEF RegistrarParcial
<1>3. CASE Receber(p)
  BY <1>1, <1>3, ComecarEtapa DEF Receber, ReceberTask
<1>4. CASE Imprevisto(p)
  <2>1. CASE Morrer(p)
    BY <1>1, <2>1 DEF Morrer, Livre
  <2>2. CASE ~Morrer(p)
    BY <1>4, <2>2, IrParaMesma DEF Imprevisto, Falhar, FalharForaDoTry, Interromper
  <2>3. QED BY <2>1, <2>2
<1>5. CASE IniciarFase(p) \/ ConcluirFase(p)
  <2>1. proc[p].etapa \in EtapasDeRun /\ proc[p] \in Processo
    BY <1>1, <1>5 DEF IniciarFase, ConcluirFase
  <2>2. CASE IniciarFase(p)
    <3>1. PICK f : proc' = [proc EXCEPT ![p] =
                     [@ EXCEPT !.etapa = "fase", !.atual = f]]
      BY <2>2 DEF IniciarFase
    <3>2. QED
      BY <1>1, <2>1, <3>1 DEF Processo
  <2>3. CASE ConcluirFase(p)
    <3>1. PICK u : proc' = [proc EXCEPT ![p] =
                     [@ EXCEPT !.etapa = "rodando", !.ultima = u, !.atual = 0]]
      BY <2>3 DEF ConcluirFase
    <3>2. QED
      BY <1>1, <2>1, <3>1 DEF Processo
  <2>4. QED BY <1>5, <2>2, <2>3
<1>6. CASE SincronizarFase(p) \/ GravarSucesso(p) \/ GravarErro(p)
           \/ GravarInterrupcao(p)
  BY <1>6, IrParaMesma DEF SincronizarFase, GravarSucesso, GravarErro,
     GravarInterrupcao
<1>7. CASE FinalizarSucesso(p) \/ FinalizarErro(p)
  BY <1>7, IrParaMesma DEF FinalizarSucesso, FinalizarErro, FinalizarExecucao
<1>8. CASE Retornar(p) \/ Reagendar(p) \/ FinalizarInterrupcao(p)
  BY <1>1, <1>8 DEF Retornar, Reagendar, FinalizarInterrupcao, Livre
<1>9. QED
  BY <1>2, <1>3, <1>4, <1>5, <1>6, <1>7, <1>8 DEF Passo

(* A step that changes no situation reverses no verdict.                      *)
SemReversao == \A e \in Ids : {situacao[e], situacao'[e]} # Vereditos

LEMMA SituacaoIgual ==
  ASSUME TypeOK, UNCHANGED situacao
  PROVE  SemReversao
<1>1. \A e \in Ids : {situacao[e], situacao'[e]} = {situacao[e]}
  OBVIOUS
<1>2. \A v : {v} # Vereditos
  BY DEF Vereditos
<1>3. QED
  BY <1>1, <1>2 DEF SemReversao

(* Requests, clean-up and cancellation touch no process and give no verdict.  *)
LEMMA ApiVeredito ==
  ASSUME IInv, VInv,
         \/ \E c \in BOOLEAN, s \in Selecoes : Disparar(c, s)
         \/ RetomarInterrompidas \/ ReprocessarErros
         \/ LerOrfas \/ ConsultarCelery \/ CeleryIndisponivel \/ TratarOrfa
         \/ MarcarCheckpoint \/ ResponderLimpeza
         \/ \E e \in Ids : LerCancelamento(e)
         \/ SalvarCancelamento \/ CancelarExecucoes
         \/ UNCHANGED vars
  PROVE  VInv' /\ SemReversao
<1>1. UNCHANGED proc
  BY DEF Disparar, RetomarInterrompidas, ReprocessarErros, AgendarRetomada,
     LerOrfas, ConsultarCelery, CeleryIndisponivel, TratarOrfa, PreservarViva,
     InterromperOrfa, MarcarCheckpoint, ResponderLimpeza, LerCancelamento,
     SalvarCancelamento, CancelarExecucoes, vars
<1>2. situacao \in [Ids -> Situacoes]
  BY DEF IInv, TypeOK
<1>3. \A e \in Ids : situacao'[e] \in Vereditos => situacao'[e] = situacao[e]
  <2>1. CASE UNCHANGED situacao
    BY <2>1
  <2>2. CASE TratarOrfa
    BY <1>2, <2>2 DEF TratarOrfa, PreservarViva, InterromperOrfa, Vereditos
  <2>3. CASE SalvarCancelamento
    BY <1>2, <2>3 DEF SalvarCancelamento, Vereditos
  <2>4. CASE CancelarExecucoes
    BY <1>2, <2>4 DEF CancelarExecucoes, Vereditos
  <2>5. QED
    BY <2>1, <2>2, <2>3, <2>4 DEF Disparar, RetomarInterrompidas,
       ReprocessarErros, AgendarRetomada, LerOrfas, ConsultarCelery,
       CeleryIndisponivel, MarcarCheckpoint, ResponderLimpeza,
       LerCancelamento, vars
<1>4. VInv'
  <2>1. \A p \in Processos : proc[p].etapa \in EtapasDeRun => proc[p].exec \in Ids
    BY ExecucaoRegistrada
  <2>2. QED
    BY <1>1, <1>3, <2>1, VereditoEstavel DEF IInv
<1>5. SemReversao
  BY <1>3 DEF SemReversao, Vereditos
<1>6. QED
  BY <1>4, <1>5

(* A new execution has a number that no process holds.                        *)
LEMMA IniciarExecucaoVeredito ==
  ASSUME IInv, VInv, NEW p \in Processos, IniciarExecucao(p)
  PROVE  VInv' /\ SemReversao
<1> DEFINE e == numExec + 1
<1>1. /\ proc \in [Processos -> Processo]
      /\ situacao \in [Ids -> Situacoes]
      /\ numExec \in 0..MaxExecucoes
  BY DEF IInv, TypeOK
<1>2. e \in Ids /\ situacao' = [situacao EXCEPT ![e] = "em_execucao"]
  BY <1>1, ControleAssumption DEF IniciarExecucao, Ids
<1>3. /\ proc'[p].exec = e
      /\ \A q \in Processos \ {p} : proc'[q] = proc[q]
  BY <1>1 DEF IniciarExecucao, Processo
<1>4. \A q \in Processos : proc[q].etapa \in EtapasDeRun =>
         proc[q].exec \in Ids /\ proc[q].exec < e
  <2> SUFFICES ASSUME NEW q \in Processos, proc[q].etapa \in EtapasDeRun
               PROVE  proc[q].exec \in Ids /\ proc[q].exec < e
    OBVIOUS
  <2>1. proc[q].exec \in Ids /\ proc[q].exec <= numExec
    BY ExecucaoRegistrada
  <2>2. QED
    BY <1>1, <2>1, ControleAssumption DEF Ids
<1>5. e \in Nat
  BY <1>1, ControleAssumption
<1>6. SemReversao
  BY <1>1, <1>2 DEF SemReversao, Vereditos
<1> HIDE DEF e
<1>7. ASSUME NEW q \in Processos, proc'[q].etapa \in EtapasDeRun
      PROVE  /\ situacao'[proc'[q].exec] \notin {"erro", "concluido"}
             /\ \A r \in Processos \ {q} :
                  proc'[r].etapa \in EtapasDeRun => proc'[r].exec # proc'[q].exec
  <2>1. CASE q = p
    <3>1. situacao'[proc'[q].exec] = "em_execucao"
      BY <1>1, <1>2, <1>3, <2>1
    <3>2. \A r \in Processos \ {q} : proc'[r].etapa \in EtapasDeRun => proc'[r].exec < e
      BY <1>3, <1>4, <2>1
    <3>3. QED
      BY <1>3, <1>5, <2>1, <3>1, <3>2
  <2>2. CASE q # p
    <3>1. proc'[q] = proc[q] /\ proc[q].exec \in Ids /\ proc[q].exec < e
      BY <1>3, <1>4, <1>7, <2>2
    <3>2. ExecucaoPropria(q)
      BY DEF VInv
    <3>3. proc[q].exec # e
      BY <1>5, <3>1
    <3>4. situacao'[proc[q].exec] = situacao[proc[q].exec]
      BY <1>1, <1>2, <3>1, <3>3
    <3>5. ASSUME NEW r \in Processos \ {q}, proc'[r].etapa \in EtapasDeRun
          PROVE  proc'[r].exec # proc'[q].exec
      BY <1>3, <1>7, <3>1, <3>2, <3>3, <3>5 DEF ExecucaoPropria
    <3>6. QED
      BY <1>7, <3>1, <3>2, <3>4, <3>5 DEF ExecucaoPropria
  <2>3. QED BY <2>1, <2>2
<1>8. VInv'
  BY <1>7 DEF VInv, ExecucaoPropria
<1>9. QED
  BY <1>6, <1>8

(* The verdict is given by the only process that runs the execution, to an    *)
(* execution that has none, and the process runs it no more.                  *)
LEMMA FinalizarVeredito ==
  ASSUME IInv, VInv, NEW p \in Processos,
         FinalizarSucesso(p) \/ FinalizarErro(p) \/ FinalizarInterrupcao(p)
  PROVE  VInv' /\ SemReversao
<1>1. /\ proc \in [Processos -> Processo]
      /\ situacao \in [Ids -> Situacoes]
  BY DEF IInv, TypeOK
<1>2. proc[p].etapa \in EtapasDeRun
  BY DEF FinalizarSucesso, FinalizarErro, FinalizarInterrupcao,
     FinalizarExecucao, EtapasDeRun, EmTry
<1>3. proc'[p].etapa \notin EtapasDeRun
  <2>1. CASE FinalizarInterrupcao(p)
    BY <1>1, <2>1 DEF FinalizarInterrupcao, Livre, EtapasDeRun, EmTry
  <2>2. CASE ~FinalizarInterrupcao(p)
    BY <2>2, IrParaMesma DEF FinalizarSucesso, FinalizarErro, EtapasDeRun, EmTry, IInv
  <2>3. QED BY <2>1, <2>2
<1>4. \A q \in Processos \ {p} : proc'[q] = proc[q]
  BY <1>1 DEF FinalizarSucesso, FinalizarErro, FinalizarInterrupcao, IrPara
<1>5. \A d \in Ids : d # proc[p].exec => situacao'[d] = situacao[d]
  BY <1>1 DEF FinalizarSucesso, FinalizarErro, FinalizarInterrupcao,
     FinalizarExecucao
<1>6. ExecucaoPropria(p)
  BY DEF VInv
<1>7. situacao[proc[p].exec] \notin Vereditos
  BY <1>2, <1>6 DEF ExecucaoPropria, Vereditos
<1>8. SemReversao
  BY <1>5, <1>7 DEF SemReversao, Vereditos
<1>9. \A q \in Processos : proc[q].etapa \in EtapasDeRun => proc[q].exec \in Ids
  BY ExecucaoRegistrada
<1>10. ASSUME NEW q \in Processos, proc'[q].etapa \in EtapasDeRun
       PROVE  /\ proc[q].etapa \in EtapasDeRun
              /\ proc'[q].exec = proc[q].exec
              /\ situacao'[proc[q].exec] = situacao[proc[q].exec]
  BY <1>2, <1>3, <1>4, <1>5, <1>6, <1>9, <1>10 DEF ExecucaoPropria
<1>11. VInv'
  BY <1>10, VereditoEstavel DEF IInv
<1>12. QED
  BY <1>8, <1>11

(* The other steps of a process change no situation.                          *)
LEMMA PassoVeredito ==
  ASSUME IInv, VInv, NEW p \in Processos,
         Passo(p) \/ RegistrarParcial(p) \/ Receber(p) \/ Imprevisto(p)
  PROVE  VInv' /\ SemReversao
<1>1. CASE IniciarExecucao(p)
  BY <1>1, IniciarExecucaoVeredito
<1>2. CASE FinalizarSucesso(p) \/ FinalizarErro(p) \/ FinalizarInterrupcao(p)
  BY <1>2, FinalizarVeredito
<1>3. CASE ~(\/ IniciarExecucao(p) \/ FinalizarSucesso(p) \/ FinalizarErro(p)
             \/ FinalizarInterrupcao(p))
  <2>1. UNCHANGED situacao
    BY <1>3 DEF Passo, IniciarFase, SincronizarFase, ConcluirFase,
       GravarSucesso, Retornar, GravarErro, Reagendar, GravarInterrupcao,
       RegistrarParcial, Receber, ReceberTask, Imprevisto, Falhar,
       FalharForaDoTry, Interromper, Morrer
  <2>2. VInv'
    BY <1>3, <2>1, MesmaExecucao, VereditoEstavel DEF IInv
  <2>3. QED
    BY <2>1, <2>2, SituacaoIgual DEF IInv
<1>4. QED
  BY <1>1, <1>2, <1>3

(* Every step keeps the executions apart and reverses no verdict.             *)
LEMMA NextVeredito ==
  IInv /\ VInv /\ [Next]_vars => VInv' /\ SemReversao
<1> SUFFICES ASSUME IInv, VInv, [Next]_vars PROVE VInv' /\ SemReversao
  OBVIOUS
<1>1. ASSUME NEW p \in Processos,
             Passo(p) \/ RegistrarParcial(p) \/ Receber(p) \/ Imprevisto(p)
      PROVE  VInv' /\ SemReversao
  BY <1>1, PassoVeredito
<1>2. ASSUME NEW p \in Terminais, NEW c \in BOOLEAN, NEW f \in 0..NumFases,
             NEW s \in Selecoes, RodarNoTerminal(p, c, f, s)
      PROVE  VInv' /\ SemReversao
  <2>1. PICK t : Comecar(p, t)
    BY <1>2 DEF RodarNoTerminal
  <2>2. p \in Processos /\ UNCHANGED situacao
    BY <1>2 DEF RodarNoTerminal, Processos
  <2>3. "registrando" \notin EtapasDeRun
    BY DEF EtapasDeRun, EmTry
  <2>4. VInv'
    BY <2>1, <2>2, <2>3, ComecarEtapa, VereditoEstavel DEF IInv
  <2>5. QED
    BY <2>2, <2>4, SituacaoIgual DEF IInv
<1>3. QED
  BY <1>1, <1>2, ApiVeredito DEF Next

(* A run gives one verdict: whatever is retried, cancelled, cleaned up or     *)
(* killed around it, _handle_sync never turns "erro" into "concluido" or back,*)
(* since no two processes ever run the same row of EtlExecucao.               *)
THEOREM VereditoDefinitivo == Spec => VereditoUnico
<1>1. Init => VInv
  BY DEF Init, VInv, ExecucaoPropria, Livre, EtapasDeRun, EmTry
<1>2. IInv /\ VInv /\ [Next]_vars
        => [\A e \in Ids : {situacao[e], situacao'[e]} # {"erro", "concluido"}]_vars
  BY NextVeredito DEF SemReversao, Vereditos
<1>3. QED
  BY <1>1, <1>2, NextVeredito, InvarianteDoControle, PTL DEF Spec, VereditoUnico

-------------------------------------------------------------------------------
(* Every step is a step of EtlPedido, or shows nothing. *)

(* A step that registers no execution, synchronises no phase and concludes    *)
(* nothing shows at most that a conclusion was overwritten.                   *)
LEMMA SemPedido ==
  ASSUME UNCHANGED <<numExec, ficha, sinc>>,
         \A e \in Ids : situacao'[e] = "concluido" => situacao[e] = "concluido"
  PROVE  Pedido!Next
<1>1. UNCHANGED <<PedidoDe, EscopoDe, FeitasPara>>
  BY DEF PedidoDe, EscopoDe, FeitasPara
<1>2. Concluidas' \in SUBSET Concluidas
  BY DEF Concluidas
<1>3. QED
  BY <1>1, <1>2 DEF Pedido!Next, Pedido!Sobrescrever

(* Such a step keeps PedidoInv, unless a process takes a task up.             *)
LEMMA SemRegistro ==
  ASSUME PedidoInv, UNCHANGED <<numExec, ficha, sinc>>,
         \A e \in Ids : situacao'[e] = "concluido" => situacao[e] = "concluido",
         \A p \in Processos :
           proc'[p].etapa = "registrando" => proc'[p] = proc[p]
  PROVE  PedidoInv'
<1>1. SincPassada' /\ ConcluidaRegistrada'
  BY DEF PedidoInv, SincPassada, ConcluidaRegistrada, Concluidas
<1>2. ASSUME NEW p \in Processos PROVE BaseRegistrada(p)'
  <2>1. proc'[p] # proc[p] => proc'[p].etapa # "registrando"
    OBVIOUS
  <2>2. BaseRegistrada(p)
    BY DEF PedidoInv
  <2>3. QED
    BY <2>1, <2>2 DEF BaseRegistrada
<1>3. QED
  BY <1>1, <1>2 DEF PedidoInv

(* A process that takes a task up continues a request that exists: that of    *)
(* the execution that wrote the checkpoint.                                   *)
LEMMA ComecarPedido ==
  ASSUME IInv, PedidoInv, NEW p \in Processos, NEW t, Comecar(p, t),
         UNCHANGED <<numExec, situacao, ficha, sinc>>
  PROVE  PedidoInv'
<1>1. SincPassada' /\ ConcluidaRegistrada'
  BY DEF PedidoInv, SincPassada, ConcluidaRegistrada, Concluidas
<1>2. proc'[p].base = Base(t)
  <2>1. [Livre EXCEPT !.etapa = "registrando", !.task = t,
                      !.inicio = PontoPartida(t),
                      !.base = Base(t), !.cobre = Cobertura(t)].base = Base(t)
    BY DEF Livre
  <2>2. QED
    BY <2>1 DEF Comecar, IInv, TypeOK
<1>3. Base(t) # 0 => \E d \in 1..numExec : ficha[d].linhagem = Base(t)
  <2>1. SUFFICES ASSUME Herda(t)
                 PROVE  \E d \in 1..numExec : ficha[d].linhagem = Base(t)
    BY DEF Base
  <2>2. checkpoint.exec \in Ids /\ checkpoint.exec <= numExec
    BY <2>1, PontoRetomavel DEF IInv, Herda, CheckpointRegistrado
  <2>3. checkpoint.exec \in 1..numExec
    BY <2>2, ControleAssumption DEF Ids, IInv, TypeOK
  <2>4. QED
    BY <2>1, <2>3 DEF Base
<1>4. ASSUME NEW q \in Processos PROVE BaseRegistrada(q)'
  <2>1. CASE q = p
    BY <1>2, <1>3, <2>1 DEF BaseRegistrada
  <2>2. CASE q # p
    <3>1. proc'[q] = proc[q]
      BY <2>2 DEF Comecar, IInv, TypeOK
    <3>2. QED
      BY <3>1 DEF PedidoInv, BaseRegistrada
  <2>3. QED BY <2>1, <2>2
<1>5. QED
  BY <1>1, <1>4 DEF PedidoInv

(* Registering an execution begins a request, or goes on with the one that    *)
(* its process found in the checkpoint.                                       *)
LEMMA IniciarExecucaoPedido ==
  ASSUME IInv, PedidoInv, NEW p \in Processos, IniciarExecucao(p)
  PROVE  PedidoInv' /\ Pedido!Next
<1>1. PICK e \in Ids : e = numExec + 1
  <2>1. numExec \in 0..MaxExecucoes
    BY DEF IInv, TypeOK
  <2>2. numExec + 1 \in Ids
    BY <2>1, ControleAssumption DEF IniciarExecucao, Ids
  <2>3. QED BY <2>2
<1> DEFINE nova == [task |-> proc[p].task.id, fases |-> proc[p].task.fases,
                    raiz |-> proc[p].task.raiz, desde |-> proc[p].task.desde,
                    cobre |-> proc[p].cobre,
                    linhagem |-> IF proc[p].base = 0 THEN e ELSE proc[p].base]
<1>2. /\ numExec \in Nat /\ e \in Nat /\ e # 0
      /\ \A d \in Ids : d \in Nat /\ (d <= e <=> d <= numExec \/ d = e)
      /\ ~(e <= numExec)
  BY <1>1, ControleAssumption DEF IInv, TypeOK, Ids
<1>3. /\ ficha' = [ficha EXCEPT ![e] = nova]
      /\ nova.cobre = proc[p].cobre
      /\ nova.linhagem = IF proc[p].base = 0 THEN e ELSE proc[p].base
  BY <1>1 DEF IniciarExecucao
<1> HIDE DEF nova
<1>4. /\ numExec' = e /\ proc[p].etapa = "registrando"
      /\ situacao' = [situacao EXCEPT ![e] = "em_execucao"]
      /\ proc' = [proc EXCEPT ![p] = [@ EXCEPT !.etapa = "rodando", !.exec = e]]
      /\ UNCHANGED sinc
  BY <1>1 DEF IniciarExecucao
<1>5. ficha'[e] = nova /\ \A d \in Ids \ {e} : ficha'[d] = ficha[d]
  BY <1>3 DEF IInv, TypeOK
<1>6. proc[p].cobre \in SUBSET Fases
  BY DEF IInv, TypeOK, Processo
<1>7. UNCHANGED Concluidas
  <2>1. situacao[e] # "concluido"
    BY <1>2 DEF PedidoInv, ConcluidaRegistrada, Concluidas
  <2>2. QED
    BY <1>4, <2>1 DEF Concluidas, IInv, TypeOK
<1>8. PedidoInv'
  <2>1. SincPassada' /\ ConcluidaRegistrada'
    <3>1. \A f \in Fases : sinc[f] <= numExec /\ sinc[f] \in Nat
      BY ControleAssumption DEF PedidoInv, SincPassada, IInv, TypeOK
    <3>2. QED
      BY <1>1, <1>2, <1>4, <1>7, <3>1
      DEF PedidoInv, SincPassada, ConcluidaRegistrada, Concluidas
  <2>2. proc'[p].etapa = "rodando"
    BY <1>4 DEF IInv, TypeOK, Processo
  <2>3. ASSUME NEW q \in Processos PROVE BaseRegistrada(q)'
    <3>1. CASE q = p
      BY <2>2, <3>1 DEF BaseRegistrada
    <3>2. CASE q # p
      <4>1. proc'[q] = proc[q]
        BY <1>4, <3>2 DEF IInv, TypeOK
      <4>2. \A d \in 1..numExec : d \in 1..numExec' /\ ficha'[d] = ficha[d]
        <5>1. \A d \in 1..numExec : d \in Ids \ {e} /\ d \in 1..e
          BY <1>1, <1>2, ControleAssumption DEF Ids
        <5>2. QED BY <1>4, <1>5, <5>1
      <4>3. QED
        BY <4>1, <4>2 DEF PedidoInv, BaseRegistrada
    <3>3. QED BY <3>1, <3>2
  <2>4. QED
    BY <2>1, <2>3 DEF PedidoInv
<1>9. Pedido!Iniciar(e)
  <2>1. PedidoDe[e] = 0
    BY <1>2 DEF PedidoDe
  <2>2. PedidoDe' = [PedidoDe EXCEPT ![e] = nova.linhagem]
    BY <1>2, <1>4, <1>5 DEF PedidoDe
  <2>3. nova.linhagem \in {e} \cup {PedidoDe[d] : d \in Pedido!Iniciadas}
    <3>1. CASE proc[p].base = 0
      BY <1>3, <3>1
    <3>2. CASE proc[p].base # 0
      <4>1. PICK d \in 1..numExec : ficha[d].linhagem = proc[p].base
        BY <1>4, <3>2 DEF PedidoInv, BaseRegistrada
      <4>2. d \in Ids /\ d <= numExec
        BY <1>2, <4>1, ControleAssumption DEF Ids, IInv, TypeOK
      <4>3. PedidoDe[d] = proc[p].base
        BY <4>1, <4>2 DEF PedidoDe
      <4>4. QED
        BY <1>3, <3>2, <4>2, <4>3 DEF Pedido!Iniciadas
    <3>3. QED BY <3>1, <3>2
  <2>4. EscopoDe' = [EscopoDe EXCEPT ![e] = proc[p].cobre]
    <3>1. \A d \in Ids :
            ficha'[d].cobre = IF d = e THEN proc[p].cobre ELSE ficha[d].cobre
      BY <1>3, <1>5
    <3>2. QED BY <3>1 DEF EscopoDe
  <2>5. UNCHANGED FeitasPara
    BY <1>4 DEF FeitasPara
  <2>6. QED
    BY <1>6, <1>7, <2>1, <2>2, <2>3, <2>4, <2>5 DEF Pedido!Iniciar
<1>10. QED
  BY <1>8, <1>9 DEF Pedido!Next

(* Synchronising a phase does it for the requests made up to the execution    *)
(* that ran it, and for none to come.                                         *)
LEMMA SincronizarPedido ==
  ASSUME IInv, PedidoInv, NEW p \in Processos, SincronizarFase(p)
  PROVE  PedidoInv' /\ Pedido!Next
<1> DEFINE x == proc[p].exec
           f == proc[p].atual
           rs == {r \in Ids : r <= x}
<1>1. proc[p].etapa \in EtapasDeRun /\ proc[p].etapa = "fase"
  BY DEF SincronizarFase, EtapasDeRun, EmTry
<1>2. x \in Ids /\ x <= numExec /\ numExec \in Nat
  BY <1>1, ExecucaoRegistrada, ControleAssumption DEF IInv, TypeOK
<1>3. \A r \in Ids : r \in Nat \ {0}
  BY ControleAssumption DEF Ids
<1>4. \A g \in Fases : sinc[g] \in Nat
  BY ControleAssumption DEF IInv, TypeOK
<1>5. /\ sinc' = [sinc EXCEPT ![f] = IF sinc[f] < x THEN x ELSE sinc[f]]
      /\ IrPara(p, "sincronizada")
      /\ UNCHANGED <<numExec, situacao, ficha>>
  BY DEF SincronizarFase
<1> HIDE DEF x, f
<1>6. \A g \in Fases : sinc'[g] =
        IF g = f THEN IF sinc[g] < x THEN x ELSE sinc[g] ELSE sinc[g]
  BY <1>5 DEF IInv, TypeOK
<1>7. PedidoInv'
  <2>1. SincPassada' /\ ConcluidaRegistrada'
    BY <1>2, <1>3, <1>4, <1>5, <1>6
    DEF PedidoInv, SincPassada, ConcluidaRegistrada, Concluidas
  <2>2. ASSUME NEW q \in Processos PROVE BaseRegistrada(q)'
    <3>1. proc'[q].etapa = "registrando" => proc'[q] = proc[q]
      BY <1>5, IrParaMesma DEF IInv
    <3>2. QED
      BY <1>5, <3>1 DEF PedidoInv, BaseRegistrada
  <2>3. QED
    BY <2>1, <2>2 DEF PedidoInv
<1>8. UNCHANGED <<PedidoDe, EscopoDe, Concluidas>>
  BY <1>5 DEF PedidoDe, EscopoDe, Concluidas
<1>9. CASE f \in Fases
  <2>1. rs \in SUBSET Pedido!Iniciadas
    <3>1. ASSUME NEW r \in rs PROVE PedidoDe[r] # 0
      <4>1. r <= numExec
        BY <1>2, <1>3
      <4>2. ficha[r].linhagem \in Ids
        BY DEF IInv, TypeOK, Ficha
      <4>3. QED
        BY <1>3, <4>1, <4>2 DEF PedidoDe
    <3>2. QED
      BY <3>1 DEF Pedido!Iniciadas
  <2>2. FeitasPara' = [r \in Ids |-> IF r \in rs THEN FeitasPara[r] \cup {f}
                                               ELSE FeitasPara[r]]
    <3>1. ASSUME NEW r \in Ids
          PROVE  {g \in Fases : sinc'[g] >= r} =
                   IF r \in rs THEN {g \in Fases : sinc[g] >= r} \cup {f}
                   ELSE {g \in Fases : sinc[g] >= r}
      <4>1. \A g \in Fases :
              sinc'[g] >= r <=> sinc[g] >= r \/ (g = f /\ r \in rs)
        BY <1>2, <1>3, <1>4, <1>6
      <4>2. QED
        BY <1>9, <4>1
    <3>2. QED
      BY <3>1 DEF FeitasPara
  <2> HIDE DEF rs
  <2>3. Pedido!Fazer(f)
    BY <1>8, <2>1, <2>2 DEF Pedido!Fazer
  <2>4. QED
    BY <1>7, <1>9, <2>3 DEF Pedido!Next
<1>10. CASE f \notin Fases
  <2>1. UNCHANGED FeitasPara
    <3>1. \A g \in Fases : sinc'[g] = sinc[g]
      BY <1>6, <1>10
    <3>2. QED
      BY <3>1 DEF FeitasPara
  <2>2. QED
    BY <1>7, <1>8, <2>1 DEF Pedido!Next, Pedido!Sobrescrever
<1>11. QED
  BY <1>9, <1>10

(* An execution is reported concluded with every phase it answers for.        *)
LEMMA FinalizarSucessoPedido ==
  ASSUME IInv, PedidoInv, NEW p \in Processos, FinalizarSucesso(p)
  PROVE  PedidoInv' /\ Pedido!Next
<1> DEFINE x == proc[p].exec
<1>1. proc[p].etapa \in EtapasDeRun /\ proc[p].etapa = "sucesso"
  BY DEF FinalizarSucesso, FinalizarExecucao, EtapasDeRun, EmTry
<1>2. /\ x \in Ids /\ x <= numExec
      /\ ficha[x].cobre \subseteq Fases /\ ficha[x].linhagem \in Ids
  BY <1>1, ExecucaoRegistrada DEF Ficha
<1>3. /\ situacao' = [situacao EXCEPT ![x] = "concluido"]
      /\ IrPara(p, "retornando")
      /\ UNCHANGED <<numExec, ficha, sinc>>
  BY DEF FinalizarSucesso, FinalizarExecucao
<1>4. \A g \in ficha[x].cobre : sinc[g] >= ficha[x].linhagem
  BY <1>1 DEF IInv, RunCoberto, Passada, Coberta
<1> HIDE DEF x
<1>5. Concluidas' = Concluidas \cup {x}
  BY <1>2, <1>3 DEF Concluidas, IInv, TypeOK
<1>6. PedidoInv'
  <2>1. SincPassada' /\ ConcluidaRegistrada'
    BY <1>2, <1>3, <1>5 DEF PedidoInv, SincPassada, ConcluidaRegistrada
  <2>2. ASSUME NEW q \in Processos PROVE BaseRegistrada(q)'
    <3>1. proc'[q].etapa = "registrando" => proc'[q] = proc[q]
      BY <1>3, IrParaMesma DEF IInv
    <3>2. QED
      BY <1>3, <3>1 DEF PedidoInv, BaseRegistrada
  <2>3. QED
    BY <2>1, <2>2 DEF PedidoInv
<1>7. Pedido!Concluir(x)
  <2>1. PedidoDe[x] = ficha[x].linhagem
    BY <1>2 DEF PedidoDe
  <2>2. x \in Pedido!Iniciadas
    BY <1>2, <2>1, ControleAssumption DEF Pedido!Iniciadas, Ids
  <2>3. EscopoDe[x] \subseteq FeitasPara[PedidoDe[x]]
    BY <1>2, <1>4, <2>1 DEF EscopoDe, FeitasPara
  <2>4. UNCHANGED <<PedidoDe, EscopoDe, FeitasPara>>
    BY <1>3 DEF PedidoDe, EscopoDe, FeitasPara
  <2>5. QED
    BY <1>5, <2>2, <2>3, <2>4 DEF Pedido!Concluir
<1>8. QED
  BY <1>2, <1>6, <1>7 DEF Pedido!Next

(* The other steps of a process show nothing of a request.                    *)
LEMMA PassoPedido ==
  ASSUME IInv, PedidoInv, NEW p \in Processos,
         Passo(p) \/ RegistrarParcial(p) \/ Receber(p) \/ Imprevisto(p)
  PROVE  PedidoInv' /\ Pedido!Next
<1>1. CASE IniciarExecucao(p)
  BY <1>1, IniciarExecucaoPedido
<1>2. CASE SincronizarFase(p)
  BY <1>2, SincronizarPedido
<1>3. CASE FinalizarSucesso(p)
  BY <1>3, FinalizarSucessoPedido
<1>4. CASE Receber(p)
  <2>1. PICK t \in fila : ReceberTask(p, t)
    BY <1>4 DEF Receber
  <2>2. Comecar(p, t) /\ UNCHANGED <<numExec, situacao, ficha, sinc>>
    BY <2>1 DEF ReceberTask
  <2>3. QED
    BY <2>2, ComecarPedido, SemPedido
<1>5. CASE ~(IniciarExecucao(p) \/ SincronizarFase(p) \/ FinalizarSucesso(p)
             \/ Receber(p))
  <2>1. UNCHANGED <<numExec, ficha, sinc>>
    BY <1>5 DEF Passo, IniciarFase, ConcluirFase, GravarSucesso, Retornar,
       GravarErro, FinalizarErro, FinalizarExecucao, Reagendar,
       GravarInterrupcao, FinalizarInterrupcao, RegistrarParcial, Imprevisto,
       Falhar, FalharForaDoTry, Interromper, Morrer
  <2>2. \A e \in Ids : situacao'[e] = "concluido" => situacao[e] = "concluido"
    BY <1>5 DEF Passo, IniciarFase, ConcluirFase, GravarSucesso, Retornar,
       GravarErro, FinalizarErro, FinalizarExecucao, Reagendar,
       GravarInterrupcao, FinalizarInterrupcao, RegistrarParcial, Imprevisto,
       Falhar, FalharForaDoTry, Interromper, Morrer, IInv, TypeOK
  <2>3. \A q \in Processos :
          proc'[q].etapa = "registrando" => proc'[q] = proc[q]
    <3>1. proc \in [Processos -> Processo] /\ TypeOK
      BY DEF IInv, TypeOK
    <3>2. CASE RegistrarParcial(p)
      BY <3>2 DEF RegistrarParcial
    <3>3. CASE Morrer(p) \/ Retornar(p) \/ Reagendar(p) \/ FinalizarInterrupcao(p)
      BY <3>1, <3>3 DEF Morrer, Retornar, Reagendar, FinalizarInterrupcao, Livre
    <3>4. CASE IniciarFase(p) \/ ConcluirFase(p)
      <4>1. /\ proc'[p].etapa \in {"fase", "rodando"}
            /\ \A q \in Processos \ {p} : proc'[q] = proc[q]
        BY <3>1, <3>4 DEF IniciarFase, ConcluirFase, Processo
      <4>2. QED BY <4>1
    <3>5. CASE GravarSucesso(p) \/ GravarErro(p) \/ GravarInterrupcao(p)
      BY <3>1, <3>5, IrParaMesma DEF GravarSucesso, GravarErro, GravarInterrupcao
    <3>6. CASE FinalizarErro(p) \/ Falhar(p) \/ FalharForaDoTry(p) \/ Interromper(p)
      BY <3>1, <3>6, IrParaMesma
      DEF FinalizarErro, Falhar, FalharForaDoTry, Interromper
    <3>7. QED
      BY <1>5, <3>2, <3>3, <3>4, <3>5, <3>6 DEF Passo, Imprevisto
  <2>4. QED
    BY <2>1, <2>2, <2>3, SemPedido, SemRegistro
<1>6. QED
  BY <1>1, <1>2, <1>3, <1>4, <1>5

(* Requests to the API, the clean-up and cancellations conclude nothing.      *)
LEMMA ApiPedido ==
  ASSUME IInv, PedidoInv,
         \/ \E c \in BOOLEAN, s \in Selecoes : Disparar(c, s)
         \/ RetomarInterrompidas \/ ReprocessarErros
         \/ LerOrfas \/ ConsultarCelery \/ CeleryIndisponivel \/ TratarOrfa
         \/ MarcarCheckpoint \/ ResponderLimpeza
         \/ \E e \in Ids : LerCancelamento(e)
         \/ SalvarCancelamento \/ CancelarExecucoes
         \/ UNCHANGED vars
  PROVE  PedidoInv' /\ Pedido!Next
<1>1. UNCHANGED <<numExec, ficha, sinc, proc>>
  BY DEF Disparar, RetomarInterrompidas, ReprocessarErros, AgendarRetomada,
     LerOrfas, ConsultarCelery, CeleryIndisponivel, TratarOrfa, PreservarViva,
     InterromperOrfa, MarcarCheckpoint, ResponderLimpeza, LerCancelamento,
     SalvarCancelamento, CancelarExecucoes, vars
<1>2. situacao \in [Ids -> Situacoes]
  BY DEF IInv, TypeOK
<1>3. \A e \in Ids : situacao'[e] = "concluido" => situacao[e] = "concluido"
  <2>1. CASE UNCHANGED situacao
    BY <2>1
  <2>2. CASE TratarOrfa
    BY <1>2, <2>2 DEF TratarOrfa, PreservarViva, InterromperOrfa
  <2>3. CASE SalvarCancelamento
    BY <1>2, <2>3 DEF SalvarCancelamento
  <2>4. CASE CancelarExecucoes
    BY <1>2, <2>4 DEF CancelarExecucoes
  <2>5. QED
    BY <2>1, <2>2, <2>3, <2>4 DEF Disparar, RetomarInterrompidas,
       ReprocessarErros, AgendarRetomada, LerOrfas, ConsultarCelery,
       CeleryIndisponivel, MarcarCheckpoint, ResponderLimpeza,
       LerCancelamento, vars
<1>4. QED
  BY <1>1, <1>3, SemPedido, SemRegistro

(* Every step of the execution control is a step of a request.                *)
LEMMA NextPedido ==
  IInv /\ PedidoInv /\ [Next]_vars => PedidoInv' /\ Pedido!Next
<1> SUFFICES ASSUME IInv, PedidoInv, [Next]_vars PROVE PedidoInv' /\ Pedido!Next
  OBVIOUS
<1>1. ASSUME NEW p \in Processos,
             Passo(p) \/ RegistrarParcial(p) \/ Receber(p) \/ Imprevisto(p)
      PROVE  PedidoInv' /\ Pedido!Next
  BY <1>1, PassoPedido
<1>2. ASSUME NEW p \in Terminais, NEW c \in BOOLEAN, NEW f \in 0..NumFases,
             NEW s \in Selecoes, RodarNoTerminal(p, c, f, s)
      PROVE  PedidoInv' /\ Pedido!Next
  <2>1. PICK t : Comecar(p, t)
    BY <1>2 DEF RodarNoTerminal
  <2>2. p \in Processos /\ UNCHANGED <<numExec, situacao, ficha, sinc>>
    BY <1>2 DEF RodarNoTerminal, Processos
  <2>3. QED
    BY <2>1, <2>2, ComecarPedido, SemPedido
<1>3. QED
  BY <1>1, <1>2, ApiPedido DEF Next

(* The execution control implements requests: however many processes,         *)
(* failures, kills, retries, clean-ups and resumptions there are, the         *)
(* checkpoint makes an execution skip only what its request has done.         *)
THEOREM PedidoAtendido == Spec => ImplementaPedido
<1>1. Init => Pedido!Init
  <2> SUFFICES ASSUME Init PROVE Pedido!Init
    OBVIOUS
  <2>1. \A e \in Ids : e \in Nat /\ ~(e <= 0) /\ ~(0 >= e)
    BY ControleAssumption DEF Ids
  <2>2. PedidoDe = [e \in Ids |-> 0] /\ EscopoDe = [e \in Ids |-> {}]
    BY <2>1 DEF Init, PedidoDe, EscopoDe
  <2>3. FeitasPara = [r \in Ids |-> {}]
    BY <2>1 DEF Init, FeitasPara
  <2>4. Concluidas = {}
    BY DEF Init, Concluidas
  <2>5. QED
    BY <2>2, <2>3, <2>4 DEF Pedido!Init
<1>2. Init => PedidoInv
  BY ControleAssumption DEF Init, PedidoInv, SincPassada, ConcluidaRegistrada,
     Concluidas, BaseRegistrada, Livre
<1>3. QED
  BY <1>1, <1>2, NextPedido, InvarianteDoControle, PTL
  DEF Spec, ImplementaPedido, Pedido!Spec
================================================================================
