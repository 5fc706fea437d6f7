--------------------------- MODULE EtlControleProofs ---------------------------
(***************************************************************************)
(* Proofs, for every number of phases, processes, executions and tasks,    *)
(* that the execution control of a domain keeps its types and that neither *)
(* the checkpoint nor a concluded execution claims a phase that was not    *)
(* synchronised.                                                           *)
(***************************************************************************)
EXTENDS EtlControleProps, TLAPS

(* A checkpoint gives a starting phase past the first only when an execution  *)
(* wrote it, and then it vouches for every phase before that one.             *)
LEMMA PontoRetomavel ==
  ASSUME TypeOK, CheckpointRegistrado, PontoDoCheckpoint > 1
  PROVE  /\ checkpoint.exec \in Ids
         /\ \/ checkpoint.situacao = "erro"
               /\ PontoDoCheckpoint = checkpoint.pagina + 1
            \/ checkpoint.situacao = "interrompido"
               /\ PontoDoCheckpoint = checkpoint.pagina
<1>1. checkpoint \in Checkpoint
  BY DEF TypeOK
<1>2. /\ checkpoint.exec \in 0..MaxExecucoes
      /\ checkpoint.pagina \in 0..NumFases
  BY <1>1 DEF Checkpoint
<1>3. \/ checkpoint.situacao = "erro" /\ 0 < checkpoint.pagina
         /\ PontoDoCheckpoint = checkpoint.pagina + 1
      \/ checkpoint.situacao = "interrompido" /\ 0 < checkpoint.pagina
         /\ PontoDoCheckpoint = checkpoint.pagina
  BY <1>2, ControleAssumption DEF PontoDoCheckpoint
<1>4. QED
  BY <1>2, <1>3, ControleAssumption DEF CheckpointRegistrado, Ids

(* The starting point is a phase of the service. *)
LEMMA PontoFase ==
  ASSUME TypeOK
  PROVE  PontoDoCheckpoint \in Fases
<1>1. checkpoint.pagina \in 0..NumFases
  BY DEF TypeOK, Checkpoint
<1>2. QED
  BY <1>1, ControleAssumption DEF PontoDoCheckpoint, Fases

(* Taking a task up leaves the process well typed: the starting phase comes   *)
(* from --fase, from the checkpoint or is 1 (_obter_ponto_partida).           *)
LEMMA ComecarTipo ==
  ASSUME IInv, NEW p \in Processos, NEW t \in Task, Comecar(p, t)
  PROVE  proc' \in [Processos -> Processo]
<1>1. PontoDoCheckpoint \in Fases
  BY PontoFase DEF IInv
<1>2. PontoPartida(t) \in Fases
  BY <1>1, ControleAssumption DEF PontoPartida, Task, Fases
<1>3. Herda(t) => ficha[checkpoint.exec] \in Ficha
  BY PontoRetomavel DEF IInv, TypeOK, Herda
<1>4. Base(t) \in 0..MaxExecucoes /\ Cobertura(t) \in SUBSET Fases
  <2>1. t.fases \in SUBSET Fases
    BY ControleAssumption DEF Task
  <2>2. CASE Herda(t)
    BY <1>3, <2>1, <2>2, ControleAssumption DEF Base, Cobertura, Ficha, Ids
  <2>3. CASE ~Herda(t)
    BY <2>1, <2>3, ControleAssumption DEF Base, Cobertura
  <2>4. QED BY <2>2, <2>3
<1>5. Livre \in Processo
  BY ControleAssumption DEF Livre, Processo, TaskVazia, Task, Etapas, Ids
<1>6. PontoPartida(t) \in 0..NumFases
  BY <1>2, ControleAssumption DEF Fases
<1>7. QED
  BY <1>4, <1>5, <1>6 DEF IInv, TypeOK, Comecar, Processo, Etapas

(* What a process inherits from the checkpoint is covered: it skips only the  *)
(* phases the checkpoint vouches for.                                         *)
LEMMA ComecarHeranca ==
  ASSUME IInv, NEW p \in Processos, NEW t \in Task, Comecar(p, t),
         UNCHANGED <<numExec, ficha, sinc>>
  PROVE  \A q \in Processos : HerancaCoberta(q)' /\ RunCoberto(q)'
<1>1. \A q \in Processos : RunCoberto(q)'
  BY DEF IInv, TypeOK, RunCoberto, Comecar, Livre, Passada, Coberta, EtapasDeRun,
         EmTry, Processo
<1>2. HerancaCoberta(p)'
  <2>1. /\ proc'[p].inicio = PontoPartida(t) /\ proc'[p].base = Base(t)
        /\ proc'[p].cobre = Cobertura(t) /\ proc'[p].task = t
        /\ proc'[p].ultima = 0 /\ proc'[p].atual = 0
    BY DEF IInv, TypeOK, Comecar, Livre
  <2>2. /\ t.fases \in SUBSET Fases
        /\ PontoDoCheckpoint \in Nat
        /\ PontoPartida(t) \in Nat
        /\ numExec \in 0..MaxExecucoes
    <3>1. PontoDoCheckpoint \in Nat
      BY PontoFase, ControleAssumption DEF IInv, Fases
    <3>2. QED
      BY <3>1, ControleAssumption DEF IInv, TypeOK, Task, PontoPartida
  <2>3. CASE Herda(t)
    <3>1. PontoPartida(t) = PontoDoCheckpoint
      BY <2>3 DEF Herda, PontoPartida
    <3>2. PICK x \in Ids : x = checkpoint.exec /\ x <= numExec
      BY <2>3, PontoRetomavel DEF IInv, Herda, CheckpointRegistrado
    <3>3. ficha[x] \in Ficha /\ ficha[x].linhagem <= x
      BY DEF IInv, TypeOK, LinhagemPassada
    <3>4. /\ ficha[x].linhagem \in Ids /\ ficha[x].linhagem # 0
          /\ ficha[x].linhagem <= numExec
      BY <2>2, <3>2, <3>3, ControleAssumption DEF Ficha, Ids
    <3>5. /\ Base(t) = ficha[x].linhagem
          /\ Cobertura(t) = {f \in t.fases : f >= PontoPartida(t)} \cup
                            {f \in ficha[x].cobre : f < PontoPartida(t)}
      BY <2>3, <3>2 DEF Base, Cobertura
    <3>6. \A f \in ficha[x].cobre : f < PontoPartida(t) =>
             sinc[f] >= ficha[x].linhagem
      <4>1. SUFFICES ASSUME NEW f \in ficha[x].cobre, f < PontoPartida(t)
                     PROVE  sinc[f] >= ficha[x].linhagem
        OBVIOUS
      <4>2. f \in Nat /\ checkpoint.pagina \in Nat
        BY <3>3, ControleAssumption DEF Ficha, Fases, IInv, TypeOK, Checkpoint
      <4>3. \/ checkpoint.situacao = "erro" /\ f <= checkpoint.pagina
            \/ f < checkpoint.pagina
        BY <2>3, <3>1, <4>1, <4>2, PontoRetomavel DEF IInv, Herda
      <4>4. checkpoint.exec # 0
        BY <3>2, ControleAssumption DEF Ids
      <4>5. QED
        BY <3>2, <4>2, <4>3, <4>4 DEF IInv, CheckpointCoberto, Coberta
    <3>7. \A f \in Cobertura(t) : f \in Nat
      BY <2>2, <3>3, <3>5, ControleAssumption DEF Ficha, Fases
    <3>8. QED
      BY <2>1, <2>2, <3>4, <3>5, <3>6, <3>7 DEF HerancaCoberta
  <2>4. CASE ~Herda(t)
    <3>1. /\ Base(t) = 0
          /\ \A f \in Cobertura(t) :
               f \in t.fases /\ f \in Nat /\ f >= PontoPartida(t)
      BY <2>2, <2>4, ControleAssumption DEF Base, Cobertura, Fases
    <3>2. QED
      BY <2>1, <2>2, <3>1 DEF HerancaCoberta
  <2>5. QED BY <2>3, <2>4
<1>3. \A q \in Processos : q # p => HerancaCoberta(q)'
  BY DEF IInv, TypeOK, HerancaCoberta, Comecar
<1>4. QED BY <1>1, <1>2, <1>3

-------------------------------------------------------------------------------
(* Steps that register no execution and synchronise no phase keep every part  *)
(* of the invariant whose variables they leave alone.                         *)
LEMMA Estavel ==
  ASSUME IInv, UNCHANGED <<numExec, ficha, sinc>>
  PROVE  /\ LinhagemPassada'
         /\ UNCHANGED checkpoint => CheckpointRegistrado' /\ CheckpointCoberto'
         /\ (\A e \in Ids : situacao'[e] = "concluido" =>
                             situacao[e] = "concluido") => ConcluidoCoberto'
         /\ \A q \in Processos :
              proc'[q] = proc[q] => HerancaCoberta(q)' /\ RunCoberto(q)'
<1>1. LinhagemPassada'
  BY DEF IInv, LinhagemPassada
<1>2. UNCHANGED checkpoint => CheckpointRegistrado' /\ CheckpointCoberto'
  BY DEF IInv, CheckpointRegistrado, CheckpointCoberto, Coberta
<1>3. (\A e \in Ids : situacao'[e] = "concluido" => situacao[e] = "concluido")
        => ConcluidoCoberto'
  BY DEF IInv, ConcluidoCoberto, Coberta
<1>4. ASSUME NEW q \in Processos, proc'[q] = proc[q]
      PROVE  HerancaCoberta(q)' /\ RunCoberto(q)'
  BY <1>4 DEF IInv, HerancaCoberta, RunCoberto, Coberta, Passada
<1>5. QED BY <1>1, <1>2, <1>3, <1>4

(* Publishing a task keeps the queue well typed.                              *)
LEMMA PublicarTipo ==
  ASSUME TypeOK, NEW c \in BOOLEAN, NEW s \in Selecoes,
         NEW r \in 0..MaxExecucoes, NEW d \in 0..MaxExecucoes + 1,
         Publicar(c, s, r, d)
  PROVE  fila' \subseteq Task /\ numTasks' \in 0..MaxTasks
BY ControleAssumption DEF TypeOK, Publicar, Task

(* The requests of the API and the clean-up touch no process.                 *)
LEMMA ApiPreserva ==
  ASSUME IInv,
         \/ \E c \in BOOLEAN, s \in Selecoes : Disparar(c, s)
         \/ RetomarInterrompidas \/ ReprocessarErros
         \/ LerOrfas \/ ConsultarCelery \/ CeleryIndisponivel \/ TratarOrfa
         \/ ResponderLimpeza
         \/ \E e \in Ids : LerCancelamento(e)
         \/ SalvarCancelamento \/ CancelarExecucoes
  PROVE  IInv'
<1> DEFINE Resto == UNCHANGED <<numExec, ficha, sinc, checkpoint, proc>>
           Situacao == \A e \in Ids : situacao'[e] = "concluido" =>
                                     situacao[e] = "concluido"
<1>1. ASSUME Resto, Situacao, TypeOK'
      PROVE  IInv'
  BY <1>1, Estavel DEF IInv
<1> HIDE DEF Resto, Situacao
<1>2. ASSUME NEW c \in BOOLEAN, NEW s \in Selecoes, Disparar(c, s)
      PROVE  IInv'
  <2>1. Desde(c) \in 0..MaxExecucoes + 1
    BY ControleAssumption DEF Desde, IInv, TypeOK
  <2>2. fila' \subseteq Task /\ numTasks' \in 0..MaxTasks
    BY <1>2, <2>1, PublicarTipo, ControleAssumption DEF Disparar, IInv
  <2>3. Resto /\ Situacao
    BY <1>2 DEF Disparar, Resto, Situacao
  <2>4. TypeOK'
    BY <1>2, <2>2 DEF Disparar, IInv, TypeOK
  <2>5. QED BY <1>1, <2>3, <2>4
<1>3. ASSUME NEW S, AgendarRetomada(S)
      PROVE  IInv'
  <2>1. numExec \in Ids
    BY <1>3, ControleAssumption DEF AgendarRetomada, IInv, TypeOK, Ids
  <2>2. ficha[numExec] \in Ficha
    BY <2>1 DEF IInv, TypeOK
  <2>3. Raiz(numExec) \in 0..MaxExecucoes
    BY <2>1, <2>2, ControleAssumption DEF Raiz, Ficha, Ids
  <2>4. fila' \subseteq Task /\ numTasks' \in 0..MaxTasks
    BY <1>3, <2>2, <2>3, PublicarTipo DEF AgendarRetomada, Ficha, IInv
  <2>5. Resto /\ Situacao
    BY <1>3 DEF AgendarRetomada, Resto, Situacao
  <2>6. TypeOK'
    BY <1>3, <2>4 DEF AgendarRetomada, IInv, TypeOK
  <2>7. QED BY <1>1, <2>5, <2>6
<1>4. CASE LerOrfas
  <2>1. Resto /\ Situacao BY <1>4 DEF LerOrfas, Resto, Situacao
  <2>2. TypeOK' BY <1>4 DEF LerOrfas, IInv, TypeOK
  <2>3. QED BY <1>1, <2>1, <2>2
<1>5. CASE ConsultarCelery
  <2>1. Resto /\ Situacao BY <1>5 DEF ConsultarCelery, Resto, Situacao
  <2>2. PICK V \in SUBSET orfas.lista :
          orfas' = [[orfas EXCEPT !.etapa = "tratando"] EXCEPT !.vivas = V]
    BY <1>5 DEF ConsultarCelery
  <2>3. orfas' \in [etapa : {"parada", "lida", "tratando", "marcando"},
                    lista : SUBSET Ids, vivas : SUBSET Ids]
    BY <2>2 DEF IInv, TypeOK
  <2>4. TypeOK' BY <1>5, <2>3 DEF ConsultarCelery, IInv, TypeOK
  <2>5. QED BY <1>1, <2>1, <2>4
<1>6. CASE CeleryIndisponivel
  <2>1. Resto /\ Situacao BY <1>6 DEF CeleryIndisponivel, Resto, Situacao
  <2>2. TypeOK' BY <1>6 DEF CeleryIndisponivel, SemLimpeza, IInv, TypeOK
  <2>3. QED BY <1>1, <2>1, <2>2
<1>7. CASE ResponderLimpeza
  <2>1. Resto /\ Situacao BY <1>7 DEF ResponderLimpeza, Resto, Situacao
  <2>2. TypeOK' BY <1>7 DEF ResponderLimpeza, SemLimpeza, IInv, TypeOK
  <2>3. QED BY <1>1, <2>1, <2>2
<1>8. ASSUME NEW e \in Ids, PreservarViva(e)
      PROVE  IInv'
  <2>1. Resto /\ Situacao BY <1>8 DEF PreservarViva, Resto, Situacao
  <2>2. TypeOK' BY <1>8 DEF PreservarViva, IInv, TypeOK
  <2>3. QED BY <1>1, <2>1, <2>2
<1>9. ASSUME NEW e \in Ids, InterromperOrfa(e)
      PROVE  IInv'
  <2>1. Resto BY <1>9 DEF InterromperOrfa, Resto
  <2>2. Situacao BY <1>9 DEF InterromperOrfa, Situacao, IInv, TypeOK
  <2>3. TypeOK' BY <1>9 DEF InterromperOrfa, IInv, TypeOK, Situacoes
  <2>4. QED BY <1>1, <2>1, <2>2, <2>3
<1>10. ASSUME NEW e \in Ids, LerCancelamento(e)
       PROVE  IInv'
  <2>1. Resto /\ Situacao BY <1>10 DEF LerCancelamento, Resto, Situacao
  <2>2. TypeOK'
    BY <1>10, ControleAssumption DEF LerCancelamento, Gastar, IInv, TypeOK, Ids
  <2>3. QED BY <1>1, <2>1, <2>2
<1>11. CASE SalvarCancelamento
  <2>1. Resto BY <1>11 DEF SalvarCancelamento, Resto
  <2>2. Situacao BY <1>11 DEF SalvarCancelamento, Situacao, IInv, TypeOK
  <2>3. TypeOK'
    <3>1. cancelando \in Ids
      BY <1>11, ControleAssumption DEF SalvarCancelamento, IInv, TypeOK, Ids
    <3>2. situacao' \in [Ids -> Situacoes]
      BY <1>11, <3>1 DEF SalvarCancelamento, IInv, TypeOK, Situacoes
    <3>3. QED
      BY <1>11, <3>2, ControleAssumption DEF SalvarCancelamento, IInv, TypeOK
  <2>4. QED BY <1>1, <2>1, <2>2, <2>3
<1>12. CASE CancelarExecucoes
  <2>1. Resto /\ Situacao
    BY <1>12 DEF CancelarExecucoes, Resto, Situacao, IInv, TypeOK
  <2>2. situacao' \in [Ids -> Situacoes]
    BY <1>12 DEF CancelarExecucoes, IInv, TypeOK, Situacoes
  <2>3. usos' \in [{"manuais", "falhas", "quedas", "cancelamentos"} -> Nat]
    BY <1>12 DEF CancelarExecucoes, Gastar, IInv, TypeOK
  <2>4. TypeOK'
    BY <1>12, <2>2, <2>3 DEF CancelarExecucoes, IInv, TypeOK
  <2>5. QED BY <1>1, <2>1, <2>4
<1>13. QED
  BY <1>2, <1>3, <1>4, <1>5, <1>6, <1>7, <1>8, <1>9, <1>10, <1>11, <1>12
  DEF TratarOrfa, RetomarInterrompidas, ReprocessarErros

(* marcar_checkpoint_interrompido keeps the page, and an interrupted page     *)
(* vouches for no more than one in progress.                                  *)
LEMMA MarcarPreserva ==
  ASSUME IInv, MarcarCheckpoint
  PROVE  IInv'
<1>1. TypeOK'
  BY DEF MarcarCheckpoint, IInv, TypeOK, Checkpoint
<1>2. CheckpointRegistrado'
  BY DEF MarcarCheckpoint, IInv, TypeOK, Checkpoint, CheckpointRegistrado
<1>3. CheckpointCoberto'
  <2>1. /\ checkpoint'.exec = checkpoint.exec
        /\ checkpoint'.pagina = checkpoint.pagina
        /\ checkpoint'.situacao = checkpoint.situacao
             \/ checkpoint'.situacao = "interrompido"
    BY DEF MarcarCheckpoint, IInv, TypeOK, Checkpoint
  <2>2. QED
    BY <2>1 DEF MarcarCheckpoint, IInv, CheckpointCoberto, Coberta
<1>4. QED
  BY <1>1, <1>2, <1>3, Estavel DEF IInv, MarcarCheckpoint

-------------------------------------------------------------------------------
(* A step of process p that changes no execution record and no checkpoint.    *)
LEMMA ProcessoPreserva ==
  ASSUME IInv, NEW p \in Processos,
         UNCHANGED <<numExec, situacao, ficha, checkpoint, sinc>>,
         TypeOK',
         \A q \in Processos : q # p => proc'[q] = proc[q],
         HerancaCoberta(p)', RunCoberto(p)'
  PROVE  IInv'
BY Estavel DEF IInv

(* Starting a command or taking a task.                                       *)
LEMMA ComecarPreserva ==
  ASSUME IInv, NEW p \in Processos, NEW t \in Task, Comecar(p, t),
         UNCHANGED <<numExec, situacao, ficha, checkpoint, numTasks, orfas,
                     cancelando, sinc>>,
         fila' \subseteq Task,
         usos' \in [{"manuais", "falhas", "quedas", "cancelamentos"} -> Nat]
  PROVE  IInv'
<1>1. TypeOK'
  BY ComecarTipo DEF IInv, TypeOK
<1>2. \A q \in Processos : HerancaCoberta(q)' /\ RunCoberto(q)'
  BY ComecarHeranca
<1>3. QED
  BY <1>1, <1>2, Estavel DEF IInv

(* A worker that takes a task keeps the invariant. *)
LEMMA ReceberPreserva ==
  ASSUME IInv, NEW p \in Processos, Receber(p)
  PROVE  IInv'
<1>1. PICK t \in fila : ReceberTask(p, t)
  BY DEF Receber
<1>2. QED
  BY <1>1, ComecarPreserva DEF ReceberTask, IInv, TypeOK

(* So does a command started at a terminal. *)
LEMMA TerminalPreserva ==
  ASSUME IInv, NEW p \in Terminais, NEW c \in BOOLEAN, NEW f \in 0..NumFases,
         NEW s \in Selecoes, RodarNoTerminal(p, c, f, s)
  PROVE  IInv'
<1> DEFINE t == [id |-> 0, continuar |-> c, fase |-> f, fases |-> s, raiz |-> 0,
                 retries |-> 0, desde |-> IF f > 0 THEN 0 ELSE Desde(c)]
<1>1. t \in Task
  BY ControleAssumption DEF Task, Desde, IInv, TypeOK
<1>2. Comecar(p, t) /\ p \in Processos
  BY DEF RodarNoTerminal, Processos
<1>3. usos' \in [{"manuais", "falhas", "quedas", "cancelamentos"} -> Nat]
  BY DEF RodarNoTerminal, Gastar, IInv, TypeOK
<1> HIDE DEF t
<1>4. QED
  BY <1>1, <1>2, <1>3, ComecarPreserva DEF RodarNoTerminal, IInv, TypeOK

-------------------------------------------------------------------------------
(* The steps of a run. *)

(* Registering an execution keeps the invariant: it inherits what its process read. *)
LEMMA IniciarExecucaoPreserva ==
  ASSUME IInv, NEW p \in Processos, IniciarExecucao(p)
  PROVE  IInv'
<1>0. PICK e \in Ids : e = numExec + 1
  <2>1. numExec \in 0..MaxExecucoes
    BY DEF IInv, TypeOK
  <2>2. numExec + 1 \in Ids
    BY <2>1, ControleAssumption DEF IniciarExecucao, Ids
  <2>3. QED BY <2>2
<1>1. /\ e \in Ids /\ e \in Nat /\ numExec \in Nat /\ e > numExec
      /\ proc[p] \in Processo
  BY <1>0, ControleAssumption DEF IInv, TypeOK, Ids
<1> DEFINE nova == [task |-> proc[p].task.id, fases |-> proc[p].task.fases,
                    raiz |-> proc[p].task.raiz, desde |-> proc[p].task.desde,
                    cobre |-> proc[p].cobre,
                    linhagem |-> IF proc[p].base = 0 THEN e ELSE proc[p].base]
<1>2. /\ numExec' = e
      /\ situacao' = [situacao EXCEPT ![e] = "em_execucao"]
      /\ ficha' = [ficha EXCEPT ![e] = nova]
      /\ proc' = [proc EXCEPT ![p] = [@ EXCEPT !.etapa = "rodando", !.exec = e]]
      /\ proc[p].etapa = "registrando"
      /\ UNCHANGED <<checkpoint, fila, numTasks, orfas, cancelando, sinc, usos>>
  BY <1>0 DEF IniciarExecucao
<1>3. HerancaCoberta(p) /\ proc[p].base \in 0..numExec
  BY <1>1, <1>2 DEF IInv, HerancaCoberta, Processo
<1>4. nova \in Ficha /\ nova.linhagem <= e
  BY <1>1, <1>3, ControleAssumption DEF Processo, Task, Ficha, Ids
<1> HIDE DEF nova
<1>5. TypeOK'
  <2>1. /\ situacao' \in [Ids -> Situacoes]
        /\ ficha' \in [Ids -> Ficha]
    BY <1>1, <1>2, <1>4 DEF IInv, TypeOK, Situacoes
  <2>2. proc' \in [Processos -> Processo]
    <3>1. [proc[p] EXCEPT !.etapa = "rodando", !.exec = e] \in Processo
      <4>1. "rodando" \in Etapas /\ e \in 0..MaxExecucoes
        BY <1>1 DEF Etapas, Ids
      <4>2. QED BY <1>1, <4>1 DEF Processo
    <3>2. QED
      BY <1>2, <3>1 DEF IInv, TypeOK
  <2>3. numExec' \in 0..MaxExecucoes
    BY <1>1, <1>2, ControleAssumption DEF Ids
  <2>4. QED
    BY <1>2, <2>1, <2>2, <2>3 DEF IInv, TypeOK
<1>6. \A x \in 1..numExec : ficha'[x] = ficha[x] /\ x \in Ids
  <2>1. numExec \in 0..MaxExecucoes /\ ficha \in [Ids -> Ficha]
    BY DEF IInv, TypeOK
  <2>2. \A x \in 1..numExec : x \in Ids /\ x # e
    BY <1>1, <2>1, ControleAssumption DEF Ids
  <2>3. QED
    BY <1>2, <2>1, <2>2
<1>7. ficha'[e] = nova
  BY <1>1, <1>2 DEF IInv, TypeOK
<1>8. CheckpointRegistrado' /\ CheckpointCoberto'
  <2>1. checkpoint.exec \in 0..numExec
    BY <1>1 DEF IInv, TypeOK, Checkpoint, CheckpointRegistrado
  <2>2. CheckpointRegistrado'
    BY <1>1, <1>2, <2>1 DEF IInv, CheckpointRegistrado
  <2>3. CheckpointCoberto'
    BY <1>1, <1>2, <1>6, <2>1 DEF IInv, CheckpointCoberto, Coberta
  <2>4. QED BY <2>2, <2>3
<1>9. LinhagemPassada'
  BY <1>1, <1>2, <1>4, <1>7 DEF IInv, TypeOK, LinhagemPassada
<1>10. ConcluidoCoberto'
  BY <1>1, <1>2 DEF IInv, TypeOK, ConcluidoCoberto, Coberta
<1>11. ASSUME NEW q \in Processos
       PROVE  HerancaCoberta(q)' /\ RunCoberto(q)'
  <2>1. CASE q = p
    <3>1. proc'[p] = [proc[p] EXCEPT !.etapa = "rodando", !.exec = e]
      BY <1>2 DEF IInv, TypeOK
    <3>2. HerancaCoberta(p)'
      BY <1>1, <3>1 DEF HerancaCoberta, Processo
    <3>3. /\ proc'[p].exec = e /\ proc'[p].inicio = proc[p].inicio
          /\ proc'[p].task = proc[p].task /\ proc'[p].etapa = "rodando"
      BY <1>1, <3>1 DEF Processo
    <3>4. /\ proc'[p].ultima = 0 /\ proc'[p].atual = 0
          /\ proc[p].inicio \in Nat /\ proc[p].cobre \subseteq Fases
      BY <1>1, <1>2, <1>3, <3>1, ControleAssumption DEF Processo, HerancaCoberta
    <3>5. /\ nova.cobre = proc[p].cobre
          /\ proc[p].base # 0 => nova.linhagem = proc[p].base
      BY DEF nova
    <3>6. ASSUME NEW f \in nova.cobre
          PROVE  /\ f >= proc[p].inicio => f \in proc[p].task.fases
                 /\ Passada(f, p)' => Coberta(f, e)'
      <4>1. f \in proc[p].cobre /\ f \in Nat /\ f > 0
        BY <3>4, <3>5, <3>6, ControleAssumption DEF Fases
      <4>2. Passada(f, p)' => f < proc[p].inicio
        BY <3>3, <3>4, <4>1 DEF Passada
      <4>3. f < proc[p].inicio => sinc[f] >= nova.linhagem
        BY <1>2, <1>3, <3>5, <4>1 DEF HerancaCoberta
      <4>4. QED
        BY <1>2, <1>3, <1>7, <4>1, <4>2, <4>3 DEF HerancaCoberta, Coberta
    <3>7. RunCoberto(p)'
      BY <1>1, <1>2, <1>7, <3>3, <3>6 DEF RunCoberto, Ids
    <3>8. QED BY <2>1, <3>2, <3>7
  <2>2. CASE q # p
    <3>1. proc'[q] = proc[q]
      BY <1>2, <2>2 DEF IInv, TypeOK
    <3>2. HerancaCoberta(q)'
      BY <1>1, <1>2, <3>1 DEF IInv, TypeOK, HerancaCoberta, Processo
    <3>3. RunCoberto(q)'
      <4>1. \A f : Passada(f, q)' = Passada(f, q)
        BY <3>1 DEF Passada
      <4>2. SUFFICES ASSUME proc[q].etapa \in EtapasDeRun
                     PROVE  RunCoberto(q)'
        BY <3>1 DEF RunCoberto
      <4>3. /\ proc[q].exec \in 1..numExec /\ proc[q].exec \in 1..numExec'
            /\ ficha'[proc[q].exec] = ficha[proc[q].exec]
        BY <1>1, <1>2, <1>6, <4>2 DEF IInv, RunCoberto
      <4>4. QED
        BY <1>2, <3>1, <4>1, <4>2, <4>3 DEF IInv, RunCoberto, Coberta
    <3>4. QED BY <3>2, <3>3
  <2>3. QED BY <2>1, <2>2
<1>12. QED
  BY <1>5, <1>8, <1>9, <1>10, <1>11 DEF IInv

(* Moving a process to another step, its execution and its phases unchanged,  *)
(* to a step at which it is past no more phases.                              *)
LEMMA IrParaCoberto ==
  ASSUME IInv, NEW p \in Processos, NEW etapa \in Etapas, IrPara(p, etapa),
         etapa \in EtapasDeRun => proc[p].etapa \in EtapasDeRun,
         etapa \notin {"registrando", "sincronizada", "sucesso"},
         UNCHANGED <<numExec, ficha, sinc>>
  PROVE  /\ proc' \in [Processos -> Processo]
         /\ \A q \in Processos : HerancaCoberta(q)' /\ RunCoberto(q)'
<1>1. proc[p] \in Processo
  BY DEF IInv, TypeOK
<1>2. /\ proc'[p] = [proc[p] EXCEPT !.etapa = etapa]
      /\ \A q \in Processos : q # p => proc'[q] = proc[q]
  BY DEF IInv, TypeOK, IrPara
<1>3. [proc[p] EXCEPT !.etapa = etapa] \in Processo
  BY <1>1 DEF Processo
<1>4. proc' \in [Processos -> Processo]
  BY <1>3 DEF IInv, TypeOK, IrPara
<1>5. /\ proc'[p].etapa = etapa /\ proc'[p].exec = proc[p].exec
      /\ proc'[p].inicio = proc[p].inicio /\ proc'[p].task = proc[p].task
      /\ proc'[p].ultima = proc[p].ultima /\ proc'[p].atual = proc[p].atual
  BY <1>1, <1>2 DEF Processo
<1>6. HerancaCoberta(p)'
  BY <1>5 DEF HerancaCoberta
<1>7. RunCoberto(p)'
  <2>1. \A f : Passada(f, p)' => Passada(f, p)
    BY <1>5 DEF Passada
  <2>2. QED
    BY <1>5, <2>1 DEF IInv, RunCoberto, Coberta
<1>8. QED
  BY <1>2, <1>4, <1>6, <1>7, Estavel

(* A process that ends or dies.                                               *)
LEMMA LiberarCoberto ==
  ASSUME IInv, NEW p \in Processos, proc' = [proc EXCEPT ![p] = Livre],
         UNCHANGED <<numExec, ficha, sinc>>
  PROVE  /\ proc' \in [Processos -> Processo]
         /\ \A q \in Processos : HerancaCoberta(q)' /\ RunCoberto(q)'
<1>1. Livre \in Processo
  BY ControleAssumption DEF Livre, Processo, TaskVazia, Task, Etapas, Ids
<1>2. proc'[p].etapa = "livre"
  BY DEF IInv, TypeOK, Livre
<1>3. HerancaCoberta(p)' /\ RunCoberto(p)'
  BY <1>2 DEF HerancaCoberta, RunCoberto, EtapasDeRun, EmTry
<1>4. \A q \in Processos : q # p => proc'[q] = proc[q]
  BY DEF IInv, TypeOK
<1>5. QED
  BY <1>1, <1>3, <1>4, Estavel DEF IInv, TypeOK

(* The execution of a running process is a registered one.                    *)
LEMMA ExecucaoRegistrada ==
  ASSUME IInv, NEW p \in Processos, proc[p].etapa \in EtapasDeRun
  PROVE  /\ proc[p] \in Processo
         /\ proc[p].exec \in Ids /\ proc[p].exec # 0
         /\ proc[p].exec <= numExec
         /\ ficha[proc[p].exec] \in Ficha
         /\ ficha[proc[p].exec].cobre \subseteq Fases
<1>1. proc[p] \in Processo /\ numExec \in 0..MaxExecucoes
  BY DEF IInv, TypeOK
<1>2. proc[p].exec \in 1..numExec
  BY DEF IInv, RunCoberto
<1>3. proc[p].exec \in Ids
  BY <1>1, <1>2, ControleAssumption DEF Ids
<1>4. QED
  BY <1>1, <1>2, <1>3, ControleAssumption DEF IInv, TypeOK, Ficha

(* Writing the checkpoint: it may promise the phases the process is past.     *)
LEMMA GravarCoberto ==
  ASSUME IInv, NEW p \in Processos, proc[p].etapa \in EtapasDeRun,
         NEW pagina \in 0..NumFases,
         NEW sit \in {"em_execucao", "concluido", "erro", "interrompido"},
         GravarCheckpoint(p, pagina, sit),
         UNCHANGED <<numExec, ficha, sinc>>,
         \A f \in ficha[proc[p].exec].cobre :
           sit = "concluido" \/ f < pagina \/ (f = pagina /\ sit = "erro")
             => Passada(f, p)
  PROVE  checkpoint' \in Checkpoint /\ CheckpointRegistrado' /\ CheckpointCoberto'
<1>1. /\ checkpoint'.exec = proc[p].exec /\ checkpoint'.pagina = pagina
      /\ checkpoint'.situacao = sit
  BY DEF GravarCheckpoint
<1>2. checkpoint' \in Checkpoint
  BY ExecucaoRegistrada DEF GravarCheckpoint, Checkpoint, Processo
<1>3. CheckpointRegistrado'
  BY <1>1, ExecucaoRegistrada DEF CheckpointRegistrado
<1>4. CheckpointCoberto'
  BY <1>1 DEF IInv, RunCoberto, CheckpointCoberto, Coberta
<1>5. QED BY <1>2, <1>3, <1>4

(* The phases of the loop run in order, so a phase is only started when every *)
(* earlier one the execution answers for is behind it.                        *)
LEMMA IniciarFasePreserva ==
  ASSUME IInv, NEW p \in Processos, IniciarFase(p)
  PROVE  IInv'
<1>1. /\ proc[p].etapa = "rodando"
      /\ UNCHANGED <<numExec, situacao, ficha, checkpoint, fila, numTasks, orfas,
                     cancelando, sinc, usos>>
  BY DEF IniciarFase
<1>2. PICK f \in Pendentes(p) :
        /\ \A g \in Pendentes(p) : f <= g
        /\ proc' = [proc EXCEPT ![p] = [@ EXCEPT !.etapa = "fase", !.atual = f]]
  BY DEF IniciarFase
<1>3. proc[p].etapa \in EtapasDeRun
  BY <1>1 DEF EtapasDeRun, EmTry
<1>4. proc[p] \in Processo /\ ficha[proc[p].exec].cobre \subseteq Fases
  BY <1>3, ExecucaoRegistrada
<1>5. f \in Fases /\ f \in 0..NumFases
  <2>1. proc[p].task.fases \in Selecoes
    BY <1>4 DEF Processo, Task
  <2>2. f \in Fases
    BY <2>1, ControleAssumption DEF Pendentes
  <2>3. QED BY <2>2, ControleAssumption DEF Fases
<1>6. /\ proc'[p] = [proc[p] EXCEPT !.etapa = "fase", !.atual = f]
      /\ \A q \in Processos : q # p => proc'[q] = proc[q]
  BY <1>2 DEF IInv, TypeOK
<1>7. /\ proc'[p].etapa = "fase" /\ proc'[p].atual = f
      /\ proc'[p].exec = proc[p].exec /\ proc'[p].inicio = proc[p].inicio
      /\ proc'[p].task = proc[p].task /\ proc'[p].ultima = proc[p].ultima
  BY <1>4, <1>6 DEF Processo
<1>8. TypeOK'
  <2>1. [proc[p] EXCEPT !.etapa = "fase", !.atual = f] \in Processo
    <3>1. "fase" \in Etapas BY DEF Etapas
    <3>2. QED BY <1>4, <1>5, <3>1 DEF Processo
  <2>2. QED
    BY <1>1, <1>2, <2>1 DEF IInv, TypeOK
<1>9. HerancaCoberta(p)'
  BY <1>7 DEF HerancaCoberta
<1>10. ASSUME NEW g \in ficha[proc[p].exec].cobre, Passada(g, p)'
       PROVE  Passada(g, p)
  <2>1. g \in Nat /\ f \in Nat
    BY <1>4, <1>5, ControleAssumption DEF Fases
  <2>2. CASE g < proc[p].inicio \/ g <= proc[p].ultima
    BY <2>2 DEF Passada
  <2>3. CASE g < f /\ g >= proc[p].inicio
    <3>1. g \in proc[p].task.fases
      BY <1>3, <2>3 DEF IInv, RunCoberto
    <3>2. g \notin Pendentes(p)
      BY <1>2, <2>1, <2>3
    <3>3. g <= proc[p].ultima
      BY <1>4, <2>1, <2>3, <3>1, <3>2 DEF Pendentes, Processo
    <3>4. QED BY <3>3 DEF Passada
  <2>4. QED
    BY <1>4, <1>7, <1>10, <2>1, <2>2, <2>3 DEF Passada, Processo
<1>11. RunCoberto(p)'
  BY <1>1, <1>3, <1>7, <1>10 DEF IInv, RunCoberto, Coberta
<1>12. QED
  BY <1>1, <1>6, <1>8, <1>9, <1>11, ProcessoPreserva

(* A chunk of the phase in progress: the checkpoint names it, to be repeated. *)
LEMMA RegistrarParcialPreserva ==
  ASSUME IInv, NEW p \in Processos, RegistrarParcial(p)
  PROVE  IInv'
<1>1. proc[p].etapa \in EtapasDeRun
  BY DEF RegistrarParcial, EtapasDeRun, EmTry
<1>2. proc[p].atual \in 0..NumFases
  BY <1>1, ExecucaoRegistrada DEF Processo
<1>3. \A f \in ficha[proc[p].exec].cobre : f < proc[p].atual => Passada(f, p)
  BY DEF Passada
<1>4. \A f \in ficha[proc[p].exec].cobre : f \in Nat
  BY <1>1, ExecucaoRegistrada, ControleAssumption DEF Fases
<1>5. checkpoint' \in Checkpoint /\ CheckpointRegistrado' /\ CheckpointCoberto'
  BY <1>1, <1>2, <1>3, GravarCoberto DEF RegistrarParcial
<1>6. TypeOK'
  BY <1>5 DEF RegistrarParcial, IInv, TypeOK
<1>7. QED
  BY <1>5, <1>6, Estavel DEF RegistrarParcial, IInv

(* Synchronising a phase only adds to what is covered.                        *)
LEMMA SincronizarFasePreserva ==
  ASSUME IInv, NEW p \in Processos, SincronizarFase(p)
  PROVE  IInv'
<1>1. /\ proc[p].etapa = "fase"
      /\ sinc' = [sinc EXCEPT ![proc[p].atual] =
                    IF @ < proc[p].exec THEN proc[p].exec ELSE @]
      /\ proc' = [proc EXCEPT ![p].etapa = "sincronizada"]
      /\ UNCHANGED <<numExec, situacao, ficha, checkpoint, fila, numTasks, orfas,
                     cancelando, usos>>
  BY DEF SincronizarFase, IrPara
<1>2. proc[p].etapa \in EtapasDeRun
  BY <1>1 DEF EtapasDeRun, EmTry
<1>3. /\ proc[p] \in Processo /\ proc[p].exec \in Ids
      /\ ficha[proc[p].exec] \in Ficha
      /\ ficha[proc[p].exec].cobre \subseteq Fases
      /\ proc[p].exec \in 0..MaxExecucoes
  BY <1>2, ExecucaoRegistrada DEF Processo
<1>4. sinc' \in [Fases -> 0..MaxExecucoes]
  BY <1>1, <1>3 DEF IInv, TypeOK
<1>5. \A f \in Fases : sinc'[f] >= sinc[f] /\ sinc[f] \in Nat /\ sinc'[f] \in Nat
  BY <1>1, <1>3, <1>4, ControleAssumption DEF IInv, TypeOK
<1>6. \A e \in Ids : /\ ficha[e].linhagem \in Nat /\ ficha[e].linhagem <= e
                      /\ ficha[e].cobre \subseteq Fases
  BY ControleAssumption DEF IInv, TypeOK, Ficha, Ids, LinhagemPassada
<1>7. \A e \in Ids : \A f \in Fases : Coberta(f, e) => Coberta(f, e)'
  BY <1>1, <1>5, <1>6 DEF Coberta
<1>8. ASSUME NEW a \in Fases, a = proc[p].atual, NEW x \in Ids, x = proc[p].exec
      PROVE  Coberta(a, x)'
  <2>1. sinc'[a] = IF sinc[a] < x THEN x ELSE sinc[a]
    BY <1>1, <1>8 DEF IInv, TypeOK
  <2>2. sinc'[a] >= x
    BY <1>5, <2>1 DEF Ids
  <2>3. QED
    BY <1>1, <1>5, <1>6, <2>2 DEF Coberta, Ids
<1>9. TypeOK'
  <2>1. [proc[p] EXCEPT !.etapa = "sincronizada"] \in Processo
    <3>1. "sincronizada" \in Etapas BY DEF Etapas
    <3>2. QED BY <1>3, <3>1 DEF Processo
  <2>2. QED
    BY <1>1, <1>4, <2>1 DEF IInv, TypeOK
<1>10. CheckpointRegistrado' /\ CheckpointCoberto' /\ LinhagemPassada'
  <2>1. checkpoint.exec # 0 => checkpoint.exec \in Ids
    BY ControleAssumption DEF IInv, TypeOK, Checkpoint, Ids
  <2>2. CheckpointCoberto'
    BY <1>1, <1>6, <1>7, <2>1 DEF IInv, CheckpointCoberto
  <2>3. QED
    BY <1>1, <2>2 DEF IInv, CheckpointRegistrado, LinhagemPassada
<1>11. ConcluidoCoberto'
  BY <1>1, <1>6, <1>7 DEF IInv, ConcluidoCoberto
<1>12. ASSUME NEW q \in Processos
       PROVE  HerancaCoberta(q)'
  <2>1. /\ proc'[q].etapa = "registrando" =>
             proc[q].etapa = "registrando" /\ proc'[q] = proc[q]
        /\ proc[q] \in Processo
    BY <1>1 DEF IInv, TypeOK
  <2>2. SUFFICES ASSUME proc[q].etapa = "registrando", proc'[q] = proc[q]
                 PROVE  HerancaCoberta(q)'
    BY <2>1 DEF HerancaCoberta
  <2>3. \A f \in proc[q].cobre : f \in Fases
    BY <2>1 DEF Processo
  <2>4. HerancaCoberta(q) /\ proc[q].base \in Nat
    BY <2>1, ControleAssumption DEF IInv, Processo
  <2>5. \A f \in Fases : sinc[f] >= proc[q].base => sinc'[f] >= proc[q].base
    BY <1>5, <2>4
  <2>6. QED
    BY <1>1, <2>2, <2>3, <2>4, <2>5 DEF HerancaCoberta
<1>13. ASSUME NEW q \in Processos, q # p
       PROVE  RunCoberto(q)'
  <2>1. proc'[q] = proc[q]
    BY <1>1, <1>13 DEF IInv, TypeOK
  <2>2. SUFFICES ASSUME proc[q].etapa \in EtapasDeRun
                 PROVE  RunCoberto(q)'
    BY <2>1 DEF RunCoberto
  <2>3. RunCoberto(q) /\ \A f : Passada(f, q)' = Passada(f, q)
    BY <2>1 DEF IInv, Passada
  <2>4. PICK x \in Ids : x = proc[q].exec
    BY <2>2, ExecucaoRegistrada
  <2>5. \A f \in ficha[x].cobre : Coberta(f, x) => Coberta(f, x)'
    BY <1>6, <1>7
  <2>6. QED
    BY <1>1, <2>1, <2>2, <2>3, <2>4, <2>5 DEF RunCoberto
<1>14. RunCoberto(p)'
  <2>1. PICK x \in Ids : x = proc[p].exec
    BY <1>3
  <2>2. /\ proc'[p].etapa = "sincronizada" /\ proc'[p].exec = x
        /\ proc'[p].inicio = proc[p].inicio /\ proc'[p].task = proc[p].task
        /\ proc'[p].ultima = proc[p].ultima /\ proc'[p].atual = proc[p].atual
    BY <1>1, <1>3, <2>1 DEF IInv, TypeOK, Processo
  <2>3. RunCoberto(p)
    BY DEF IInv
  <2>4. ASSUME NEW f \in ficha[x].cobre, Passada(f, p)'
        PROVE  Coberta(f, x)'
    <3>1. Passada(f, p) \/ f = proc[p].atual
      BY <2>2, <2>4 DEF Passada
    <3>2. Passada(f, p) => Coberta(f, x)
      BY <1>2, <2>1, <2>3 DEF RunCoberto
    <3>3. f \in Fases
      BY <1>6
    <3>4. QED BY <1>7, <1>8, <2>1, <3>1, <3>2, <3>3
  <2>5. QED
    BY <1>1, <1>2, <2>1, <2>2, <2>3, <2>4 DEF RunCoberto
<1>15. QED
  BY <1>9, <1>10, <1>11, <1>12, <1>13, <1>14 DEF IInv

(* The end of a phase: it becomes the last one finished.                      *)
LEMMA ConcluirFasePreserva ==
  ASSUME IInv, NEW p \in Processos, ConcluirFase(p)
  PROVE  IInv'
<1> DEFINE sit == IF proc[p].atual = NumFases THEN "concluido" ELSE "em_execucao"
<1>1. /\ proc[p].etapa = "sincronizada" /\ proc[p].etapa \in EtapasDeRun
      /\ GravarCheckpoint(p, proc[p].atual, sit)
      /\ proc' = [proc EXCEPT ![p] = [@ EXCEPT !.etapa = "rodando",
                                     !.ultima = proc[p].atual, !.atual = 0]]
      /\ UNCHANGED <<numExec, situacao, ficha, fila, numTasks, orfas, cancelando,
                     sinc, usos>>
  BY DEF ConcluirFase, EtapasDeRun, EmTry
<1>2. /\ proc[p] \in Processo /\ proc[p].atual \in 0..NumFases
      /\ ficha[proc[p].exec].cobre \subseteq Fases
  BY <1>1, ExecucaoRegistrada DEF Processo
<1>3. \A f \in ficha[proc[p].exec].cobre :
        /\ f \in Nat /\ f <= NumFases /\ f > 0
        /\ f <= proc[p].atual => Passada(f, p)
  BY <1>1, <1>2, ControleAssumption DEF Fases, Passada
<1>4. checkpoint' \in Checkpoint /\ CheckpointRegistrado' /\ CheckpointCoberto'
  BY <1>1, <1>2, <1>3, GravarCoberto
<1>5. TypeOK'
  <2>1. [proc[p] EXCEPT !.etapa = "rodando", !.ultima = proc[p].atual,
                       !.atual = 0] \in Processo
    <3>1. "rodando" \in Etapas /\ 0 \in 0..NumFases
      BY ControleAssumption DEF Etapas
    <3>2. QED BY <1>2, <3>1 DEF Processo
  <2>2. QED
    BY <1>1, <1>4, <2>1 DEF IInv, TypeOK
<1>6. /\ proc'[p].etapa = "rodando" /\ proc'[p].ultima = proc[p].atual
      /\ proc'[p].atual = 0 /\ proc'[p].exec = proc[p].exec
      /\ proc'[p].inicio = proc[p].inicio /\ proc'[p].task = proc[p].task
      /\ \A q \in Processos : q # p => proc'[q] = proc[q]
  BY <1>1, <1>2 DEF IInv, TypeOK, Processo
<1>7. HerancaCoberta(p)'
  BY <1>6 DEF HerancaCoberta
<1>8. \A f \in ficha[proc[p].exec].cobre : Passada(f, p)' => Passada(f, p)
  BY <1>3, <1>6 DEF Passada
<1>9. RunCoberto(p)'
  BY <1>1, <1>6, <1>8 DEF IInv, RunCoberto, Coberta
<1>10. QED
  BY <1>1, <1>4, <1>5, <1>6, <1>7, <1>9, Estavel DEF IInv

(* Success: nothing pending, so every phase answered for is behind.           *)
LEMMA GravarSucessoPreserva ==
  ASSUME IInv, NEW p \in Processos, GravarSucesso(p)
  PROVE  IInv'
<1>1. /\ proc[p].etapa = "rodando" /\ proc[p].etapa \in EtapasDeRun
      /\ Pendentes(p) = {}
      /\ GravarCheckpoint(p, proc[p].ultima, "concluido")
      /\ proc' = [proc EXCEPT ![p].etapa = "sucesso"]
      /\ UNCHANGED <<numExec, situacao, ficha, fila, numTasks, orfas, cancelando,
                     sinc, usos>>
  BY DEF GravarSucesso, IrPara, EtapasDeRun, EmTry
<1>2. /\ proc[p] \in Processo /\ proc[p].ultima \in 0..NumFases
      /\ ficha[proc[p].exec].cobre \subseteq Fases
  BY <1>1, ExecucaoRegistrada DEF Processo
<1>3. ASSUME NEW f \in ficha[proc[p].exec].cobre
      PROVE  Passada(f, p)
  <2>1. f \in Nat
    BY <1>2, ControleAssumption DEF Fases
  <2>2. f >= proc[p].inicio => f \in proc[p].task.fases
    BY <1>1 DEF IInv, RunCoberto
  <2>3. QED
    BY <1>1, <1>2, <2>1, <2>2 DEF Pendentes, Passada, Processo
<1>4. checkpoint' \in Checkpoint /\ CheckpointRegistrado' /\ CheckpointCoberto'
  BY <1>1, <1>2, <1>3, GravarCoberto
<1>5. TypeOK'
  <2>1. [proc[p] EXCEPT !.etapa = "sucesso"] \in Processo
    <3>1. "sucesso" \in Etapas BY DEF Etapas
    <3>2. QED BY <1>2, <3>1 DEF Processo
  <2>2. QED
    BY <1>1, <1>4, <2>1 DEF IInv, TypeOK
<1>6. /\ proc'[p].etapa = "sucesso" /\ proc'[p].exec = proc[p].exec
      /\ proc'[p].inicio = proc[p].inicio /\ proc'[p].task = proc[p].task
      /\ \A q \in Processos : q # p => proc'[q] = proc[q]
  BY <1>1, <1>2 DEF IInv, TypeOK, Processo
<1>7. HerancaCoberta(p)' /\ RunCoberto(p)'
  BY <1>1, <1>3, <1>6 DEF IInv, HerancaCoberta, RunCoberto, Coberta
<1>8. QED
  BY <1>1, <1>4, <1>5, <1>6, <1>7, Estavel DEF IInv

(* The execution becomes "concluido" only from the step after the checkpoint. *)
LEMMA FinalizarSucessoPreserva ==
  ASSUME IInv, NEW p \in Processos, FinalizarSucesso(p)
  PROVE  IInv'
<1>1. /\ proc[p].etapa = "sucesso" /\ proc[p].etapa \in EtapasDeRun
      /\ situacao' = [situacao EXCEPT ![proc[p].exec] = "concluido"]
      /\ IrPara(p, "retornando")
      /\ UNCHANGED <<numExec, ficha, checkpoint, fila, numTasks, orfas,
                     cancelando, sinc, usos>>
  BY DEF FinalizarSucesso, FinalizarExecucao, EtapasDeRun, EmTry
<1>2. /\ "retornando" \in Etapas
      /\ "retornando" \notin EtapasDeRun
  BY DEF Etapas, EtapasDeRun, EmTry
<1>3. /\ proc' \in [Processos -> Processo]
      /\ \A q \in Processos : HerancaCoberta(q)' /\ RunCoberto(q)'
  BY <1>1, <1>2, IrParaCoberto
<1>4. situacao' \in [Ids -> Situacoes]
  BY <1>1 DEF IInv, TypeOK, Situacoes
<1>5. TypeOK'
  BY <1>1, <1>3, <1>4 DEF IInv, TypeOK
<1>6. ConcluidoCoberto'
  <2>1. \A f \in ficha[proc[p].exec].cobre : Coberta(f, proc[p].exec)
    BY <1>1 DEF IInv, RunCoberto, Passada
  <2>2. \A e \in Ids : situacao'[e] = "concluido" =>
                         situacao[e] = "concluido" \/ e = proc[p].exec
    BY <1>1 DEF IInv, TypeOK
  <2>3. QED
    BY <1>1, <2>1, <2>2 DEF IInv, ConcluidoCoberto, Coberta
<1>7. QED
  BY <1>1, <1>3, <1>5, <1>6, Estavel DEF IInv

-------------------------------------------------------------------------------
(* A run that goes wrong. *)

(* Failures, interruptions and deaths write nothing by themselves.            *)
LEMMA ImprevistoPreserva ==
  ASSUME IInv, NEW p \in Processos, Imprevisto(p)
  PROVE  IInv'
<1> DEFINE Usos == usos' \in [{"manuais", "falhas", "quedas", "cancelamentos"} -> Nat]
<1>1. /\ UNCHANGED <<numExec, situacao, ficha, checkpoint, fila, numTasks, orfas,
                     cancelando, sinc>>
      /\ Usos
  BY DEF Imprevisto, Falhar, FalharForaDoTry, Interromper, Morrer, Gastar, IInv,
         TypeOK
<1>2. /\ proc' \in [Processos -> Processo]
      /\ \A q \in Processos : HerancaCoberta(q)' /\ RunCoberto(q)'
  <2>1. CASE Falhar(p)
    <3>1. /\ "erro" \in Etapas
          /\ proc[p].etapa \in EtapasDeRun
          /\ "erro" \notin {"registrando", "sincronizada", "sucesso"}
      BY <2>1 DEF Falhar, Etapas, EtapasDeRun
    <3>2. IrPara(p, "erro")
      BY <2>1 DEF Falhar
    <3>3. QED BY <1>1, <3>1, <3>2, IrParaCoberto
  <2>2. CASE FalharForaDoTry(p)
    <3>1. /\ "reagendando" \in Etapas
          /\ "reagendando" \notin EtapasDeRun
      BY DEF Etapas, EtapasDeRun, EmTry
    <3>2. IrPara(p, "reagendando")
      BY <2>2 DEF FalharForaDoTry
    <3>3. QED BY <1>1, <3>1, <3>2, IrParaCoberto
  <2>3. CASE Interromper(p)
    <3>1. /\ "interrupcao" \in Etapas
          /\ proc[p].etapa \in EtapasDeRun
      BY <2>3 DEF Interromper, Etapas, EtapasDeRun
    <3>2. IrPara(p, "interrupcao")
      BY <2>3 DEF Interromper
    <3>3. QED BY <1>1, <3>1, <3>2, IrParaCoberto
  <2>4. CASE Morrer(p)
    BY <1>1, <2>4, LiberarCoberto DEF Morrer
  <2>5. QED
    BY <2>1, <2>2, <2>3, <2>4 DEF Imprevisto
<1>3. TypeOK'
  BY <1>1, <1>2 DEF IInv, TypeOK
<1>4. QED
  BY <1>1, <1>2, <1>3, Estavel DEF IInv

(* The failure is recorded at the last phase known to be complete.            *)
LEMMA GravarErroPreserva ==
  ASSUME IInv, NEW p \in Processos, GravarErro(p)
  PROVE  IInv'
<1> DEFINE pagina == IF proc[p].atual # 0 /\ proc[p].atual - 1 > proc[p].ultima
                     THEN proc[p].atual - 1 ELSE proc[p].ultima
<1>1. /\ proc[p].etapa \in EtapasDeRun
      /\ GravarCheckpoint(p, pagina, "erro")
      /\ IrPara(p, "erro_gravado")
      /\ UNCHANGED <<numExec, situacao, ficha, fila, numTasks, orfas, cancelando,
                     sinc, usos>>
  BY DEF GravarErro, EtapasDeRun
<1>2. /\ proc[p].atual \in 0..NumFases /\ proc[p].ultima \in 0..NumFases
      /\ ficha[proc[p].exec].cobre \subseteq Fases
  BY <1>1, ExecucaoRegistrada DEF Processo
<1>3. /\ pagina \in 0..NumFases
      /\ pagina <= proc[p].ultima \/ pagina < proc[p].atual
  BY <1>2, ControleAssumption
<1>4. \A f \in ficha[proc[p].exec].cobre :
        f < pagina \/ f = pagina => Passada(f, p)
  <2>1. \A f \in ficha[proc[p].exec].cobre : f \in Nat
    BY <1>2, ControleAssumption DEF Fases
  <2>2. QED
    BY <1>2, <1>3, <2>1, ControleAssumption DEF Passada
<1> HIDE DEF pagina
<1>5. checkpoint' \in Checkpoint /\ CheckpointRegistrado' /\ CheckpointCoberto'
  BY <1>1, <1>3, <1>4, GravarCoberto
<1>6. /\ proc' \in [Processos -> Processo]
      /\ \A q \in Processos : HerancaCoberta(q)' /\ RunCoberto(q)'
  <2>1. "erro_gravado" \in Etapas
    BY DEF Etapas
  <2>2. QED BY <1>1, <2>1, IrParaCoberto
<1>7. TypeOK'
  BY <1>1, <1>5, <1>6 DEF IInv, TypeOK
<1>8. QED
  BY <1>1, <1>5, <1>6, <1>7, Estavel DEF IInv

(* The interruption is recorded at the phase to repeat.                       *)
LEMMA GravarInterrupcaoPreserva ==
  ASSUME IInv, NEW p \in Processos, GravarInterrupcao(p)
  PROVE  IInv'
<1> DEFINE pagina == IF proc[p].atual # 0 THEN proc[p].atual ELSE proc[p].ultima
<1>1. /\ proc[p].etapa \in EtapasDeRun
      /\ GravarCheckpoint(p, pagina, "interrompido")
      /\ IrPara(p, "interrupcao_gravada")
      /\ UNCHANGED <<numExec, situacao, ficha, fila, numTasks, orfas, cancelando,
                     sinc, usos>>
  BY DEF GravarInterrupcao, EtapasDeRun
<1>2. /\ proc[p].atual \in 0..NumFases /\ proc[p].ultima \in 0..NumFases
      /\ ficha[proc[p].exec].cobre \subseteq Fases
  BY <1>1, ExecucaoRegistrada DEF Processo
<1>3. /\ pagina \in 0..NumFases
      /\ \A f \in ficha[proc[p].exec].cobre : f < pagina => Passada(f, p)
  <2>1. \A f \in ficha[proc[p].exec].cobre : f \in Nat
    BY <1>2, ControleAssumption DEF Fases
  <2>2. QED
    BY <1>2, <2>1, ControleAssumption DEF Passada
<1> HIDE DEF pagina
<1>4. checkpoint' \in Checkpoint /\ CheckpointRegistrado' /\ CheckpointCoberto'
  BY <1>1, <1>3, GravarCoberto
<1>5. /\ proc' \in [Processos -> Processo]
      /\ \A q \in Processos : HerancaCoberta(q)' /\ RunCoberto(q)'
  <2>1. "interrupcao_gravada" \in Etapas
    BY DEF Etapas
  <2>2. QED BY <1>1, <2>1, IrParaCoberto
<1>6. TypeOK'
  BY <1>1, <1>4, <1>5 DEF IInv, TypeOK
<1>7. QED
  BY <1>1, <1>4, <1>5, <1>6, Estavel DEF IInv

(* The other verdicts, the end of a command and the retry of its task.        *)
LEMMA EncerrarPreserva ==
  ASSUME IInv, NEW p \in Processos,
         FinalizarErro(p) \/ FinalizarInterrupcao(p) \/ Retornar(p) \/ Reagendar(p)
  PROVE  IInv'
<1>1. UNCHANGED <<numExec, ficha, checkpoint, numTasks, orfas, cancelando, sinc,
                  usos>>
  BY DEF FinalizarErro, FinalizarInterrupcao, FinalizarExecucao, Retornar, Reagendar
<1>2. /\ proc' \in [Processos -> Processo]
      /\ \A q \in Processos : HerancaCoberta(q)' /\ RunCoberto(q)'
  <2>1. CASE FinalizarErro(p)
    <3>1. "reagendando" \in Etapas /\ "reagendando" \notin EtapasDeRun
      BY DEF Etapas, EtapasDeRun, EmTry
    <3>2. QED BY <1>1, <2>1, <3>1, IrParaCoberto DEF FinalizarErro
  <2>2. CASE FinalizarInterrupcao(p) \/ Retornar(p) \/ Reagendar(p)
    BY <1>1, <2>2, LiberarCoberto DEF FinalizarInterrupcao, Retornar, Reagendar
  <2>3. QED BY <2>1, <2>2
<1>3. fila' \subseteq Task
  <2>1. proc[p].task \in Task
    BY DEF IInv, TypeOK, Processo
  <2>2. proc[p].task.retries < MaxRetries =>
          [proc[p].task EXCEPT !.continuar = TRUE, !.retries = @ + 1] \in Task
    <3>1. proc[p].task.retries \in 0..MaxRetries
      BY <2>1 DEF Task
    <3>2. proc[p].task.retries < MaxRetries =>
            proc[p].task.retries + 1 \in 0..MaxRetries
      BY <3>1, ControleAssumption
    <3>3. QED BY <2>1, <3>2 DEF Task
  <2>3. QED
    BY <2>2 DEF IInv, TypeOK, FinalizarErro, FinalizarInterrupcao,
                FinalizarExecucao, Retornar, Reagendar
<1>4. /\ situacao' \in [Ids -> Situacoes]
      /\ \A e \in Ids : situacao'[e] = "concluido" => situacao[e] = "concluido"
  BY DEF IInv, TypeOK, Situacoes, FinalizarErro, FinalizarInterrupcao,
         FinalizarExecucao, Retornar, Reagendar
<1>5. TypeOK'
  BY <1>1, <1>2, <1>3, <1>4 DEF IInv, TypeOK
<1>6. QED
  BY <1>1, <1>2, <1>4, <1>5, Estavel DEF IInv

-------------------------------------------------------------------------------
(* The three facts of an inductive invariant. *)

(* The invariant holds before anything runs. *)
LEMMA InitIInv ==
  Init => IInv
<1> SUFFICES ASSUME Init PROVE IInv
  OBVIOUS
<1>1. Livre \in Processo
  BY ControleAssumption DEF Livre, Processo, TaskVazia, Task, Etapas, Ids
<1>2. ficha \in [Ids -> Ficha] /\ \A e \in Ids : ficha[e].linhagem = e
  <2>1. (CHOOSE s \in Selecoes : TRUE) \in Selecoes
    BY ControleAssumption
  <2>2. QED
    BY <2>1, ControleAssumption DEF Init, Ficha, Ids
<1>3. TypeOK
  <2>1. numExec \in 0..MaxExecucoes /\ numTasks \in 0..MaxTasks
        /\ cancelando \in 0..MaxExecucoes
    BY ControleAssumption DEF Init
  <2>2. checkpoint \in Checkpoint /\ sinc \in [Fases -> 0..MaxExecucoes]
    BY ControleAssumption DEF Init, Checkpoint
  <2>3. QED
    BY <1>1, <1>2, <2>1, <2>2 DEF Init, TypeOK, Situacoes, SemLimpeza
<1>4. CheckpointRegistrado /\ CheckpointCoberto /\ ConcluidoCoberto
  BY DEF Init, CheckpointRegistrado, CheckpointCoberto, ConcluidoCoberto
<1>5. LinhagemPassada
  BY <1>2 DEF LinhagemPassada, Ids
<1>6. \A p \in Processos : HerancaCoberta(p) /\ RunCoberto(p)
  BY DEF Init, Livre, HerancaCoberta, RunCoberto, EtapasDeRun, EmTry
<1>7. QED
  BY <1>3, <1>4, <1>5, <1>6 DEF IInv

(* Every step of the process that runs the command keeps the invariant. *)
LEMMA PassoPreserva ==
  ASSUME IInv, NEW p \in Processos, Passo(p)
  PROVE  IInv'
BY IniciarExecucaoPreserva, IniciarFasePreserva, SincronizarFasePreserva,
   ConcluirFasePreserva, GravarSucessoPreserva, FinalizarSucessoPreserva,
   GravarErroPreserva, GravarInterrupcaoPreserva, EncerrarPreserva DEF Passo

(* Every step keeps the invariant. *)
LEMMA NextIInv ==
  IInv /\ [Next]_vars => IInv'
<1> SUFFICES ASSUME IInv, [Next]_vars PROVE IInv'
  OBVIOUS
<1>1. CASE UNCHANGED vars
  BY <1>1, Estavel DEF vars, IInv, TypeOK
<1>2. ASSUME NEW p \in Processos,
             Passo(p) \/ RegistrarParcial(p) \/ Receber(p) \/ Imprevisto(p)
      PROVE  IInv'
  BY <1>2, PassoPreserva, RegistrarParcialPreserva, ReceberPreserva,
     ImprevistoPreserva
<1>3. QED
  BY <1>1, <1>2, ApiPreserva, MarcarPreserva, TerminalPreserva DEF Next

(* IInv holds in every reachable state, for any number of processes, phases,  *)
(* executions, tasks and failures.                                            *)
THEOREM InvarianteDoControle == Spec => []IInv
<1>1. QED
  BY InitIInv, NextIInv, PTL DEF Spec

(* Every variable keeps its type: no step starts a run past the last phase it *)
(* has or writes a page that is no phase.                                     *)
THEOREM TipoCorreto == Spec => []TypeOK
<1>1. IInv => TypeOK
  BY DEF IInv
<1>2. QED
  BY <1>1, InvarianteDoControle, PTL

(* The checkpoint never promises more than was done, so that no run resumed   *)
(* from it (_obter_ponto_partida) skips a phase of its lineage that was not   *)
(* synchronised.                                                              *)
THEOREM CheckpointSeguro == Spec => []CheckpointCoberto
<1>1. IInv => CheckpointCoberto
  BY DEF IInv
<1>2. QED
  BY <1>1, InvarianteDoControle, PTL

(* An execution that _finalizar_com_sucesso closes has every phase it answers *)
(* for synchronised by itself or by the executions it continues.              *)
THEOREM ConclusaoSegura == Spec => []ConcluidoCoberto
<1>1. IInv => ConcluidoCoberto
  BY DEF IInv
<1>2. QED
  BY <1>1, InvarianteDoControle, PTL
================================================================================
