------------------------- MODULE EtlFasePipelineProofs -------------------------
(* Proofs about EtlFasePipeline, for every source, queue and retry limit. *)
EXTENDS EtlFasePipelineProps, SequenceTheorems, TLAPS

-------------------------------------------------------------------------------
(* Types. *)

(* Changing a field of a thread to a value of its type keeps the type. *)
LEMMA Campos ==
  /\ \A r \in Producer : \A e \in EtapasProducer : [r EXCEPT !.etapa = e] \in Producer
  /\ \A r \in Consumer : \A e \in EtapasConsumer : [r EXCEPT !.etapa = e] \in Consumer
  /\ \A r \in Consumer : \A e \in Excecoes : [r EXCEPT !.exc = e] \in Consumer
  /\ \A r \in Consumer : \A e \in Situacoes : [r EXCEPT !.situacao = e] \in Consumer
  /\ \A r \in Consumer : \A c \in 0..NumChunks : [r EXCEPT !.chunk = c] \in Consumer
  /\ \A r \in Consumer : \A n \in Nat : [r EXCEPT !.esperas = n] \in Consumer
  /\ \A r \in Producer : \A c \in 1..NumChunks + 1 : [r EXCEPT !.prox = c] \in Producer
  /\ \A r \in Producer : \A c \in 1..NumChunks + 1 : [r EXCEPT !.inicio = c] \in Producer
  /\ \A r \in Producer : \A n \in 0..MaxRetry : [r EXCEPT !.tentativa = n] \in Producer
<1>1. \A r \in Producer : \A e \in EtapasProducer : [r EXCEPT !.etapa = e] \in Producer
  BY DEF Producer
<1>2. \A r \in Consumer : \A e \in EtapasConsumer : [r EXCEPT !.etapa = e] \in Consumer
  BY DEF Consumer
<1>3. \A r \in Consumer : \A e \in Excecoes : [r EXCEPT !.exc = e] \in Consumer
  BY DEF Consumer
<1>4. \A r \in Consumer : \A e \in Situacoes : [r EXCEPT !.situacao = e] \in Consumer
  BY DEF Consumer
<1>5. \A r \in Consumer : \A c \in 0..NumChunks : [r EXCEPT !.chunk = c] \in Consumer
  BY DEF Consumer
<1>6. \A r \in Consumer : \A n \in Nat : [r EXCEPT !.esperas = n] \in Consumer
  BY DEF Consumer
<1>7. \A r \in Producer : \A c \in 1..NumChunks + 1 : [r EXCEPT !.prox = c] \in Producer
  BY DEF Producer
<1>8. \A r \in Producer : \A c \in 1..NumChunks + 1 : [r EXCEPT !.inicio = c] \in Producer
  BY DEF Producer
<1>9. \A r \in Producer : \A n \in 0..MaxRetry : [r EXCEPT !.tentativa = n] \in Producer
  BY DEF Producer
<1>10. QED
  BY <1>1, <1>2, <1>3, <1>4, <1>5, <1>6, <1>7, <1>8, <1>9

(* Moving a thread to another step, raising and leaving keep the types. *)
LEMMA MudarTipos ==
  /\ \A e \in EtapasProducer : prod \in Producer /\ MudarProducer(e) => prod' \in Producer
  /\ \A e \in EtapasConsumer : cons \in Consumer /\ MudarConsumer(e) => cons' \in Consumer
  /\ \A e \in Excecoes : cons \in Consumer /\ Levantar(e) => cons' \in Consumer
  /\ \A s \in Situacoes, e \in Excecoes : cons \in Consumer /\ Sair(s, e) => cons' \in Consumer
<1>1. \A e \in EtapasProducer : prod \in Producer /\ MudarProducer(e) => prod' \in Producer
  BY Campos DEF MudarProducer
<1>2. \A e \in EtapasConsumer : cons \in Consumer /\ MudarConsumer(e) => cons' \in Consumer
  BY Campos DEF MudarConsumer
<1>3. ASSUME NEW e \in Excecoes, cons \in Consumer, Levantar(e) PROVE cons' \in Consumer
  <2>1. cons' = [[cons EXCEPT !.etapa = "finalizando"] EXCEPT !.exc = e]
    BY <1>3 DEF Levantar
  <2>2. [cons EXCEPT !.etapa = "finalizando"] \in Consumer
    BY <1>3, Campos DEF EtapasConsumer
  <2>3. QED
    BY <1>3, <2>1, <2>2, Campos
<1>4. ASSUME NEW s \in Situacoes, NEW e \in Excecoes, cons \in Consumer, Sair(s, e)
      PROVE  cons' \in Consumer
  <2>1. cons' = [[[cons EXCEPT !.etapa = "fim"] EXCEPT !.situacao = s] EXCEPT !.exc = e]
    BY <1>4 DEF Sair
  <2>2. [cons EXCEPT !.etapa = "fim"] \in Consumer
    BY <1>4, Campos DEF EtapasConsumer
  <2>3. [[cons EXCEPT !.etapa = "fim"] EXCEPT !.situacao = s] \in Consumer
    BY <1>4, <2>2, Campos
  <2>4. QED
    BY <1>4, <2>1, <2>3, Campos
<1>5. QED
  BY <1>1, <1>2, <1>3, <1>4

(* The steps of the producer keep the types. *)
LEMMA ProducerTipos ==
  ASSUME TypeOK, ProducerCerto, PassoProducer
  PROVE  TypeOK'
<1> USE DEF TypeOK
<1>1. CASE LerChunk
  BY <1>1, MudarTipos DEF LerChunk, EtapasProducer
<1>2. CASE ProximaConsulta
  <2>1. prod' = [[prod EXCEPT !.inicio = prod.prox] EXCEPT !.tentativa = 0]
    BY <1>2 DEF ProximaConsulta
  <2>2. prod.prox \in 1..NumChunks + 1 /\ 0 \in 0..MaxRetry
    BY PipelineAssumption DEF Producer
  <2>3. prod' \in Producer
    BY <2>1, <2>2, Campos
  <2>4. QED
    BY <1>2, <2>3 DEF ProximaConsulta
<1>3. CASE EsgotarOrigem
  BY <1>3, MudarTipos DEF EsgotarOrigem, EtapasProducer
<1>4. CASE Reconectar
  <2>1. prod' = [[prod EXCEPT !.prox = prod.inicio] EXCEPT !.tentativa = prod.tentativa + 1]
    BY <1>4 DEF Reconectar
  <2>2. prod.inicio \in 1..NumChunks + 1 /\ prod.tentativa + 1 \in 0..MaxRetry
    BY <1>4, PipelineAssumption DEF Reconectar, Producer
  <2>3. prod' \in Producer
    BY <2>1, <2>2, Campos
  <2>4. QED
    BY <1>4, <2>3 DEF Reconectar
<1>5. CASE FalharLeitura
  BY <1>5, MudarTipos DEF FalharLeitura, EtapasProducer
<1>6. CASE AnotarErro
  BY <1>6, MudarTipos DEF AnotarErro, EtapasProducer
<1>7. CASE Por
  <2>1. prod.prox \in Chunks
    BY <1>7 DEF Por, ProducerEm, ProducerCerto
  <2>2. prod' \in Producer
    <3>1. prod' = [[prod EXCEPT !.etapa = "lendo"] EXCEPT !.prox = prod.prox + 1]
      BY <1>7 DEF Por
    <3>2. "lendo" \in EtapasProducer /\ prod.prox + 1 \in 1..NumChunks + 1
      BY <2>1, PipelineAssumption DEF EtapasProducer, Chunks
    <3>3. QED
      BY <3>1, <3>2, Campos
  <2>3. fila' \in Seq(0..NumChunks) /\ Len(fila') <= Capacidade
    BY <1>7, <2>1, PipelineAssumption DEF Por, Chunks
  <2>4. QED
    BY <1>7, <2>2, <2>3 DEF Por
<1>8. CASE PorFim
  <2>1. fila' \in Seq(0..NumChunks) /\ Len(fila') <= Capacidade
    BY <1>8, PipelineAssumption DEF PorFim, Fim
  <2>2. QED
    BY <1>8, <2>1, MudarTipos DEF PorFim, EtapasProducer
<1>9. CASE Encerrar
  BY <1>9, MudarTipos DEF Encerrar, EtapasProducer
<1>10. QED
  BY <1>1, <1>2, <1>3, <1>4, <1>5, <1>6, <1>7, <1>8, <1>9 DEF PassoProducer, Ler

(* The steps of the consumer keep the types. *)
LEMMA ConsumerTipos ==
  ASSUME TypeOK, ConsumerCerto, Trabalhar \/ FalharConsumer
  PROVE  TypeOK'
<1> USE DEF TypeOK
<1>1. CASE Iniciar
  <2>1. prod' \in Producer
    BY <1>1, Campos DEF Iniciar, EtapasProducer
  <2>2. destino' \in [Chunks -> Nat]
    BY <1>1 DEF Iniciar
  <2>3. QED
    BY <1>1, <2>1, <2>2, MudarTipos DEF Iniciar, EtapasConsumer
<1>2. CASE Preparar
  BY <1>2, MudarTipos DEF Preparar, EtapasConsumer
<1>3. CASE ObterChunk
  <2>1. Head(fila) \in 0..NumChunks /\ fila' \in Seq(0..NumChunks) /\ Len(fila') <= Capacidade
    BY <1>3, PipelineAssumption DEF ObterChunk
  <2>2. CASE Head(fila) = Fim /\ MudarConsumer("finalizando")
    BY <1>3, <2>1, <2>2, MudarTipos DEF ObterChunk, EtapasConsumer
  <2>3. CASE cons' = [cons EXCEPT !.etapa = "processando", !.chunk = Head(fila)]
    <3>1. cons' = [[cons EXCEPT !.etapa = "processando"] EXCEPT !.chunk = Head(fila)]
      BY <2>3
    <3>2. cons' \in Consumer
      BY <2>1, <3>1, Campos DEF EtapasConsumer
    <3>3. QED
      BY <1>3, <2>1, <3>2 DEF ObterChunk
  <2>4. QED
    BY <1>3, <2>2, <2>3 DEF ObterChunk
<1>4. CASE EsgotarEspera
  BY <1>4, MudarTipos DEF EsgotarEspera, EtapasConsumer
<1>5. CASE ConferirErros
  BY <1>5, MudarTipos DEF ConferirErros, EtapasConsumer, Excecoes
<1>6. CASE ConferirVida
  <2>1. CASE Levantar("sem_sinal") \/ Levantar("tempo")
    BY <1>6, <2>1, MudarTipos DEF ConferirVida, Excecoes
  <2>2. CASE cons' = [cons EXCEPT !.etapa = "esperando", !.esperas = @ + 1]
    <3>1. cons' = [[cons EXCEPT !.etapa = "esperando"] EXCEPT !.esperas = cons.esperas + 1]
      BY <2>2
    <3>2. cons.esperas + 1 \in Nat
      BY DEF Consumer
    <3>3. cons' \in Consumer
      BY <3>1, <3>2, Campos DEF EtapasConsumer
    <3>4. QED
      BY <1>6, <3>3 DEF ConferirVida
  <2>3. QED
    BY <1>6, <2>1, <2>2 DEF ConferirVida
<1>7. CASE GravarBatch
  <2>1. cons.chunk \in Chunks
    BY <1>7 DEF GravarBatch, ConsumerEm, ConsumerCerto
  <2>2. destino' \in [Chunks -> Nat] /\ escritos' \subseteq Chunks
    BY <1>7, <2>1 DEF GravarBatch, Gravar
  <2>3. ultimo' \in 0..NumChunks
    BY <1>7, <2>1, PipelineAssumption DEF GravarBatch, Gravar, Chunks
  <2>4. QED
    BY <1>7, <2>2, <2>3, MudarTipos DEF GravarBatch, EtapasConsumer
<1>8. CASE RegistrarProgresso
  <2>1. cons' = [[[cons EXCEPT !.etapa = "esperando"] EXCEPT !.chunk = 0] EXCEPT !.esperas = 0]
    BY <1>8 DEF RegistrarProgresso
  <2>2. "esperando" \in EtapasConsumer /\ 0 \in 0..NumChunks /\ 0 \in Nat
    BY PipelineAssumption DEF EtapasConsumer
  <2>3. cons' \in Consumer
    BY <2>1, <2>2, Campos
  <2>4. QED
    BY <1>8, <2>3 DEF RegistrarProgresso
<1>9. CASE Finalizar
  <2>1. cons.exc \in Excecoes
    BY DEF Consumer
  <2>2. cons' \in Consumer
    BY <1>9, <2>1, MudarTipos DEF Finalizar, EtapasConsumer, Excecoes, Situacoes
  <2>3. QED
    BY <1>9, <2>2 DEF Finalizar
<1>10. CASE Auditar
  BY <1>10, MudarTipos DEF Auditar, Excecoes, Situacoes
<1>11. CASE FalharInicio
  BY <1>11, MudarTipos DEF FalharInicio, Excecoes, Situacoes
<1>12. CASE FalharNoLoop
  BY <1>12, MudarTipos DEF FalharNoLoop, Excecoes
<1>13. CASE FalharNoFim
  BY <1>13, MudarTipos DEF FalharNoFim, Excecoes, Situacoes
<1>14. QED
  BY <1>1, <1>2, <1>3, <1>4, <1>5, <1>6, <1>7, <1>8, <1>9, <1>10, <1>11, <1>12,
     <1>13 DEF Trabalhar, FalharConsumer

-------------------------------------------------------------------------------
(* The parts of the invariant that follow the chunks are not disturbed by a
   step that moves no chunk.                                               *)

SemMoverChunks ==
  /\ UNCHANGED <<fila, destino, escritos, ultimo, quedas>>
  /\ prod'.prox = prod.prox /\ prod'.inicio = prod.inicio
  /\ cons'.etapa = "inicio" => cons.etapa = "inicio"
  /\ cons'.exc = "nenhuma" =>
       /\ cons.exc = "nenhuma"
       /\ cons.etapa = "inicio" => cons'.etapa = "inicio"
       /\ cons'.etapa = "processando" <=> cons.etapa = "processando"
       /\ cons.etapa = "processando" => cons'.chunk = cons.chunk

(* A step that moves no chunk keeps what is said of queue, writes and table. *)
LEMMA SemMoverPreserva ==
  ASSUME TypeOK, Entregues, EmSequencia, SemRecomeco, DestinoCerto, SemMoverChunks
  PROVE  Entregues' /\ EmSequencia' /\ SemRecomeco' /\ DestinoCerto'
<1>1. Entregues'
  BY DEF Entregues, SemMoverChunks, NaMao
<1>2. CASE cons'.exc = "nenhuma"
  <2>1. Corrente' = Corrente /\ NaFila' = NaFila /\ Cauda' = Cauda
    BY <1>2 DEF Corrente, NaFila, Cauda, SemMoverChunks
  <2>2. EmSequencia'
    BY <1>2, <2>1 DEF EmSequencia, SemMoverChunks, Segue, InicioDaConsulta
  <2>3. SemRecomeco'
    BY <1>2, <2>1 DEF SemRecomeco, SemMoverChunks
  <2>4. QED
    BY <1>1, <1>2, <2>2, <2>3 DEF DestinoCerto, SemMoverChunks
<1>3. CASE cons'.exc # "nenhuma"
  BY <1>1, <1>3 DEF EmSequencia, SemRecomeco, DestinoCerto, SemMoverChunks
<1>4. QED
  BY <1>2, <1>3

(* The steps that move no chunk. *)
PassoSemMover ==
  \/ LerChunk \/ EsgotarOrigem \/ FalharLeitura \/ AnotarErro \/ Encerrar
  \/ Preparar \/ EsgotarEspera \/ ConferirErros \/ ConferirVida
  \/ RegistrarProgresso \/ Finalizar \/ Auditar
  \/ FalharInicio \/ FalharNoLoop \/ FalharNoFim

(* Which steps move no chunk. *)
LEMMA SaoSemMover ==
  ASSUME TypeOK, ProducerCerto, ConsumerCerto, PassoSemMover
  PROVE  SemMoverChunks
<1> USE DEF SemMoverChunks, TypeOK
<1>1. CASE LerChunk
  BY <1>1 DEF LerChunk, MudarProducer, Producer
<1>2. CASE EsgotarOrigem
  BY <1>2 DEF EsgotarOrigem, MudarProducer, Producer
<1>3. CASE FalharLeitura
  BY <1>3 DEF FalharLeitura, MudarProducer, Producer
<1>4. CASE AnotarErro
  BY <1>4 DEF AnotarErro, MudarProducer, Producer
<1>5. CASE Encerrar
  BY <1>5 DEF Encerrar, MudarProducer, Producer
<1>6. CASE Preparar
  BY <1>6 DEF Preparar, ConsumerEm, MudarConsumer, Levantar, Sair, Consumer, ConsumerCerto
<1>7. CASE EsgotarEspera
  BY <1>7 DEF EsgotarEspera, ConsumerEm, MudarConsumer, Levantar, Sair, Consumer, ConsumerCerto
<1>8. CASE ConferirErros
  BY <1>8 DEF ConferirErros, ConsumerEm, MudarConsumer, Levantar, Sair, Consumer, ConsumerCerto
<1>9. CASE ConferirVida
  BY <1>9 DEF ConferirVida, ConsumerEm, MudarConsumer, Levantar, Sair, Consumer, ConsumerCerto
<1>10. CASE RegistrarProgresso
  BY <1>10 DEF RegistrarProgresso, ConsumerEm, MudarConsumer, Levantar, Sair, Consumer, ConsumerCerto
<1>11. CASE Finalizar
  BY <1>11 DEF Finalizar, ConsumerEm, MudarConsumer, Levantar, Sair, Consumer, ConsumerCerto
<1>12. CASE Auditar
  BY <1>12 DEF Auditar, ConsumerEm, MudarConsumer, Levantar, Sair, Consumer, ConsumerCerto
<1>13. CASE FalharInicio
  BY <1>13 DEF FalharInicio, ConsumerEm, MudarConsumer, Levantar, Sair, Consumer, ConsumerCerto
<1>14. CASE FalharNoLoop
  BY <1>14 DEF FalharNoLoop, ConsumerEm, MudarConsumer, Levantar, Sair, Consumer, ConsumerCerto
<1>15. CASE FalharNoFim
  BY <1>15 DEF FalharNoFim, ConsumerEm, MudarConsumer, Levantar, Sair, Consumer, ConsumerCerto
<1>16. QED
  BY <1>1, <1>2, <1>3, <1>4, <1>5, <1>6, <1>7, <1>8, <1>9, <1>10, <1>11, <1>12, <1>13, <1>14, <1>15
     DEF PassoSemMover

(* Such a step keeps what is said of the two threads. *)
LEMMA SemMoverControle ==
  ASSUME TypeOK, FimPorUltimo, ProducerCerto, ConsumerCerto, PassoSemMover
  PROVE  FimPorUltimo' /\ ProducerCerto' /\ ConsumerCerto'
<1> USE PipelineAssumption
    DEF TypeOK, FimPorUltimo, ProducerCerto, ConsumerCerto, FimPosto, Chunks
<1>1. CASE LerChunk
  BY <1>1 DEF LerChunk, ProducerEm, MudarProducer, Producer
<1>2. CASE EsgotarOrigem
  BY <1>2 DEF EsgotarOrigem, ProducerEm, MudarProducer, Producer
<1>3. CASE FalharLeitura
  BY <1>3 DEF FalharLeitura, ProducerEm, MudarProducer, Producer
<1>4. CASE AnotarErro
  BY <1>4 DEF AnotarErro, ProducerEm, MudarProducer, Producer
<1>5. CASE Encerrar
  BY <1>5 DEF Encerrar, ProducerEm, MudarProducer, Producer
<1>6. CASE Preparar
  BY <1>6 DEF Preparar, ConsumerEm, ProducerEm, MudarConsumer, Levantar, Sair, Consumer
<1>7. CASE EsgotarEspera
  BY <1>7 DEF EsgotarEspera, ConsumerEm, ProducerEm, MudarConsumer, Levantar, Sair, Consumer
<1>8. CASE ConferirErros
  BY <1>8 DEF ConferirErros, ConsumerEm, ProducerEm, MudarConsumer, Levantar, Sair, Consumer
<1>9. CASE ConferirVida
  BY <1>9 DEF ConferirVida, ConsumerEm, ProducerEm, MudarConsumer, Levantar, Sair, Consumer
<1>10. CASE RegistrarProgresso
  BY <1>10 DEF RegistrarProgresso, ConsumerEm, ProducerEm, MudarConsumer, Levantar, Sair, Consumer
<1>11. CASE Finalizar
  BY <1>11 DEF Finalizar, ConsumerEm, ProducerEm, MudarConsumer, Levantar, Sair, Consumer
<1>12. CASE Auditar
  BY <1>12 DEF Auditar, ConsumerEm, ProducerEm, MudarConsumer, Levantar, Sair, Consumer
<1>13. CASE FalharInicio
  BY <1>13 DEF FalharInicio, ConsumerEm, ProducerEm, MudarConsumer, Levantar, Sair, Consumer
<1>14. CASE FalharNoLoop
  BY <1>14 DEF FalharNoLoop, ConsumerEm, ProducerEm, MudarConsumer, Levantar, Sair, Consumer
<1>15. CASE FalharNoFim
  BY <1>15 DEF FalharNoFim, ConsumerEm, ProducerEm, MudarConsumer, Levantar, Sair, Consumer
<1>16. QED
  BY <1>1, <1>2, <1>3, <1>4, <1>5, <1>6, <1>7, <1>8, <1>9, <1>10, <1>11, <1>12, <1>13, <1>14, <1>15
     DEF PassoSemMover

-------------------------------------------------------------------------------
(* The steps that move chunks. *)

(* The chunks of the queue come first, and the last of them is a number. *)
LEMMA CaudaNat ==
  ASSUME TypeOK
  PROVE  /\ Corrente \in Nat /\ Cauda \in Nat
         /\ NaFila \in 0..Len(fila)
<1>1. NaFila \in 0..Len(fila)
  <2>1. Len(fila) \in Nat /\ (fila # <<>> => Len(fila) > 0)
    BY DEF TypeOK
  <2>2. QED
    BY <2>1 DEF NaFila
<1>2. Corrente \in Nat
  BY PipelineAssumption DEF TypeOK, Consumer, Corrente
<1>3. NaFila # 0 => fila[NaFila] \in 0..NumChunks
  <2>1. fila \in Seq(0..NumChunks)
    BY DEF TypeOK
  <2>2. NaFila # 0 => NaFila \in 1..Len(fila)
    BY <1>1, <2>1
  <2>3. QED
    BY <2>1, <2>2, ElementOfSeq
<1>4. QED
  BY <1>1, <1>2, <1>3, PipelineAssumption DEF Cauda

(* A chunk and the beginning of a query compare. *)
LEMMA InicioComparavel ==
  ASSUME NEW a \in Nat PROVE \A i \in Inicios : i <= a \/ a <= i
BY PipelineAssumption DEF Chunks

(* The next query of the source begins where the last one ended. *)
LEMMA ProximaConsultaPreserva ==
  ASSUME PipelineInv, TypeOK', ProximaConsulta
  PROVE  PipelineInv'
<1> USE PipelineAssumption DEF PipelineInv, TypeOK, Producer, ProximaConsulta, ProducerEm,
        Chunks, FimPosto
<1>1. FimPorUltimo' /\ ProducerCerto' /\ ConsumerCerto'
  <2>1. FimPorUltimo'
    BY DEF FimPorUltimo
  <2>2. ProducerCerto'
    <3>0. prod'.prox = prod.prox /\ prod'.inicio = prod.prox /\ prod'.etapa = prod.etapa
      OBVIOUS
    <3>1. prod.prox \in Nat /\ prod.etapa = "lendo" /\ prod.prox \in Inicios
      <4>1. prod.prox \in 1..NumChunks + 1
        OBVIOUS
      <4>2. QED
        BY <4>1
    <3>2. \A i \in Inicios : i <= prod.prox \/ prod.prox <= i
      BY <3>1, InicioComparavel
    <3>3. QED
      BY <3>0, <3>1, <3>2 DEF ProducerCerto
  <2>3. ConsumerCerto'
    BY DEF ConsumerCerto
  <2>4. QED
    BY <2>1, <2>2, <2>3
<1>2. Entregues' /\ SemRecomeco' /\ DestinoCerto'
  BY DEF Entregues, NaMao, SemRecomeco, NaFila, Corrente, DestinoCerto
<1>3. EmSequencia'
  BY DEF EmSequencia, ProducerCerto, Cauda, NaFila, Corrente, Segue, InicioDaConsulta
<1>4. QED
  BY <1>1, <1>2, <1>3

(* Reading the query again promises less than was delivered. *)
LEMMA ReconectarPreserva ==
  ASSUME PipelineInv, TypeOK', Reconectar
  PROVE  PipelineInv'
<1> USE DEF PipelineInv, Reconectar
<1>1. FimPorUltimo' /\ ProducerCerto' /\ ConsumerCerto'
  <2> USE PipelineAssumption DEF TypeOK, Producer, ProducerEm, Chunks, FimPosto
  <2>1. FimPorUltimo'
    BY DEF FimPorUltimo
  <2>2. ProducerCerto'
    <3>0. prod'.etapa = prod.etapa /\ prod'.prox = prod.inicio /\ prod'.inicio = prod.inicio
      OBVIOUS
    <3>1. prod.inicio \in Nat /\ prod.inicio <= prod.prox /\ prod.etapa = "lendo"
      <4>1. prod.inicio \in 1..NumChunks + 1
        OBVIOUS
      <4>2. prod.inicio <= prod.prox
        BY DEF ProducerCerto
      <4>3. QED
        BY <4>1, <4>2
    <3>2. \A i \in Inicios : i <= prod.inicio \/ prod.inicio <= i
      BY <3>1, InicioComparavel
    <3>3. prod.inicio <= prod.inicio /\ prod.inicio \in Inicios \cup {1} /\ ~erros
      BY <3>1 DEF ProducerCerto
    <3>4. QED
      BY <3>0, <3>1, <3>2, <3>3 DEF ProducerCerto
  <2>3. ConsumerCerto'
    BY DEF ConsumerCerto
  <2>4. QED
    BY <2>1, <2>2, <2>3
<1>2. prod.inicio \in Nat /\ prod.prox \in Nat /\ prod.inicio <= prod.prox /\ prod'.prox = prod.inicio
      /\ prod'.inicio = prod.inicio
  <2>1. prod \in Producer /\ prod.inicio <= prod.prox
    BY DEF TypeOK, ProducerCerto
  <2>2. prod'.prox = prod.inicio /\ prod'.inicio = prod.inicio
    BY <2>1 DEF Producer
  <2>3. prod.inicio \in Nat /\ prod.prox \in Nat
    BY <2>1, PipelineAssumption DEF Producer
  <2>4. QED
    BY <2>1, <2>2, <2>3
<1>3. Entregues'
  BY <1>2 DEF Entregues, NaMao
<1>4. Corrente' = Corrente /\ NaFila' = NaFila /\ Cauda' = Cauda
  BY DEF Corrente, NaFila, Cauda
<1>5. EmSequencia'
  <2> SUFFICES ASSUME cons.exc = "nenhuma"
               PROVE  prod.inicio = Cauda + 1 \/ InicioDaConsulta(Cauda, prod.inicio)
    BY <1>2, <1>4 DEF EmSequencia, Segue, InicioDaConsulta
  <2>1. Cauda \in Nat
    BY CaudaNat
  <2>2. CASE prod.prox = Cauda + 1 /\ prod.inicio # prod.prox
    <3>1. prod.inicio <= Cauda /\ \A i \in Inicios : i <= prod.inicio \/ Cauda < i
      BY <1>2, <2>1, <2>2, PipelineAssumption DEF ProducerCerto, Chunks
    <3>2. prod.inicio \in Inicios
      <4>1. prod.inicio # 1 => prod.inicio \in Inicios
        BY DEF ProducerCerto
      <4>2. 1 <= prod.inicio /\ prod.prox <= NumChunks + 1
        BY PipelineAssumption DEF TypeOK, Producer
      <4>3. NumChunks > 0
        BY <1>2, <2>2, <4>2, PipelineAssumption
      <4>4. QED
        BY <4>1, <4>3, PipelineAssumption
    <3>3. QED
      BY <3>1, <3>2 DEF InicioDaConsulta
  <2>3. QED
    BY <2>2 DEF EmSequencia
<1>6. SemRecomeco' /\ DestinoCerto'
  BY DEF SemRecomeco, DestinoCerto, TypeOK
<1>7. QED
  BY <1>1, <1>3, <1>5, <1>6

(* A chunk joins the queue, after all those before it. *)
LEMMA PorPreserva ==
  ASSUME PipelineInv, TypeOK', Por
  PROVE  PipelineInv'
<1> USE DEF PipelineInv
<1>1. /\ prod.prox \in Chunks /\ prod.prox # Fim
      /\ prod'.prox = prod.prox + 1 /\ prod'.inicio = prod.inicio
      /\ prod'.etapa = "lendo" /\ prod.etapa = "pondo"
  BY PipelineAssumption DEF Por, ProducerEm, ProducerCerto, TypeOK, Producer, Chunks, Fim
<1>2. /\ Len(fila) \in Nat /\ Len(fila') = Len(fila) + 1
      /\ fila'[Len(fila) + 1] = prod.prox
      /\ \A i \in 1..Len(fila) : fila'[i] = fila[i]
  BY DEF Por, TypeOK
<1>3. \A i \in 1..Len(fila) : fila[i] # Fim
  BY <1>1 DEF FimPorUltimo, FimPosto
<1>4. \A i \in 1..Len(fila') : fila'[i] # Fim
  BY <1>1, <1>2, <1>3
<1>5. fila' # <<>>
  BY <1>2 DEF TypeOK
<1>6. NaFila = Len(fila) /\ NaFila' = Len(fila) + 1 /\ Corrente' = Corrente
      /\ Cauda' = prod.prox
  <2>1. NaFila = Len(fila)
    BY <1>2, <1>3 DEF NaFila, TypeOK
  <2>2. NaFila' = Len(fila) + 1
    BY <1>2, <1>4, <1>5 DEF NaFila
  <2>3. QED
    BY <1>2, <2>1, <2>2 DEF Corrente, Cauda, Por
<1>7. FimPorUltimo' /\ ProducerCerto' /\ ConsumerCerto'
  <2>1. FimPorUltimo'
    BY <1>4 DEF FimPorUltimo
  <2>2. ProducerCerto'
    <3>0. ~erros
      BY <1>1 DEF ProducerCerto, FimPosto
    <3>1. prod.inicio \in Nat /\ prod.prox \in Nat /\ (erros => FALSE)
      BY <3>0, PipelineAssumption DEF TypeOK, Producer
    <3>2. \A i \in Inicios : i <= prod.inicio \/ prod.prox + 1 <= i
      BY <1>1, <3>1, PipelineAssumption DEF ProducerCerto, Chunks
    <3>3. UNCHANGED erros
      BY DEF Por
    <3>4. prod.inicio <= prod.prox + 1 /\ prod.inicio \in Inicios \cup {1}
      BY <3>1 DEF ProducerCerto
    <3>5. QED
      BY <1>1, <3>1, <3>2, <3>3, <3>4 DEF ProducerCerto, FimPosto
  <2>3. ConsumerCerto'
    BY <1>1 DEF ConsumerCerto, Por, FimPosto
  <2>4. QED
    BY <2>1, <2>2, <2>3
<1>8. Entregues'
  <2> SUFFICES ASSUME cons.exc = "nenhuma", NEW c \in 1..prod.prox
               PROVE  \/ c \in escritos \/ NaMao(c)
                      \/ \E i \in 1..Len(fila') : fila'[i] = c
    BY <1>1 DEF Entregues, NaMao, Por, Chunks
  <2>1. CASE c = prod.prox
    BY <1>2, <2>1
  <2>2. CASE c # prod.prox
    <3>1. c \in 1..(prod.prox - 1)
      BY <1>1, <2>2 DEF Chunks
    <3>2. QED
      BY <1>2, <3>1 DEF Entregues
  <2>3. QED
    BY <2>1, <2>2
<1>9. EmSequencia'
  <2> SUFFICES ASSUME cons.exc = "nenhuma"
               PROVE  /\ cons.etapa = "processando" => Segue(ultimo, cons.chunk)
                      /\ Segue(Corrente, fila'[1])
                      /\ \A i \in 1..Len(fila) : Segue(fila'[i], fila'[i + 1])
    BY <1>1, <1>2, <1>6 DEF EmSequencia, Segue, InicioDaConsulta, Por
  <2>1. Segue(Cauda, prod.prox)
    BY DEF EmSequencia, Segue
  <2>2. Segue(Corrente, fila'[1])
    BY <1>2, <1>6, <2>1 DEF EmSequencia, Cauda
  <2>3. ASSUME NEW i \in 1..Len(fila) PROVE Segue(fila'[i], fila'[i + 1])
    <3>1. CASE i = Len(fila)
      BY <1>2, <1>6, <2>1, <3>1 DEF Cauda
    <3>2. CASE i # Len(fila)
      BY <1>2, <1>6, <3>2 DEF EmSequencia
    <3>3. QED
      BY <3>1, <3>2
  <2>4. QED
    BY <2>2, <2>3 DEF EmSequencia
<1>10. SemRecomeco'
  <2> SUFFICES ASSUME cons.exc = "nenhuma", quedas = 0
               PROVE  /\ \A i \in 1..(Len(fila) + 1) : fila'[i] = Corrente + i
                      /\ prod.prox + 1 = Corrente + (Len(fila) + 1) + 1
    BY <1>1, <1>6 DEF SemRecomeco, Por
  <2>1. Corrente \in Nat /\ prod.prox = Corrente + Len(fila) + 1
    BY <1>6, CaudaNat DEF SemRecomeco
  <2>2. \A i \in 1..Len(fila) : fila'[i] = Corrente + i
    BY <1>2, <1>6 DEF SemRecomeco
  <2>3. fila'[Len(fila) + 1] = Corrente + (Len(fila) + 1)
    BY <1>2, <2>1
  <2>4. QED
    BY <1>2, <2>1, <2>2, <2>3
<1>11. DestinoCerto'
  BY DEF DestinoCerto, Por
<1>12. QED
  BY <1>7, <1>8, <1>9, <1>10, <1>11

(* The None joins the queue: it is no chunk. *)
LEMMA PorFimPreserva ==
  ASSUME PipelineInv, TypeOK', PorFim
  PROVE  PipelineInv'
<1> USE DEF PipelineInv
<1>1. /\ prod.etapa = "pondo_fim" /\ prod'.etapa = "terminando"
      /\ prod'.prox = prod.prox /\ prod'.inicio = prod.inicio
  BY DEF PorFim, MudarProducer, ProducerEm, TypeOK, Producer
<1>2. /\ Len(fila) \in Nat /\ Len(fila') = Len(fila) + 1
      /\ fila'[Len(fila) + 1] = Fim
      /\ \A i \in 1..Len(fila) : fila'[i] = fila[i]
  BY DEF PorFim, TypeOK, Fim
<1>3. \A i \in 1..Len(fila) : fila[i] # Fim
  BY <1>1 DEF FimPorUltimo, FimPosto
<1>4. fila' # <<>>
  BY <1>2 DEF TypeOK
<1>5. NaFila = Len(fila) /\ NaFila' = Len(fila) /\ Corrente' = Corrente /\ Cauda' = Cauda
  <2>1. NaFila = Len(fila)
    BY <1>2, <1>3 DEF NaFila, TypeOK
  <2>2. NaFila' = Len(fila)
    BY <1>2, <1>4 DEF NaFila
  <2>3. QED
    BY <1>2, <2>1, <2>2 DEF Corrente, Cauda, PorFim
<1>6. FimPorUltimo' /\ ProducerCerto' /\ ConsumerCerto'
  <2>1. FimPorUltimo'
    BY <1>1, <1>2, <1>3 DEF FimPorUltimo, FimPosto
  <2>2. ProducerCerto'
    BY <1>1, <1>4 DEF ProducerCerto, PorFim, FimPosto
  <2>3. ConsumerCerto'
    BY <1>1 DEF ConsumerCerto, PorFim, FimPosto
  <2>4. QED
    BY <2>1, <2>2, <2>3
<1>7. Entregues'
  BY <1>1, <1>2 DEF Entregues, NaMao, PorFim
<1>8. EmSequencia'
  <2>1. UNCHANGED <<cons, ultimo>>
    BY DEF PorFim
  <2>2. NaFila > 0 => fila'[1] = fila[1]
    BY <1>2, <1>5
  <2>3. \A i \in 1..(NaFila - 1) : fila'[i] = fila[i] /\ fila'[i + 1] = fila[i + 1]
    BY <1>2, <1>5
  <2>4. QED
    BY <1>1, <1>5, <2>1, <2>2, <2>3 DEF EmSequencia, Segue, InicioDaConsulta
<1>9. SemRecomeco' /\ DestinoCerto'
  BY <1>1, <1>2, <1>5 DEF SemRecomeco, DestinoCerto, PorFim
<1>10. QED
  BY <1>6, <1>7, <1>8, <1>9

(* The call begins: nothing has been read. *)
LEMMA IniciarPreserva ==
  ASSUME PipelineInv, TypeOK', Iniciar
  PROVE  PipelineInv'
<1> USE DEF PipelineInv
<1>1. /\ cons.etapa = "inicio" /\ cons'.etapa = "preparando"
      /\ cons'.exc = cons.exc /\ cons'.situacao = cons.situacao
      /\ cons.exc = "nenhuma" /\ cons.situacao = "executando"
      /\ prod.etapa = "parado" /\ prod'.etapa = "lendo"
      /\ prod'.prox = 1 /\ prod'.inicio = 1 /\ fila = <<>> /\ fila' = <<>>
      /\ prod.prox = 1 /\ prod.inicio = 1
      /\ UNCHANGED <<erros, escritos, ultimo, quedas>>
  BY DEF Iniciar, ConsumerEm, MudarConsumer, TypeOK, Consumer, Producer, ConsumerCerto,
         ProducerCerto
<1>2. FimPorUltimo' /\ ConsumerCerto'
  BY <1>1 DEF FimPorUltimo, ConsumerCerto
<1>3. ProducerCerto'
  BY <1>1, PipelineAssumption DEF ProducerCerto, FimPosto
<1>4. Corrente' = Corrente /\ NaFila' = NaFila /\ Cauda' = Cauda /\ NaFila = 0
  BY <1>1 DEF Corrente, NaFila, Cauda
<1>5. Entregues' /\ EmSequencia' /\ SemRecomeco'
  BY <1>1, <1>4 DEF Entregues, EmSequencia, SemRecomeco, Segue, InicioDaConsulta
<1>6. DestinoCerto'
  <2>1. escritos = {}
    BY <1>1 DEF DestinoCerto
  <2>2. FullRefresh /\ Trunca => \A c \in Chunks : destino'[c] = 0
    BY DEF Iniciar
  <2>3. QED
    BY <1>1, <2>1, <2>2 DEF DestinoCerto
<1>7. QED
  BY <1>2, <1>3, <1>5, <1>6

(* The consumer takes the None: the queue is empty and nothing will come. *)
LEMMA ObterFimPreserva ==
  ASSUME PipelineInv, TypeOK', ObterChunk, Head(fila) = Fim
  PROVE  PipelineInv'
<1> USE DEF PipelineInv
<1>1. /\ fila # <<>> /\ fila' = Tail(fila) /\ fila[1] = Fim
      /\ cons.etapa = "esperando" /\ cons'.etapa = "finalizando"
      /\ cons'.exc = cons.exc /\ cons'.situacao = cons.situacao
      /\ UNCHANGED <<erros, prod, destino, escritos, ultimo, quedas>>
  BY DEF ObterChunk, ConsumerEm, MudarConsumer, TypeOK, Consumer
<1>2. Len(fila) = 1 /\ prod.etapa \in FimPosto
  <2>1. 1 \in 1..Len(fila)
    BY <1>1 DEF TypeOK
  <2>2. QED
    BY <1>1, <2>1 DEF FimPorUltimo
<1>3. fila' = <<>>
  BY <1>1, <1>2 DEF TypeOK
<1>4. NaFila = 0 /\ NaFila' = 0 /\ Corrente' = Corrente /\ Cauda' = Cauda
  BY <1>1, <1>2, <1>3 DEF NaFila, Corrente, Cauda
<1>5. FimPorUltimo' /\ ProducerCerto'
  BY <1>1, <1>3 DEF FimPorUltimo, ProducerCerto
<1>6. ConsumerCerto'
  BY <1>1, <1>2, <1>3 DEF ConsumerCerto, FimPosto
<1>7. Entregues'
  <2> SUFFICES ASSUME cons.exc = "nenhuma", NEW c \in 1..(prod.prox - 1) PROVE c \in escritos
    BY <1>1 DEF Entregues
  <2>1. c # Fim
    BY PipelineAssumption DEF Fim, TypeOK, Producer
  <2>2. QED
    BY <1>1, <1>2, <2>1 DEF Entregues, NaMao
<1>8. EmSequencia' /\ SemRecomeco' /\ DestinoCerto'
  BY <1>1, <1>4 DEF EmSequencia, SemRecomeco, DestinoCerto, Segue, InicioDaConsulta
<1>9. QED
  BY <1>5, <1>6, <1>7, <1>8

(* The consumer takes a chunk: what follows it in the queue still follows it. *)
LEMMA ObterChunkPreserva ==
  ASSUME PipelineInv, TypeOK', ObterChunk, Head(fila) # Fim
  PROVE  PipelineInv'
<1> USE DEF PipelineInv
<1>0. cons' = [cons EXCEPT !.etapa = "processando", !.chunk = Head(fila)]
  BY DEF ObterChunk
<1>1. /\ fila # <<>> /\ fila' = Tail(fila)
      /\ cons.etapa = "esperando" /\ cons'.etapa = "processando" /\ cons'.chunk = fila[1]
      /\ cons'.exc = cons.exc /\ cons'.situacao = cons.situacao
      /\ UNCHANGED <<erros, prod, destino, escritos, ultimo, quedas>>
  BY <1>0 DEF ObterChunk, ConsumerEm, TypeOK, Consumer
<1>2. /\ Len(fila) \in Nat \ {0} /\ Len(fila') = Len(fila) - 1
      /\ \A i \in 1..Len(fila') : fila'[i] = fila[i + 1]
      /\ fila[1] # Fim
  BY <1>1 DEF TypeOK
<1>3. fila[1] \in Chunks
  <2>1. fila \in Seq(0..NumChunks) /\ 1 \in 1..Len(fila)
    BY <1>2 DEF TypeOK
  <2>2. fila[1] \in 0..NumChunks
    BY <2>1, ElementOfSeq
  <2>3. QED
    BY <1>2, <2>2, PipelineAssumption DEF Chunks, Fim
<1>4. fila' = <<>> <=> Len(fila) = 1
  <2>1. fila' \in Seq(0..NumChunks)
    BY DEF TypeOK
  <2>2. QED
    BY <1>2, <2>1, EmptySeq
<1>5. NaFila \in 1..Len(fila) /\ NaFila' = NaFila - 1 /\ Corrente = ultimo /\ Corrente' = fila[1]
  <2>1. CASE Len(fila) = 1
    BY <1>1, <1>2, <1>4, <2>1 DEF NaFila, Corrente
  <2>2. CASE Len(fila) # 1
    <3>1. fila'[Len(fila')] = fila[Len(fila)]
      BY <1>2, <2>2
    <3>2. QED
      BY <1>1, <1>2, <1>4, <2>2, <3>1 DEF NaFila, Corrente
  <2>3. QED
    BY <2>1, <2>2
<1>6. Cauda' = Cauda
  <2>1. CASE NaFila = 1
    BY <1>5, <2>1 DEF Cauda
  <2>2. CASE NaFila # 1
    <3>1. fila'[NaFila - 1] = fila[NaFila]
      BY <1>2, <1>5, <2>2
    <3>2. QED
      BY <1>2, <1>5, <2>2, <3>1 DEF Cauda
  <2>3. QED
    BY <2>1, <2>2
<1>7. FimPorUltimo'
  <2>1. ASSUME NEW i \in 1..Len(fila'), fila'[i] = Fim
        PROVE  i = Len(fila') /\ prod.etapa \in FimPosto
    <3>1. i + 1 \in 1..Len(fila) /\ fila[i + 1] = Fim
      BY <1>2, <2>1
    <3>2. i + 1 = Len(fila) /\ prod.etapa \in FimPosto
      BY <3>1 DEF FimPorUltimo
    <3>3. QED
      BY <1>2, <3>2
  <2>2. QED
    BY <1>1, <2>1 DEF FimPorUltimo
<1>8. ProducerCerto' /\ ConsumerCerto'
  BY <1>1, <1>3 DEF ProducerCerto, ConsumerCerto
<1>9. Entregues'
  <2> SUFFICES ASSUME cons.exc = "nenhuma", NEW c \in 1..(prod.prox - 1)
               PROVE  \/ c \in escritos \/ fila[1] = c
                      \/ \E i \in 1..Len(fila') : fila'[i] = c
    BY <1>1 DEF Entregues, NaMao
  <2>1. CASE c \in escritos
    BY <2>1
  <2>2. CASE \E i \in 1..Len(fila) : fila[i] = c
    <3>1. PICK i \in 1..Len(fila) : fila[i] = c
      BY <2>2
    <3>2. CASE i # 1
      <4>1. i - 1 \in 1..Len(fila') /\ fila'[i - 1] = fila[(i - 1) + 1]
        BY <1>2, <3>1, <3>2
      <4>2. QED
        BY <3>1, <4>1
    <3>3. QED
      BY <3>1, <3>2
  <2>3. QED
    BY <1>1, <2>1, <2>2 DEF Entregues, NaMao
<1>10. EmSequencia'
  <2> SUFFICES ASSUME cons.exc = "nenhuma"
               PROVE  /\ Segue(ultimo, fila[1])
                      /\ NaFila - 1 > 0 => Segue(fila[1], fila'[1])
                      /\ \A i \in 1..(NaFila - 2) : Segue(fila'[i], fila'[i + 1])
                      /\ \/ prod.prox = Cauda + 1
                         \/ prod.prox = prod.inicio /\ InicioDaConsulta(Cauda, prod.inicio)
    BY <1>1, <1>5, <1>6 DEF EmSequencia, Segue, InicioDaConsulta
  <2>1. Segue(ultimo, fila[1])
    BY <1>5 DEF EmSequencia
  <2>2. \A i \in 1..(NaFila - 1) : Segue(fila[i], fila[i + 1])
    BY DEF EmSequencia
  <2>3. \A i \in 1..(NaFila - 1) : fila'[i] = fila[i + 1]
    BY <1>2, <1>5
  <2>4. NaFila - 1 > 0 => Segue(fila[1], fila'[1])
    BY <1>5, <2>2, <2>3
  <2>5. ASSUME NEW i \in 1..(NaFila - 2) PROVE Segue(fila'[i], fila'[i + 1])
    <3>1. i + 1 \in 1..(NaFila - 1) /\ i \in 1..(NaFila - 1)
      BY <1>5
    <3>2. Segue(fila[i + 1], fila[(i + 1) + 1]) /\ fila'[i] = fila[i + 1] /\ fila'[i + 1] = fila[(i + 1) + 1]
      BY <2>2, <2>3, <3>1
    <3>3. QED
      BY <3>2
  <2>6. QED
    BY <2>1, <2>4, <2>5 DEF EmSequencia
<1>11. SemRecomeco'
  <2> SUFFICES ASSUME cons.exc = "nenhuma", quedas = 0
               PROVE  /\ escritos = 1..ultimo /\ fila[1] = ultimo + 1
                      /\ \A i \in 1..(NaFila - 1) : fila'[i] = fila[1] + i
                      /\ prod.prox = fila[1] + (NaFila - 1) + 1
    BY <1>1, <1>5 DEF SemRecomeco
  <2>1. ultimo \in Nat /\ NaFila \in Nat
    BY <1>5, CaudaNat
  <2>2. /\ escritos = 1..ultimo /\ prod.prox = ultimo + NaFila + 1
        /\ \A i \in 1..NaFila : fila[i] = ultimo + i
    BY <1>5 DEF SemRecomeco
  <2>3. fila[1] = ultimo + 1
    BY <1>5, <2>2
  <2>4. ASSUME NEW i \in 1..(NaFila - 1) PROVE fila'[i] = fila[1] + i
    <3>1. fila'[i] = fila[i + 1] /\ i + 1 \in 1..NaFila /\ i \in Nat
      BY <1>2, <1>5
    <3>2. QED
      BY <2>1, <2>2, <2>3, <3>1
  <2>5. QED
    BY <2>1, <2>2, <2>3, <2>4
<1>12. DestinoCerto'
  BY <1>1 DEF DestinoCerto
<1>13. QED
  BY <1>7, <1>8, <1>9, <1>10, <1>11, <1>12

(* The consumer writes the chunk in hand. *)
LEMMA GravarBatchPreserva ==
  ASSUME PipelineInv, TypeOK', GravarBatch
  PROVE  PipelineInv'
<1> USE DEF PipelineInv
<1>1. /\ cons.etapa = "processando" /\ cons'.etapa = "registrando"
      /\ cons'.exc = cons.exc /\ cons'.situacao = cons.situacao /\ cons.exc = "nenhuma"
      /\ cons.chunk \in Chunks /\ ultimo' = cons.chunk
      /\ escritos' = escritos \cup {cons.chunk}
      /\ UNCHANGED <<fila, erros, prod, quedas>>
  BY DEF GravarBatch, Gravar, ConsumerEm, MudarConsumer, TypeOK, Consumer, ConsumerCerto
<1>2. Corrente' = Corrente /\ NaFila' = NaFila /\ Cauda' = Cauda /\ Corrente = cons.chunk
  BY <1>1 DEF Corrente, NaFila, Cauda
<1>3. FimPorUltimo' /\ ProducerCerto' /\ ConsumerCerto'
  BY <1>1 DEF FimPorUltimo, ProducerCerto, ConsumerCerto
<1>4. Entregues'
  BY <1>1 DEF Entregues, NaMao
<1>5. EmSequencia'
  BY <1>1, <1>2 DEF EmSequencia, Segue, InicioDaConsulta
<1>6. SemRecomeco'
  <2> SUFFICES ASSUME quedas = 0 PROVE escritos' = 1..ultimo'
    BY <1>1, <1>2 DEF SemRecomeco
  <2>1. escritos = 1..ultimo /\ cons.chunk = ultimo + 1 /\ ultimo \in Nat
    BY <1>1, PipelineAssumption DEF SemRecomeco, TypeOK
  <2>2. QED
    BY <1>1, <2>1
<1>7. DestinoCerto'
  <2>1. /\ destino' = [destino EXCEPT ![cons.chunk] = IF FullRefresh THEN @ + 1 ELSE 1]
        /\ FullRefresh /\ ChaveUnica => destino[cons.chunk] = 0
        /\ destino \in [Chunks -> Nat]
    BY DEF GravarBatch, Gravar, TypeOK
  <2>2. ~FullRefresh \/ ChaveUnica => \A c \in escritos' : destino'[c] = 1
    BY <1>1, <2>1 DEF DestinoCerto, TypeOK
  <2>3. ASSUME FullRefresh, Trunca, quedas = 0, NEW c \in Chunks
        PROVE  destino'[c] = IF c \in escritos' THEN 1 ELSE 0
    <3>1. cons.chunk \notin escritos
      BY <1>1, <2>3, PipelineAssumption DEF SemRecomeco, TypeOK
    <3>2. \A d \in Chunks : destino[d] = IF d \in escritos THEN 1 ELSE 0
      BY <1>1, <2>3 DEF DestinoCerto
    <3>3. QED
      BY <1>1, <2>1, <2>3, <3>1, <3>2
  <2>4. QED
    BY <1>1, <2>2, <2>3 DEF DestinoCerto
<1>8. QED
  BY <1>3, <1>4, <1>5, <1>6, <1>7

-------------------------------------------------------------------------------
(* The invariant. *)

(* It holds before the first step: nothing is read, queued or written. *)
LEMMA InitInv == Init => PipelineInv
<1> SUFFICES ASSUME Init PROVE PipelineInv
  OBVIOUS
<1> USE PipelineAssumption
<1>1. TypeOK
  <2>1. fila \in Seq(0..NumChunks) /\ Len(fila) <= Capacidade
    BY DEF Init
  <2>2. 1 \in 1..NumChunks + 1 /\ 0 \in 0..MaxRetry /\ 0 \in 0..NumChunks
    OBVIOUS
  <2>3. prod \in Producer
    BY <2>2 DEF Init, Producer, EtapasProducer
  <2>4. cons \in Consumer
    BY <2>2 DEF Init, Consumer, EtapasConsumer, Excecoes, Situacoes
  <2>5. destino \in [Chunks -> Nat]
    BY DEF Init
  <2>6. QED
    BY <2>1, <2>2, <2>3, <2>4, <2>5 DEF Init, TypeOK
<1>2. FimPorUltimo /\ ProducerCerto /\ ConsumerCerto
  BY DEF Init, FimPorUltimo, ProducerCerto, ConsumerCerto, FimPosto, Chunks
<1>3. Cauda = 0 /\ NaFila = 0 /\ Corrente = 0
  BY DEF Init, Cauda, NaFila, Corrente
<1>4. Entregues /\ EmSequencia /\ SemRecomeco
  BY <1>3 DEF Init, Entregues, NaMao, EmSequencia, SemRecomeco
<1>5. DestinoCerto
  BY DEF Init, DestinoCerto
<1>6. QED
  BY <1>1, <1>2, <1>4, <1>5 DEF PipelineInv

(* Every step keeps it. *)
LEMMA NextInv == PipelineInv /\ [Next]_vars => PipelineInv'
<1> SUFFICES ASSUME PipelineInv, [Next]_vars PROVE PipelineInv'
  OBVIOUS
<1>1. ASSUME Next PROVE TypeOK'
  BY <1>1, ProducerTipos, ConsumerTipos DEF Next, PipelineInv
<1>2. CASE PassoSemMover
  <2>1. TypeOK'
    BY <1>1, <1>2 DEF PassoSemMover, Next, PassoProducer, Ler, Trabalhar, FalharConsumer
  <2>2. FimPorUltimo' /\ ProducerCerto' /\ ConsumerCerto'
    BY <1>2, SemMoverControle DEF PipelineInv
  <2>3. Entregues' /\ EmSequencia' /\ SemRecomeco' /\ DestinoCerto'
    BY <1>2, SaoSemMover, SemMoverPreserva DEF PipelineInv
  <2>4. QED
    BY <2>1, <2>2, <2>3 DEF PipelineInv
<1>3. CASE ProximaConsulta \/ Reconectar \/ Por \/ PorFim
  <2>1. TypeOK'
    BY <1>1, <1>3 DEF Next, PassoProducer, Ler
  <2>2. QED
    BY <1>3, <2>1, ProximaConsultaPreserva, ReconectarPreserva, PorPreserva, PorFimPreserva
<1>4. CASE Iniciar \/ ObterChunk \/ GravarBatch
  <2>1. TypeOK'
    BY <1>1, <1>4 DEF Next, Trabalhar
  <2>2. QED
    BY <1>4, <2>1, IniciarPreserva, ObterFimPreserva, ObterChunkPreserva, GravarBatchPreserva
<1>5. CASE UNCHANGED vars
  BY <1>5
  DEF vars, PipelineInv, TypeOK, FimPorUltimo, ProducerCerto, ConsumerCerto, Entregues, NaMao,
      EmSequencia, SemRecomeco, DestinoCerto, Corrente, NaFila, Cauda, Segue, InicioDaConsulta
<1>6. QED
  BY <1>2, <1>3, <1>4, <1>5
  DEF Next, PassoProducer, Ler, Trabalhar, FalharConsumer, PassoSemMover

(* The invariant holds in every run of a phase. *)
THEOREM InvarianteDoPipeline == Spec => []PipelineInv
<1>1. QED
  BY InitInv, NextInv, PTL DEF Spec

(* Every variable keeps its type: in particular the queue never exceeds
   maxsize and a query never reconnects more than _MAX_RETRY_CONEXAO times. *)
THEOREM TipoDoPipeline == Spec => []TypeOK
<1>1. PipelineInv => TypeOK
  BY DEF PipelineInv
<1>2. QED
  BY <1>1, InvarianteDoPipeline, PTL

-------------------------------------------------------------------------------
(* What a run that concludes has done. *)

(* A consumer past the join, with no exception, has written everything. *)
LEMMA NadaPendente ==
  ASSUME PipelineInv, cons.exc = "nenhuma", cons.etapa \in {"auditando", "fim"}
  PROVE  escritos = Chunks /\ ~erros /\ ultimo = NumChunks
<1> USE DEF PipelineInv
<1>1. fila = <<>> /\ prod.etapa \in FimPosto /\ ~erros
  BY DEF ConsumerCerto
<1>2. prod.prox = NumChunks + 1
  BY <1>1 DEF ProducerCerto
<1>3. escritos = Chunks
  <2>1. \A c \in Chunks : c \in 1..(prod.prox - 1)
    BY <1>2, PipelineAssumption DEF Chunks
  <2>2. \A c \in 1..(prod.prox - 1) : c \in escritos
    BY <1>1 DEF Entregues, NaMao
  <2>3. QED
    BY <2>1, <2>2 DEF TypeOK
<1>4. Cauda = ultimo
  BY <1>1 DEF Cauda, NaFila, Corrente
<1>5. ultimo = NumChunks
  <2>1. ultimo \in Nat /\ NumChunks \in Nat
    BY PipelineAssumption DEF TypeOK
  <2>2. CASE prod.prox = ultimo + 1
    BY <1>2, <2>1, <2>2
  <2>3. CASE prod.prox = prod.inicio /\ InicioDaConsulta(ultimo, prod.inicio)
    BY <1>2, <2>1, <2>3, PipelineAssumption DEF InicioDaConsulta, Chunks
  <2>4. QED
    BY <1>4, <2>2, <2>3 DEF EmSequencia
<1>6. QED
  BY <1>1, <1>3, <1>5

(* A phase that concludes has written the whole source, with no error. *)
THEOREM ConclusaoCompleta == Spec => []FaseCompleta
<1>1. PipelineInv => FaseCompleta
  BY NadaPendente DEF PipelineInv, ConsumerCerto, FaseCompleta, Concluida, TypeOK, Consumer,
                      Situacoes
<1>2. QED
  BY <1>1, InvarianteDoPipeline, PTL

(* Its last write is the last chunk of the source. *)
THEOREM ConclusaoNoFim == Spec => []FimDaOrigem
<1>1. PipelineInv => FimDaOrigem
  BY NadaPendente DEF PipelineInv, ConsumerCerto, FimDaOrigem, Concluida, TypeOK, Consumer,
                      Situacoes
<1>2. QED
  BY <1>1, InvarianteDoPipeline, PTL

(* The destination holds each chunk exactly once, where that is promised. *)
THEOREM DestinoSeguro == Spec => []DestinoExato
<1>1. PipelineInv => DestinoExato
  <2> SUFFICES ASSUME PipelineInv, Concluida,
                      FullRefresh /\ ~ChaveUnica => Trunca /\ quedas = 0
               PROVE  \A c \in Chunks : destino[c] = 1
    BY DEF DestinoExato
  <2>1. cons.exc = "nenhuma" /\ cons.etapa = "fim"
    BY DEF PipelineInv, ConsumerCerto, Concluida
  <2>2. escritos = Chunks
    BY <2>1, NadaPendente
  <2>3. QED
    BY <2>1, <2>2, PipelineAssumption DEF PipelineInv, DestinoCerto
<1>2. QED
  BY <1>1, InvarianteDoPipeline, PTL

(* The chunks are written in the order of the source. *)
THEOREM EscritaEmOrdem == Spec => EmOrdem
<1>1. PipelineInv /\ [Next]_vars => [ultimo' # ultimo => Segue(ultimo, ultimo')]_vars
  <2> SUFFICES ASSUME PipelineInv, Next, ultimo' # ultimo PROVE Segue(ultimo, ultimo')
    BY DEF vars
  <2>1. GravarBatch
    BY DEF Next, PassoProducer, Ler, LerChunk, ProximaConsulta, EsgotarOrigem, Reconectar,
           FalharLeitura, AnotarErro, Por, PorFim, Encerrar, Trabalhar, Iniciar, Preparar,
           ObterChunk, EsgotarEspera, ConferirErros, ConferirVida, RegistrarProgresso,
           Finalizar, Auditar, FalharConsumer, FalharInicio, FalharNoLoop, FalharNoFim
  <2>2. cons.etapa = "processando" /\ ultimo' = cons.chunk
    BY <2>1 DEF GravarBatch, Gravar, ConsumerEm
  <2>3. Segue(ultimo, cons.chunk)
    BY <2>2 DEF PipelineInv, ConsumerCerto, EmSequencia
  <2>4. QED
    BY <2>2, <2>3
<1>2. QED
  BY <1>1, InvarianteDoPipeline, PTL DEF Spec, EmOrdem

-------------------------------------------------------------------------------
(* The pipeline implements the contract of a phase. *)

(* A step of the pipeline writes a chunk, ends the phase, or is invisible. *)
LEMMA PassoDaFase == PipelineInv /\ [Next]_vars => [Fase!Next]_Fase!varsFase
<1> SUFFICES ASSUME PipelineInv, Next PROVE [Fase!Next]_Fase!varsFase
  BY DEF vars, Fase!varsFase
<1> USE DEF PipelineInv, TypeOK
<1>1. CASE PassoProducer
  BY <1>1 DEF PassoProducer, Ler, LerChunk, ProximaConsulta, EsgotarOrigem, Reconectar,
     FalharLeitura, AnotarErro, Por, PorFim, Encerrar, Fase!varsFase
<1>2. CASE GravarBatch
  <2>1. cons.chunk \in Chunks /\ cons.situacao = "executando" /\ cons'.situacao = cons.situacao
    BY <1>2 DEF GravarBatch, ConsumerEm, MudarConsumer, ConsumerCerto, Consumer
  <2>2. QED
    BY <1>2, <2>1 DEF GravarBatch, Gravar, Fase!Next, Fase!Escrever
<1>3. CASE Auditar
  <2>1. cons.situacao = "executando" /\ escritos = Chunks
    BY <1>3, NadaPendente DEF Auditar, ConsumerEm, ConsumerCerto
  <2>2. cons'.situacao = "concluida" /\ UNCHANGED escritos
    BY <1>3 DEF Auditar, Sair, Consumer
  <2>3. QED
    BY <2>1, <2>2 DEF Fase!Next, Fase!Terminar, Fase!Concluir
<1>4. CASE FalharInicio \/ FalharNoFim
  <2>1. cons.situacao = "executando" /\ cons'.situacao = "falhou" /\ UNCHANGED escritos
    BY <1>4 DEF FalharInicio, FalharNoFim, Sair, Consumer, ConsumerCerto
  <2>2. QED
    BY <2>1 DEF Fase!Next, Fase!Terminar, Fase!Falhar
<1>5. CASE Finalizar
  <2>1. cons.situacao = "executando" /\ UNCHANGED escritos
        /\ (cons'.situacao = "falhou" \/ cons'.situacao = cons.situacao)
    BY <1>5 DEF Finalizar, ConsumerEm, MudarConsumer, Sair, Consumer, ConsumerCerto
  <2>2. QED
    BY <2>1 DEF Fase!Next, Fase!Terminar, Fase!Falhar, Fase!varsFase
<1>6. CASE Iniciar \/ Preparar \/ ObterChunk \/ EsgotarEspera \/ ConferirErros \/ ConferirVida
           \/ RegistrarProgresso \/ FalharNoLoop
  <2>1. cons'.situacao = cons.situacao /\ UNCHANGED escritos
    BY <1>6 DEF Iniciar, Preparar, ObterChunk, EsgotarEspera, ConferirErros, ConferirVida,
       RegistrarProgresso, FalharNoLoop, MudarConsumer, Levantar, Consumer
  <2>2. QED
    BY <2>1 DEF Fase!varsFase
<1>7. QED
  BY <1>1, <1>2, <1>3, <1>4, <1>5, <1>6 DEF Next, Trabalhar, FalharConsumer

(* _executar_fase does what the loop of phases expects of a phase. *)
THEOREM ImplementaContrato == Spec => Fase!Contrato
<1>1. Init => Fase!Init
  BY DEF Init, Fase!Init
<1>2. QED
  BY <1>1, PassoDaFase, InvarianteDoPipeline, PTL DEF Spec, Fase!Contrato
================================================================================
