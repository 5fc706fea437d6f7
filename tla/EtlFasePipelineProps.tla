------------------------- MODULE EtlFasePipelineProps --------------------------
(* What a run of a phase must guarantee, and what the repository says of it. *)
EXTENDS EtlFasePipeline

Concluida == cons.situacao = "concluida"

(* _executar_fase returns only after every chunk of the source was written,
   whatever timeouts, reconnections and lost races there were, and never
   when the producer recorded an error.                                    *)
FaseCompleta == Concluida => escritos = Chunks /\ ~erros

(* Each chunk ends exactly once in the destination table, leftovers of
   earlier runs and chunks delivered twice notwithstanding: an upsert
   replaces, a unique key refuses, and a truncated table with no
   reconnection gets each chunk once.                                      *)
DestinoExato ==
  Concluida /\ (FullRefresh /\ ~ChaveUnica => Trunca /\ quedas = 0)
    => \A c \in Chunks : destino[c] = 1

(* The query that reads chunk a begins at chunk b. *)
InicioDaConsulta(a, b) ==
  b \in Inicios /\ b <= a /\ \A i \in Inicios : i <= b \/ a < i

Segue(a, b) == b = a + 1 \/ InicioDaConsulta(a, b)

(* The consumer writes the chunks in the order of the source, so that of two
   rows with one key the later wins; the only way back is to the beginning
   of a query that is read again.                                          *)
EmOrdem == [][ultimo' # ultimo => Segue(ultimo, ultimo')]_vars

(* A phase that concludes has the last chunk of the source as its last
   write, even when chunks were written twice.                             *)
FimDaOrigem == Concluida => ultimo = NumChunks

(* The call of _executar_fase ends: in a result or in an exception. *)
FaseTermina == <>(cons.situacao # "executando")

(* The pipeline implements the phase that the loop of phases relies on. *)
Fase == INSTANCE EtlFase WITH situacao <- cons.situacao

ImplementaFase == Fase!Spec

-------------------------------------------------------------------------------
(* The inductive invariant. *)

FimPosto == {"terminando", "encerrado"}

(* The None is the last thing the producer puts. *)
FimPorUltimo ==
  \A i \in 1..Len(fila) : fila[i] = Fim => i = Len(fila) /\ prod.etapa \in FimPosto

(* The producer stops reading at the end of the source or after an error. *)
ProducerCerto ==
  /\ prod.etapa = "parado" => prod.prox = 1 /\ prod.inicio = 1 /\ fila = <<>>
  /\ prod.etapa = "pondo" => prod.prox \in Chunks
                             /\ (prod.prox \in Inicios => prod.inicio = prod.prox)
  /\ prod.etapa \in {"pondo_fim"} \cup FimPosto => erros \/ prod.prox = NumChunks + 1
  /\ erros => prod.etapa \in {"pondo_fim"} \cup FimPosto
  /\ prod.inicio <= prod.prox
  /\ prod.inicio \in Inicios \cup {1}
  /\ \A i \in Inicios : i <= prod.inicio \/ prod.prox <= i

(* The consumer's steps agree with what it is raising and how it ended. *)
ConsumerCerto ==
  /\ cons.etapa = "inicio" <=> prod.etapa = "parado" /\ cons.situacao = "executando"
  /\ cons.etapa = "fim" <=> cons.situacao # "executando"
  /\ cons.etapa = "processando" => cons.chunk \in Chunks
  /\ cons.etapa \notin {"finalizando", "fim"} => cons.exc = "nenhuma"
  /\ cons.situacao = "concluida" => cons.exc = "nenhuma"
  /\ cons.exc = "nenhuma" /\ cons.etapa \in {"finalizando", "auditando", "fim"}
       => fila = <<>> /\ prod.etapa \in FimPosto
  /\ cons.exc = "nenhuma" /\ cons.etapa \in {"auditando", "fim"} => ~erros

NaMao(c) == cons.etapa = "processando" /\ cons.chunk = c

(* What the producer delivered is written, queued or in hand, unless the
   consumer has failed.                                                    *)
Entregues ==
  cons.exc = "nenhuma" =>
    \A c \in 1..(prod.prox - 1) :
       c \in escritos \/ (\E i \in 1..Len(fila) : fila[i] = c) \/ NaMao(c)

(* The chunk the consumer has, or had last. *)
Corrente == IF cons.etapa = "processando" THEN cons.chunk ELSE ultimo

NaFila == IF fila # <<>> /\ fila[Len(fila)] = Fim THEN Len(fila) - 1 ELSE Len(fila)

(* The last chunk put so far. *)
Cauda == IF NaFila = 0 THEN Corrente ELSE fila[NaFila]

(* From the last write to the next read, each chunk follows the one before. *)
EmSequencia ==
  cons.exc = "nenhuma" =>
    /\ cons.etapa = "processando" => Segue(ultimo, cons.chunk)
    /\ NaFila > 0 => Segue(Corrente, fila[1])
    /\ \A i \in 1..(NaFila - 1) : Segue(fila[i], fila[i + 1])
    /\ \/ prod.prox = Cauda + 1
       \/ prod.prox = prod.inicio /\ InicioDaConsulta(Cauda, prod.inicio)

(* With no reconnection each chunk is the successor of the one before. *)
SemRecomeco ==
  cons.exc = "nenhuma" /\ quedas = 0 =>
    /\ escritos = 1..ultimo
    /\ cons.etapa = "processando" => cons.chunk = ultimo + 1
    /\ \A i \in 1..NaFila : fila[i] = Corrente + i
    /\ prod.prox = Corrente + NaFila + 1

(* What the table holds of the chunks written and of the others. *)
DestinoCerto ==
  /\ ~FullRefresh \/ ChaveUnica => \A c \in escritos : destino[c] = 1
  /\ FullRefresh /\ Trunca /\ cons.exc = "nenhuma" /\ quedas = 0 /\ cons.etapa # "inicio" =>
       \A c \in Chunks : destino[c] = IF c \in escritos THEN 1 ELSE 0
  /\ cons.etapa = "inicio" => escritos = {}

PipelineInv ==
  /\ TypeOK /\ FimPorUltimo /\ ProducerCerto /\ ConsumerCerto
  /\ Entregues /\ EmSequencia /\ SemRecomeco /\ DestinoCerto

-------------------------------------------------------------------------------
(* Statements of the repository that the code does not meet. *)

(* "Producer thread finished without signaling completion": the exception
   _validar_estado_producer raises means that the thread put no None.      *)
SinalRespeitado ==
  cons.exc = "sem_sinal" => \A i \in 1..Len(fila) : fila[i] # Fim

(* "como a escrita no destino e idempotente (upsert), nao ha duplicacao de
   dados": reading again after a lost connection duplicates nothing.       *)
SemDuplicacao == Concluida => \A c \in Chunks : destino[c] <= 1

(* "Garante limpeza da thread quando producer fica preso em I/O": once the
   call has timed out and the I/O returns, the thread ends.                *)
ThreadEncerra ==
  cons.etapa = "fim" /\ cons.exc = "tempo" ~> prod.etapa = "encerrado"
================================================================================
