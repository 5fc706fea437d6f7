---------------------------- MODULE EtlFasePipeline ----------------------------
(***************************************************************************)
(* One run of BaseEtlService._executar_fase: a producer thread reads the   *)
(* chunks of the source (iter_consulta, which reconnects and reads again)  *)
(* into a bounded queue, and the consumer, the thread that runs the        *)
(* command, takes them out, transforms and writes them.                    *)
(*                                                                         *)
(* A step is what a thread does between two accesses to what the threads   *)
(* share (the queue, the list of errors, is_alive) or to a database.  Time *)
(* is left out: any wait with a timeout may expire when what it waits for  *)
(* has not happened.  A chunk is its place in the source.                  *)
(***************************************************************************)
EXTENDS Integers, Sequences

CONSTANTS
  NumChunks,     \* chunks the source has
  Inicios,       \* chunks that begin a query (_iter_chunks may run several)
  Capacidade,    \* maxsize of the queue: self._max_workers
  MaxRetry,      \* _MAX_RETRY_CONEXAO
  TemTimeout,    \* THREAD_POOL_CHUNK_TIMEOUT > 0
  MaxEsperas,    \* waits that reach PRODUCER_MAX_WAIT_SECONDS; 0: no limit
  FullRefresh,   \* config.modo_escrita = "full_refresh" (else "upsert")
  Trunca,        \* config.truncate_on_full_sync
  ChaveUnica,    \* the destination table has a unique key
  Sobras         \* bound: copies of a chunk left by earlier runs

Chunks == 1..NumChunks

(* A queue holds at least one item, and the first chunk begins a query. *)
ASSUME PipelineAssumption ==
  /\ NumChunks \in Nat /\ MaxRetry \in Nat /\ MaxEsperas \in Nat
  /\ Sobras \in Nat
  /\ Capacidade \in Nat \ {0}
  /\ Inicios \subseteq Chunks
  /\ NumChunks > 0 => 1 \in Inicios
  /\ TemTimeout \in BOOLEAN /\ FullRefresh \in BOOLEAN
  /\ Trunca \in BOOLEAN /\ ChaveUnica \in BOOLEAN

VARIABLES
  fila,       \* the queue
  erros,      \* whether the producer appended an exception to erros
  prod,       \* the producer thread
  cons,       \* the consumer, i.e. the call of _executar_fase
  destino,    \* copies of each chunk's rows in the destination table
  escritos,   \* history: chunks this run wrote
  ultimo,     \* history: the last chunk this run wrote, 0 for none
  quedas      \* history: reconnections

vars == <<fila, erros, prod, cons, destino, escritos, ultimo, quedas>>

Fim == 0   \* the None that ends the queue

EtapasProducer == {"parado", "lendo", "pondo", "errando", "pondo_fim",
                   "terminando", "encerrado"}

EtapasConsumer == {"inicio", "preparando", "esperando", "vazio", "sem_erros",
                   "processando", "registrando", "finalizando", "auditando",
                   "fim"}

Excecoes == {"nenhuma", "sem_sinal", "tempo", "producer", "outra"}

Situacoes == {"executando", "concluida", "falhou"}

(* prox: the next chunk to read, or the one being put; inicio: the first
   chunk of the query being read; tentativa: its lost connections.         *)
Producer == [etapa : EtapasProducer, prox : 1..NumChunks + 1,
             inicio : 1..NumChunks + 1, tentativa : 0..MaxRetry]

(* chunk: the batch in hand; esperas: expired waits of _get_next_chunk;
   exc: what the run is raising; situacao: how the call ended.             *)
Consumer == [etapa : EtapasConsumer, chunk : 0..NumChunks, esperas : Nat,
             exc : Excecoes, situacao : Situacoes]

TypeOK ==
  /\ fila \in Seq(0..NumChunks) /\ Len(fila) <= Capacidade
  /\ erros \in BOOLEAN
  /\ prod \in Producer
  /\ cons \in Consumer
  /\ destino \in [Chunks -> Nat]
  /\ escritos \subseteq Chunks
  /\ ultimo \in 0..NumChunks
  /\ quedas \in Nat

Init ==
  /\ fila = <<>>
  /\ erros = FALSE
  /\ prod = [etapa |-> "parado", prox |-> 1, inicio |-> 1, tentativa |-> 0]
  /\ cons = [etapa |-> "inicio", chunk |-> 0, esperas |-> 0,
             exc |-> "nenhuma", situacao |-> "executando"]
  /\ destino \in [Chunks -> 0..Sobras]
  /\ escritos = {} /\ ultimo = 0 /\ quedas = 0

-------------------------------------------------------------------------------
(* The producer thread. *)

ProducerEm(etapa) == prod.etapa = etapa

MudarProducer(etapa) == prod' = [prod EXCEPT !.etapa = etapa]

(* fetchmany returns a chunk; iter_consulta yields it. *)
LerChunk ==
  /\ ProducerEm("lendo")
  /\ prod.prox <= NumChunks
  /\ prod.prox \in Inicios => prod.inicio = prod.prox
  /\ MudarProducer("pondo")
  /\ UNCHANGED <<fila, erros, cons, destino, escritos, ultimo, quedas>>

(* A query ends and _iter_chunks runs the next one, with new attempts. *)
ProximaConsulta ==
  /\ ProducerEm("lendo")
  /\ prod.prox \in Inicios /\ prod.inicio # prod.prox
  /\ prod' = [prod EXCEPT !.inicio = prod.prox, !.tentativa = 0]
  /\ UNCHANGED <<fila, erros, cons, destino, escritos, ultimo, quedas>>

(* The last query ends. *)
EsgotarOrigem ==
  /\ ProducerEm("lendo")
  /\ prod.prox > NumChunks
  /\ MudarProducer("pondo_fim")
  /\ UNCHANGED <<fila, erros, cons, destino, escritos, ultimo, quedas>>

(* Mutant: one attempt too many.                                            *)
ReconectarUmaAMais ==
  /\ ProducerEm("lendo")
  /\ prod.tentativa <= MaxRetry
  /\ prod' = [prod EXCEPT !.prox = prod.inicio, !.tentativa = @ + 1]
  /\ quedas' = quedas + 1
  /\ UNCHANGED <<fila, erros, cons, destino, escritos, ultimo>>

(* The connection is lost: iter_consulta reconnects and the query starts
   again, until its attempts are spent.                                    *)
Reconectar ==
  /\ ProducerEm("lendo")
  /\ prod.tentativa < MaxRetry
  /\ prod' = [prod EXCEPT !.prox = prod.inicio, !.tentativa = @ + 1]
  /\ quedas' = quedas + 1
  /\ UNCHANGED <<fila, erros, cons, destino, escritos, ultimo>>

(* Any other error, or a connection lost once too often. *)
FalharLeitura ==
  /\ ProducerEm("lendo")
  /\ MudarProducer("errando")
  /\ UNCHANGED <<fila, erros, cons, destino, escritos, ultimo, quedas>>

(* Mutant: the failed read ends the queue without reporting the error.      *)
EngolirErro ==
  /\ ProducerEm("errando")
  /\ MudarProducer("pondo_fim")
  /\ UNCHANGED <<fila, erros, cons, destino, escritos, ultimo, quedas>>

(* Mutant: the None is put only when the source was read to its end.        *)
AnotarErroSemFim ==
  /\ ProducerEm("errando")
  /\ erros' = TRUE
  /\ MudarProducer("terminando")
  /\ UNCHANGED <<fila, cons, destino, escritos, ultimo, quedas>>

(* erros.append(e) *)
AnotarErro ==
  /\ ProducerEm("errando")
  /\ erros' = TRUE
  /\ MudarProducer("pondo_fim")
  /\ UNCHANGED <<fila, cons, destino, escritos, ultimo, quedas>>

(* Mutant: a stack instead of a queue.                                      *)
PorNaFrente ==
  /\ ProducerEm("pondo")
  /\ Len(fila) < Capacidade
  /\ fila' = <<prod.prox>> \o fila
  /\ prod' = [prod EXCEPT !.etapa = "lendo", !.prox = @ + 1]
  /\ UNCHANGED <<erros, cons, destino, escritos, ultimo, quedas>>

(* queue.put(chunk): waits while the queue is full. *)
Por ==
  /\ ProducerEm("pondo")
  /\ Len(fila) < Capacidade
  /\ fila' = Append(fila, prod.prox)
  /\ prod' = [prod EXCEPT !.etapa = "lendo", !.prox = @ + 1]
  /\ UNCHANGED <<erros, cons, destino, escritos, ultimo, quedas>>

(* queue.put(None) *)
PorFim ==
  /\ ProducerEm("pondo_fim")
  /\ Len(fila) < Capacidade
  /\ fila' = Append(fila, Fim)
  /\ MudarProducer("terminando")
  /\ UNCHANGED <<erros, cons, destino, escritos, ultimo, quedas>>

(* The thread is no longer alive. *)
Encerrar ==
  /\ ProducerEm("terminando")
  /\ MudarProducer("encerrado")
  /\ UNCHANGED <<fila, erros, cons, destino, escritos, ultimo, quedas>>

Ler == LerChunk \/ ProximaConsulta \/ EsgotarOrigem \/ Reconectar \/ FalharLeitura

PassoProducer == Ler \/ AnotarErro \/ Por \/ PorFim \/ Encerrar

-------------------------------------------------------------------------------
(* The consumer. *)

ConsumerEm(etapa) == cons.etapa = etapa

MudarConsumer(etapa) == cons' = [cons EXCEPT !.etapa = etapa]

(* An exception leaves the loop for the finally that joins the producer. *)
Levantar(e) == cons' = [cons EXCEPT !.etapa = "finalizando", !.exc = e]

(* The call returns or raises. *)
Sair(situacao, e) ==
  cons' = [cons EXCEPT !.etapa = "fim", !.situacao = situacao, !.exc = e]

(* Mutant: the table keeps what earlier runs left in it.                    *)
IniciarSemTruncar ==
  /\ ConsumerEm("inicio")
  /\ MudarConsumer("preparando")
  /\ prod' = [prod EXCEPT !.etapa = "lendo"]
  /\ UNCHANGED <<fila, erros, destino, escritos, ultimo, quedas>>

(* TRUNCATE if the phase asks for it, then _iniciar_producer. *)
Iniciar ==
  /\ ConsumerEm("inicio")
  /\ MudarConsumer("preparando")
  /\ prod' = [prod EXCEPT !.etapa = "lendo"]
  /\ destino' = IF FullRefresh /\ Trunca THEN [c \in Chunks |-> 0] ELSE destino
  /\ UNCHANGED <<fila, erros, escritos, ultimo, quedas>>

(* The truncation or the first progress record fails, with no thread yet; or
   _criar_transform, outside the try: nobody joins the thread.             *)
FalharInicio ==
  /\ cons.etapa \in {"inicio", "preparando"}
  /\ Sair("falhou", "outra")
  /\ UNCHANGED <<fila, erros, prod, destino, escritos, ultimo, quedas>>

(* _criar_transform, which may query lookups, and the pool of threads. *)
Preparar ==
  /\ ConsumerEm("preparando")
  /\ MudarConsumer("esperando")
  /\ UNCHANGED <<fila, erros, prod, destino, escritos, ultimo, quedas>>

(* queue.get returns: a chunk to process, or None, which ends the loop. *)
ObterChunk ==
  /\ ConsumerEm("esperando")
  /\ fila # <<>>
  /\ fila' = Tail(fila)
  /\ \/ Head(fila) = Fim /\ MudarConsumer("finalizando")
     \/ /\ Head(fila) # Fim
        /\ cons' = [cons EXCEPT !.etapa = "processando", !.chunk = Head(fila)]
  /\ UNCHANGED <<erros, prod, destino, escritos, ultimo, quedas>>

(* queue.get raises Empty. *)
EsgotarEspera ==
  /\ ConsumerEm("esperando")
  /\ TemTimeout
  /\ fila = <<>>
  /\ MudarConsumer("vazio")
  /\ UNCHANGED <<fila, erros, prod, destino, escritos, ultimo, quedas>>

(* _validar_estado_producer: first the list of errors... *)
ConferirErros ==
  /\ ConsumerEm("vazio")
  /\ \/ erros /\ Levantar("producer")
     \/ ~erros /\ MudarConsumer("sem_erros")
  /\ UNCHANGED <<fila, erros, prod, destino, escritos, ultimo, quedas>>

Esperou == MaxEsperas > 0 /\ cons.esperas + 1 >= MaxEsperas

(* Mutant: the waiting time starts again after each wait.                   *)
ConferirVidaSemSomar ==
  /\ ConsumerEm("sem_erros")
  /\ \/ ProducerEm("encerrado") /\ Levantar("sem_sinal")
     \/ ~ProducerEm("encerrado") /\ MudarConsumer("esperando")
  /\ UNCHANGED <<fila, erros, prod, destino, escritos, ultimo, quedas>>

(* ... then whether the thread is alive; then the time waited so far. *)
ConferirVida ==
  /\ ConsumerEm("sem_erros")
  /\ \/ ProducerEm("encerrado") /\ Levantar("sem_sinal")
     \/ ~ProducerEm("encerrado") /\ Esperou /\ Levantar("tempo")
     \/ /\ ~ProducerEm("encerrado") /\ ~Esperou
        /\ cons' = [cons EXCEPT !.etapa = "esperando", !.esperas = @ + 1]
  /\ UNCHANGED <<fila, erros, prod, destino, escritos, ultimo, quedas>>

(* Mutant: an upsert without update_conflicts.                              *)
GravarInserindo(c) ==
  /\ destino' = [destino EXCEPT ![c] = @ + 1]
  /\ escritos' = escritos \cup {c}
  /\ ultimo' = c

(* _persistir: an upsert replaces the rows; a full_refresh inserts them, and
   a unique key refuses those that are there already.                      *)
Gravar(c) ==
  /\ FullRefresh /\ ChaveUnica => destino[c] = 0
  /\ destino' = [destino EXCEPT ![c] = IF FullRefresh THEN @ + 1 ELSE 1]
  /\ escritos' = escritos \cup {c}
  /\ ultimo' = c

(* _processar_batch returns. *)
GravarBatch ==
  /\ ConsumerEm("processando")
  /\ Gravar(cons.chunk)
  /\ MudarConsumer("registrando")
  /\ UNCHANGED <<fila, erros, prod, quedas>>

(* The metrics, the partial checkpoint and the progress record; the next
   _get_next_chunk counts its own waits.                                   *)
RegistrarProgresso ==
  /\ ConsumerEm("registrando")
  /\ cons' = [cons EXCEPT !.etapa = "esperando", !.chunk = 0, !.esperas = 0]
  /\ UNCHANGED <<fila, erros, prod, destino, escritos, ultimo, quedas>>

(* The transformation, the database or Ctrl+C, anywhere in the loop. *)
FalharNoLoop ==
  /\ cons.etapa \in {"esperando", "vazio", "sem_erros", "processando", "registrando"}
  /\ Levantar("outra")
  /\ UNCHANGED <<fila, erros, prod, destino, escritos, ultimo, quedas>>

(* Mutant: the errors of the producer are not raised after the join.        *)
FinalizarSemErros ==
  /\ ConsumerEm("finalizando")
  /\ \/ cons.exc # "nenhuma" /\ Sair("falhou", cons.exc)
     \/ cons.exc = "nenhuma" /\ MudarConsumer("auditando")
  /\ UNCHANGED <<fila, erros, prod, destino, escritos, ultimo, quedas>>

(* _finalizar_threads: join, for 30 seconds at most, then erros[0]. *)
Finalizar ==
  /\ ConsumerEm("finalizando")
  /\ \/ cons.exc # "nenhuma" /\ Sair("falhou", cons.exc)
     \/ cons.exc = "nenhuma" /\ erros /\ Sair("falhou", "producer")
     \/ cons.exc = "nenhuma" /\ ~erros /\ MudarConsumer("auditando")
  /\ UNCHANGED <<fila, erros, prod, destino, escritos, ultimo, quedas>>

(* _registrar_auditoria_fase, and the metrics are returned. *)
Auditar ==
  /\ ConsumerEm("auditando")
  /\ Sair("concluida", "nenhuma")
  /\ UNCHANGED <<fila, erros, prod, destino, escritos, ultimo, quedas>>

(* The audit database or Ctrl+C after the loop. *)
FalharNoFim ==
  /\ cons.etapa \in {"finalizando", "auditando"}
  /\ Sair("falhou", "outra")
  /\ UNCHANGED <<fila, erros, prod, destino, escritos, ultimo, quedas>>

Trabalhar ==
  \/ Iniciar \/ Preparar \/ ObterChunk \/ EsgotarEspera \/ ConferirErros
  \/ ConferirVida \/ GravarBatch \/ RegistrarProgresso \/ Finalizar \/ Auditar

(* A batch the destination refuses is a failed batch, never a lost one. *)
FalharConsumer == FalharInicio \/ FalharNoLoop \/ FalharNoFim

Next == PassoProducer \/ Trabalhar \/ FalharConsumer

Spec == Init /\ [][Next]_vars

(* The consumer keeps going: its waits expire and its databases answer, with
   a result or with a refusal.  Nothing is assumed of the source.          *)
Recusar == ConsumerEm("processando") /\ FalharNoLoop

Justica == WF_vars(Trabalhar) /\ WF_vars(Recusar)

FairSpec == Spec /\ Justica

(* The same, when the source answers too. *)
FairSpecOrigem == FairSpec /\ WF_vars(PassoProducer)
================================================================================
