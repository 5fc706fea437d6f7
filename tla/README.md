# Verification of the EOL ETL (SME-IntegracaoEOL-MS-ETL)

TLA+ models, TLC runs and TLAPS proofs about the ETL that copies the EOL
SQL Server databases into the domain Postgres databases (alunos,
institucional, pedagogico, professores, programas), driven by Celery tasks,
management commands and an HTTP API, and tracked in an audit database.
Paths below are relative to the root of the repository.

## 1. Inventory

| Part | State it keeps | Operations |
|---|---|---|
| Execution control: `BaseEtlCommand`, `RepositorioAuditoriaPostgres` | rows of `etl_execucao` (situation, parameters), one row of `etl_checkpoint_dominio` per domain (last execution, page, situation) | choose the starting phase, register, write checkpoints, finish with success, error or interruption |
| Phase loop: `BaseEtlService.executar` | `fase_atual`, `ultima_fase_concluida`, `ultimo_token` in memory | run the selected phases in order; checkpoint every `EOL_CHUNK_SIZE` rows and at the end of each phase |
| Phase pipeline: `_executar_fase`, `ReadOnlySQLServerConnectionFactory`, `ThreadPoolProcessor` | a bounded queue, a producer thread, an error list | read chunks (reconnecting), transform in a thread pool, write batches, time out |
| Incremental write: `PostgresUpsertEngine` | destination tables (domain database), hashes (`etl_auditoria_linha`, audit database) | skip rows whose hash is unchanged, upsert or insert, then save the hashes; truncate |
| Celery dispatch: `executar_dominio_task`, `agendar_dominio` | tasks in the KeyDB broker | publish, take (early acknowledgement), run, retry with `continuar=True` |
| Recovery and cancellation API: `api/views.py`, `recuperar_etl.sh`, `cancelar_execucoes` | none of its own | `limpar-orfas`, `retomar`, `reprocessar-erros`, cancel |
| Celery chords: `apps/core/tasks.py`, `base_etl_orquestrador.py`, `base_etl_fase.py`, the domains' orchestrators | chord results in the broker, the domain's checkpoint | publish the chunks of a phase, process them in parallel, finish the phase, launch the next |
| Professores ETL: `etl_professores.py`, `services.py` | checkpoint index `tabela:lote`, 21 destination tables | four macro phases of 21 tables, each emptied, replaced by year or upserted; resume by table and chunk |
| Território do Saber: phases of `etl_pedagogico_service.py`, `agrupamentos.py` | assignments, groups with their codes, items | write the assignments of the years, copy the official groups, generate groups and reuse their codes |
| Domain services: alunos, institucional, pedagogico, programas | the destination tables; caches of the run (school years, SSO integration codes in KeyDB) | 39 phases, each a query, a transformation, a table and a mode of writing |
| Dashboards, read-only endpoints, health checks, compatibility checks, admin | none | queries only |

How they interact. The API, `agendar_dominio` and the recovery publish
`executar_dominio_task`; a worker process (concurrency 1) takes the task and
calls the domain's command in the same process; a terminal may run the same
command by hand. The command reads the domain's checkpoint, registers an
execution, runs the phases and writes the checkpoint and the execution. Cron
calls `scripts/recuperar_etl.sh` every 30 minutes: `limpar-orfas` compares
the executions still `em_execucao` with what Celery reports and interrupts
the others, `retomar` publishes the continuation of the last execution when
it is interrupted. All of them share the two audit tables and no lock.

What is hard: processes killed between two writes; a task lost because it was
acknowledged when taken; the clean-up working on rows it read before asking
Celery; two runs of one domain writing one checkpoint; a retry and a recovery
of the same execution; the meaning of the checkpoint page, which depends on
its situation; two databases written in turn; a producer thread and a
consumer joined by a bounded queue and timeouts; the resume of professores,
which maps a table to a phase.

What makes each part correct:

- control: a checkpoint never promises a phase that was not synchronised; an
  execution reported `concluido` is complete; an execution gives one verdict,
  ends, and is resumed when it was interrupted;
- pipeline: every chunk of the source is written, in order, or the phase
  fails; nobody waits for ever;
- incremental write: a stored hash is never newer than the destination row;
- professores: a resumed run executes every table from the one interrupted
  and loses nothing of it but what section 2 lists; a table is not loaded twice
  over;
- Território do Saber: in the table of the groups a generated code means one
  group, and a group the table knows keeps its code, whatever was interrupted;
- chords: a phase is launched after all the chunks of the phases before it,
  and the chain ends;
- domain services: no phase undoes what another did, and runs bring each table
  to its source.

`PROJECT.json` lists the hazards with their source lines.

## 2. Modules

| Module | Models |
|---|---|
| `EtlControle` | execution control, phase loop, Celery tasks, recovery and cancellation of one domain |
| `EtlControleProps` | its type invariant, properties, the inductive invariant, and three statements of the repository's documents that the code does not meet |
| `MCEtlControle` | values of the constants for TLC |
| `EtlControleProofs`, `EtlControlePassos` | the TLAPS proofs: of its states, and of its steps |
| `EtlPedido` | what the executions of a domain promise to whoever asked for them (abstract) |
| `EtlFase` | what a phase promises to the phase loop (abstract) |
| `EtlFasePipeline` | `_executar_fase`: producer thread, queue, consumer |
| `EtlFasePipelineProps` | its properties, the refinement of `EtlFase`, the inductive invariant, three statements of the repository that the code does not meet |
| `EtlFasePipelineProofs` | the TLAPS proofs |
| `EtlLote`, `EtlLoteProps`, `EtlLoteProofs` | the incremental write of one table: hashes and rows in two databases |
| `EtlCatalogo` | the 39 phases of alunos, institucional, pedagogico and programas: query, DTO, model, mode of writing |
| `EtlDominios`, `EtlDominiosProps`, `EtlDominiosProofs`, `MCEtlDominios` | executions of those phases over the tables of a domain |
| `EtlCatalogoProfessores` | the 21 tables of professores, in the same terms |
| `EtlProfessores`, `EtlProfessoresProps`, `EtlProfessoresProofs`, `MCEtlProfessores` | `etl_professores` and `EtlProfessoresService.executar`: phases, tables, chunks, checkpoint, resume |
| `EtlTerritorio`, `EtlTerritorioProps`, `EtlTerritorioProofs`, `MCEtlTerritorio` | the phases of pedagogico that write by themselves the tables of Território do Saber |
| `EtlChord`, `EtlChordProps`, `MCEtlChord` | an execution with `--celery` |
| `EtlChordProofs` | the TLAPS proofs |

How they fit. The parts meet at the phase: `EtlControle`'s `SincronizarFase` is
a phase that concludes, and `EtlFase` says what that means; `EtlFasePipeline`
implements it (checked and, for its safety, proved). What a batch of the
pipeline does to rows and hashes is `EtlLote`; what the phases of a domain do
to each other's tables is `EtlDominios`, whose data come from `EtlCatalogo`.
`EtlProfessores` and `EtlTerritorio` take the place of the phase where the code
does not use the engine of `BaseEtlService`, and `EtlChord` that of the phase
loop when the command is given `--celery`. Both ways of running a domain,
`EtlControle` and `EtlChord`, implement `EtlPedido` (checked and proved): an
execution serves a request, its own or that of the execution it continues; a
phase done for a request stays done; an execution is reported concluded only
when every phase it answers for was done for its request. The checkpoint, which
is how the code keeps this promise, does not appear there. An `EtlX` module holds the state and
the actions, `EtlXProps` the properties, `MCEtlX` the values of the constants.

### EtlControle

One domain: checkpoint, executions and recovery are keyed by the domain.
A *process* is an operating-system process that can run the command: a Celery
worker child or a terminal. `proc[p]` is its program counter (`etapa`) and the
local variables of `BaseEtlCommand.handle` and `BaseEtlService` (`inicio` is
`fase_inicial`, `atual` is `fase_atual`, `ultima` is
`ultima_fase_concluida`). Every write to the audit database is one step, so
a failure, a Ctrl+C or a kill may come between any two; a step is otherwise as
large as the code between two writes.

| Actions | Code |
|---|---|
| `Disparar`, `RodarNoTerminal`, `ReceberTask` | `ExecutarDominioView.post`, `agendar_dominio`, the terminal command, a worker taking a task; the last two read the checkpoint (`_obter_ponto_partida`) |
| `IniciarExecucao` | `iniciar_execucao` |
| `IniciarFase`, `RegistrarParcial`, `SincronizarFase`, `ConcluirFase` | the loop of `executar`; the checkpoint of a phase in progress; its pipeline; `_registrar_auditoria_fase` |
| `GravarSucesso`, `FinalizarSucesso`, `Retornar` | the two writes of `_finalizar_com_sucesso`; the end of the task |
| `Falhar`, `GravarErro`, `FinalizarErro`, `Reagendar`, `FalharForaDoTry` | an exception inside `_handle_sync`'s `try`, the two writes of `_finalizar_com_erro`, `self.retry`; an exception anywhere else |
| `Interromper`, `GravarInterrupcao`, `FinalizarInterrupcao` | Ctrl+C and the two writes of `_finalizar_com_interrupcao` |
| `Morrer` | the process is killed |
| `LerOrfas` ... `ResponderLimpeza` | `LimparOrfasView.post`, its query, its question to Celery, its loop |
| `RetomarInterrompidas`, `ReprocessarErros` | the two recovery endpoints (`_agendar_retomada_execucoes`) |
| `LerCancelamento`, `SalvarCancelamento`, `CancelarExecucoes` | `DELETE execucoes/<id>/` and the command |

History variables. `sinc[f]` is the last execution that synchronised phase `f`
completely. A row's `cobre` is the set of phases it answers for: those it was
asked to run from its starting phase on, and those of the checkpoint it
continues that come before. `linhagem` is the oldest execution it continues
from, directly or through others. None of these is read by a guard.

Seen as `EtlPedido`: an execution serves the request of its lineage
(`PedidoDe`) and answers for `cobre` (`EscopoDe`); a phase is done for a
request when it was synchronised by that execution or a later one
(`FeitasPara`), so that `SincronizarFase` does it for every older request at
once.

Left out: time (`finalizado_em`, heartbeats are a nondeterministic choice),
token and index of the checkpoint, read/written/progress rows, messages,
priorities and `executar_em` (any queued task may be taken next), parameter
validation (a refused request changes nothing), `--carga-inicial` and school
years (they do not change the control), and `--celery`, which is the chord
component. A read by the recovery endpoints of one execution and its counter
and the publication that follows are one step: they are milliseconds apart,
while what they race with, the queue, takes minutes.

### EtlFasePipeline

One call of `_executar_fase`. A chunk is its place in the source. The threads
interleave at every access to what they share: the queue, the list `erros`,
`is_alive()`.

| State | Code |
|---|---|
| `fila`, `Fim` | `queue`, the `None` that ends it |
| `erros` | whether `erros` is empty |
| `prod` | the producer thread: where it is, the chunk it reads or puts, where its query began, `tentativa` of `iter_consulta` |
| `cons` | the consumer: where it is, the chunk in hand, expired waits of the current `_get_next_chunk`, the exception it raises, how the call ended |
| `destino` | copies of each chunk's rows in the destination table |
| `escritos`, `ultimo`, `quedas` | history: chunks written, the last one, reconnections; no guard reads them |

| Actions | Code |
|---|---|
| `LerChunk`, `EsgotarOrigem`, `Reconectar`, `FalharLeitura` | `_gerar_lotes` and the retry loop of `iter_consulta` |
| `ProximaConsulta` | the query of the next school year in pedagogico's `_iter_chunks`; each has its own attempts |
| `Por`, `AnotarErro`, `PorFim`, `Encerrar` | the body of `producer` |
| `Iniciar`, `Preparar`, `FalharInicio` | truncation, start of the thread, `_criar_transform`; an error in one of them |
| `ObterChunk`, `EsgotarEspera`, `ConferirErros`, `ConferirVida` | `_get_next_chunk`: the wait, and the three checks after it expires |
| `GravarBatch`, `RegistrarProgresso`, `FalharNoLoop` | `_processar_batch`, the metrics and checkpoint; any exception of the loop |
| `Finalizar`, `Auditar`, `FalharNoFim` | `_finalizar_threads`, `_registrar_auditoria_fase`, an error there |

Constants. `Inicios` are the chunks at which a query begins: `{1}` for most
phases, one per school year in pedagogico. `Capacidade` is
`THREAD_POOL_MAX_WORKERS`, which is also the queue's `maxsize`. `MaxEsperas` is
how many waits of `THREAD_POOL_CHUNK_TIMEOUT` reach
`PRODUCER_MAX_WAIT_SECONDS` (5 by default). A source without reconnection
(the EOL API's Postgres) is `MaxRetry = 0`; `EOL_LOTE_MAXIMO` only makes the
source shorter. `Sobras` bounds what earlier runs left in the table.

Left out: time (a wait may expire whenever the queue is empty), the pool of
threads inside `processar` (one step, which may fail), and the hashes: a row
that an upsert skips because its hash is unchanged counts as written; that a
hash never hides a missing row is the question of `EtlLote`. `_persistir` is one transaction of the destination database, so
a batch is written whole or not at all.

### EtlLote

`sincronizar_lote` of `BaseEtlService` (engine `"base"`) and
`_upsert_incremental` of professores (engine `"professores"`), for one table
and two writers. A row is a key and a version, a hash is the version it was
computed from; a step is what a writer does between two accesses to the two
databases.

| Actions | Code |
|---|---|
| `Iniciar` | a run starts: `primeiro_run`, `ETL_SKIP_AUDIT_HASH`, and a table that professores empties first |
| `LerLote` | a chunk is read and transformed; a key may come twice |
| `Buscar` | `buscar_hashes`, `_buscar_hashes_existentes` |
| `NadaPendente`, `Persistir` | what the chunk must write (`DecisaoBase`, `DecisaoProfessores`: dedup, `_reinsere_se_ausente`) and its upsert |
| `GravarHashes` | `upsert_bulk` in the audit database |
| `Concluir`, `Falhar` | the end of the run, a failure or a kill anywhere |
| `MudarOrigem`, `ApagarHash` | the source; a manual deletion of hashes |

History variables. `atrasadas` are keys whose row was written and whose hash
did not follow in order: a failure between the databases, `--skip-audit-hash`,
two writers of the row at once. `duvida` are the keys of a writer's chunk that
another writer touched meanwhile. The properties speak of the other keys: for a
key of `atrasadas` the code itself gives no guarantee. If the source
goes back to what the old hash says, the row is skipped and stays different
until it changes again, which contradicts the "re-processamento é seguro" of
`docs/dominios/programas/retomada.md:38-40`.

### EtlCatalogo and EtlDominios

The rows of a table fall into two cohorts, those of the current school year and
those of an earlier one. The catalogue has one definition for each query (the
cohorts it returns without and with `--anos-letivos`), each DTO (whether its
row depends on the row of the source alone, on the hour of the run, on the cache
of codes), each model (foreign keys that the database enforces, whether the key
identifies a row or may be NULL) and each `PhaseConfig` (mode,
`truncate_on_full_sync`). `EtlDominios` executes them.

| Actions | Code |
|---|---|
| `Iniciar` | the command runs the service from phase 1 or from where the last run stopped |
| `CacheQuente`, `Aquecer`, `AquecerComFalha`, `Expirar`, `MudarCodigos` | institucional's cache of Core SSO codes, of one DRE |
| `ComecarFase`, `Substituir` | a phase starts: `TRUNCATE ... CASCADE`, or the deletion of its years |
| `Ignorar`, `Escrever`, `FalharIntegridade` | a cohort whose hash matches; the write; a row refused by a foreign key or a key |
| `GravarHashes`, `TerminarFase`, `Encerrar`, `Interromper` | the hashes; the end of a phase and of the run; a failure |
| `MudarOrigem` | rows of a cohort change, appear or go |

A phase is atomic within a cohort but for its hashes: the interleavings
inside a phase are the business of `EtlFasePipeline` and `EtlLote`. `exec.desde`
is history: the versions the source held when the run started.

### EtlProfessores

`run` holds the local variables of `handle`, `executar` and `_iter_lotes`
(`pular` is `pular_ref`, `loteRef` is `lote_ref`, `ignorados`, `entregues` and
`contador` are `lote_inicial`, `i` and `lote_counter`, `salvo` is
`ultimo_indice_salvo`). A chunk is the rows it holds. `_iter_lotes` skips by
place, and `SQL_PROFESSORES` is a `SELECT DISTINCT` with no `ORDER BY` over a
source that changes, so each query of `professor` may return its chunks in any
order (`Ordens`; `ordem` is that of the last query). The other tables are
always read from their first chunk, and their order changes nothing.
`LotesDosAnos` says which chunks `--anos-letivos` reads.

| Actions | Code |
|---|---|
| `Iniciar` | `handle` until `executar`: phase, table and chunk from the checkpoint (`FaseInicial`, `PularAte`, `LoteInicial`) |
| `PularTabela`, `IniciarTabela`, `TerminarFase` | the loop over tables and phases; tables emptied or their years deleted first |
| `Consultar`, `EngolirErro` | tables read from the Core SSO; the administrators, whose errors are logged |
| `IgnorarLote`, `GravarLote`, `RecusarLote`, `Reconectar`, `SalvarLote`, `TerminarLeitura`, `SalvarTabela` | `_iter_lotes`, the write, a refused key, a lost connection, the two callbacks that write the checkpoint |
| `GravarConclusao`, `Concluir`, `NadaExecutado` | the end of `handle`; "Retomada não executou nenhuma tabela" |
| `Falhar`, `GravarErro`, `FinalizarErro`, `Morrer` | an exception, the two writes of the `except`, a kill |

`destino` holds the chunks each table has. `atual` and `gravada` are history:
what the chain of runs going on, and the one the checkpoint belongs to, loaded
and did not lose since the chain began. Their field `fora` names the tables
that four known defects of the code may leave incomplete; `CheckpointCoberto`
and `ConclusaoCompleta` hold for all other tables:

1. `PuloPerdido`: the checkpoint names a chunk of the first table of macro
   phase 2, 3 or 4, and the tables of that phase are skipped (the run
   `professores_pulada`);
2. `popular_administradores_sgp` empties its table, logs the error of the API
   and reports the table as done (`services.py:1219`);
3. after a lost connection `lote_counter` goes on counting chunks that were
   read twice, so that a resumption inside `professor` passes over chunks it
   has not read;
4. the query of a resumption inside `professor` returns, in the places it skips,
   other chunks than the checkpoint counted (`Reler`; `EtlProfessoresOrdem.cfg`
   in section 3).

### EtlTerritorio

Phase 4 (`_executar_atribuicoes_territorio`), phase 10 (the copy of the
official groups) and the backup phase `_executar_agrupamentos` with
`agrupamentos.py`. A row is abstracted to the exact key of its group
(`Historica` drops the teacher and the date); codes are numbers, since the code
compares them and takes the maximum.

| Actions | Code |
|---|---|
| `Ler` | a phase of given years reads and groups its assignments |
| `ApagarAtribuicoes`, `CriarAtribuicoes`, `ConcluirAtribuicoes` | phase 4, in batches |
| `Truncar`, `Copiar` | phase 10 |
| `MontarIndices`, `ReusarExato`, `ReusarHistorico`, `GerarNovo` | `montar_indices_agrupamentos_existentes`, `resolver_cod_agrupamento`, group by group |
| `ApagarItens`, `ApagarAgrupamentos`, `CriarAgrupamentos`, `PassarAosItens`, `CriarItens`, `ConcluirGeracao` | the four writes of the phase, in batches |
| `Interromper` | a failure or a kill between any two of them |

`orfaos` is history: items whose groups phase 10 took away, since it truncates
the groups without them, and did not bring back. `ItemTemAgrupamento` speaks of
the other items. `CodigosUnivocos` speaks of the table of the groups: it says
nothing of the codes of items, which for `orfaos` may be given again
(`EtlTerritorioReuso.cfg` in section 3).

### EtlChord

A chord is identified by its execution, its phase and a copy number (copies
come from a callback delivered twice). `chord[k]` is the state of its tasks
and of its callback, `comando[e]` the command that launched execution `e`.

| Actions | Code |
|---|---|
| `Iniciar`, `Registrar`, `Lancar`, `FalharLancamento` | `BaseEtlCommand.handle` with `--celery`, `iniciar_execucao`, `BaseEtlOrquestrador.lancar` |
| `Escrever`, `Terminar`, `FalharChunk`, `PerderWorker` | `processar_chunk`: the write, the return, `self.retry`, a worker that dies (`acks_late`) |
| `GravarCheckpoint`, `LancarSeguinte`, `Finalizar`, `FalharCallback`, `Duplicar` | `finalizar_fase`: checkpoint, next chord, end of the execution; its loss; its repetition |
| `LimparOrfa` | `limpar-orfas`, which takes the chain for an orphan |

Celery is external: a chord without tasks is its callback alone; a header task
is counted once, when it returns; the callback fires when all are. `escrito`
and `linhagem` are history. Seen as `EtlPedido`: an execution answers for all
phases, since `lancar` ignores `--fases`; a phase is done for a request when
its last chunk is written by executions that serve it, so that `Escrever` is
either that step or invisible, and a phase without chunks is done from the
start (`SemChunks`).

## 3. Runs

| Run | Question | Bounds |
|---|---|---|
| `recuperacao` | types; the checkpoint never claims too much; a run gives one verdict; refinement of `EtlPedido`: no phase is missing from a concluded execution | 1 worker, 3 phases, requests for all phases or for the first, 3 executions, 2 published tasks, 1 failure, 1 kill, 1 cancellation, 1 recovery attempt (1.4 million states) |
| `concorrencia` | the same checkpoint and concluded executions, with a worker and a terminal on the same domain and a clean-up that interrupts live runs | 2 phases, 3 executions, 1 failure or Ctrl+C, 1 retry, heartbeats may expire (3.6 million states) |
| `progresso` | every execution ends; an interrupted one is resumed | 1 phase, 4 executions, 2 published tasks, 1 failure, 1 kill, fairness |
| `fase_pulada` | expected violation: `docs/dominios/programas/retomada.md` | 2 phases, 3 tasks, 1 failure, 1 kill |
| `pipeline_upsert` | a phase that concludes wrote everything, in order, to the end, once; the timeouts end every phase; refinement of `EtlFase` with its liveness | 4 chunks in 2 queries, queue of 2, 2 reconnections per query, 2 waits, leftovers; fairness of the consumer only |
| `pipeline_full_refresh` | a truncated table gets each chunk once; without timeouts, the `None` ends every phase; the inductive invariant | 3 chunks in 2 queries, no unique key, no timeout; fairness of the source too |
| `escrita` | no hash hides a row for ever; a chunk that is done left its rows as read; runs bring the table to its source | 1 key, 2 versions, 2 writers, both engines, 2 changes of the source, 1 failure, repeated key or lost hash (546 thousand states) |
| `professores` | checkpoint and conclusion of professores, copies, years not asked for, a resumed chain concludes | the 21 tables, of 0, 1 or 2 chunks; 2 failures or kills, 1 lost connection, the chunks of `professor` in either order (864 thousand states) |
| `professores_pulada` | expected violation: a comment of `etl_professores.py` | the same tables, 1 failure |
| `territorio` | in the table of the groups codes are neither shared nor split and survive; items have their group; a phase replaces its years | 4 groups with 3 historic keys in 2 years, batches of 2, 4 phases, 2 interruptions (1.4 million states) |
| `chord` | phases in order, the checkpoint never ahead of the data, refinement of `EtlPedido`, the chain ends | 3 phases of 2, 1 and 0 chunks, 2 executions, 1 failure or dead worker, 1 repeated callback, 1 retry (454 thousand states) |
| `dominios` | no copies, no hash without its row, no phase undoes another, everything converges | the 39 phases, 2 cohorts, 1 change of the source, 1 failure; programas also with `--anos-letivos` (602 thousand states) |

Why the bounds are enough. In the control, three phases give a first, a middle
and a last phase, so that a page may be before, at and after the interrupted one, and a request for the first phase alone gives
a partial run; three executions give an old run, a run and its continuation;
the interesting schedules need one failure and one kill. Retries, which multiply
them, are in `concorrencia` and `progresso`. In the pipeline the source is longer
than the queue, so the producer blocks; a query begins in the middle of the
source, so a reconnection may go back to the first chunk or to a later one;
two lost connections are one more than the first retry; the last wait and one
before it differ. For every safety property of the passing runs the proofs
remove the bounds.

`escrita`: the engines treat keys one by one, so one key shows every schedule;
two versions let the source go back to an old hash, two changes do so during a
run. `professores`: there is a chunk in the tables where macro phases 1 to 3
begin, where a resumption differs and where a failure or a repeated chunk does,
and two where their order matters (`professor`, which also returns them in
either order, and the last table); one failure leaves a checkpoint and another one interrupts its resumption.
`territorio`: two groups share a historic key, one has a single component, one
is alone in its year, and the official codes disagree with each other and with
the order of the groups; an interrupted generation may follow an interrupted
copy. `chord`: the last phase is empty, a phase has more than one task, two
chains are alive at once. `dominios`: one change of the source and one failure
fall in every phase of every domain; alunos with `--anos-letivos` was also
checked (920 thousand states, four minutes).

`CHECK_DEADLOCK FALSE`: with its bounds spent the control stops, as do the
chords and Território do Saber, and a phase stops when it ends. The other runs
check deadlock.

Fairness (`Justica`). A live process keeps taking its next step (`Passo`) and
a free worker keeps taking tasks. `recuperar_etl.sh` runs from cron every 30
minutes, hence the fairness of the clean-up's steps and of
`RetomarInterrompidas`. The worker's answer to the inspection is strongly
fair: it is asked again and again and does not fail every time. No fairness is
assumed of failures, kills, requests or of `ReprocessarErros`, which is manual.
`RegistrarParcial` is not fair: a phase may have few rows.

For a phase, `FairSpec` assumes only that the consumer keeps running: its waits
expire and the destination answers each batch, with a result or with an error
(`Recusar`). Nothing is assumed of the source, which may hang: that is what the
timeouts are for. `FairSpecOrigem` adds that the source answers, which is
needed when the timeouts are off, and to ask what becomes of the producer.

In the other modules: `EtlLote` and `EtlProfessores` assume that a live run
goes on and that a run is started again (weak fairness; the schedule and
`recuperar_etl.sh` do it); nothing is assumed of failures or of the source.
`EtlDominios` adds strong fairness of the scheduled full run, since runs with
other parameters or a resumption may take its place at times but not for ever,
and of the cache's expiry, which comes after `EX` seconds whenever no run is
filling it. `EtlChord` assumes a command that started goes on and that live
workers keep taking tasks; a callback that raises is not run again, so
`CadeiaConclui` speaks of chains that lost nothing. `EtlTerritorio` has no
liveness.

### What the violations show

- `fase_pulada`: execution 1 fails in phase 2 and leaves the checkpoint
  `(erro, 1)`. A new full run, execution 2, is killed before its first
  checkpoint. `limpar-orfas` interrupts it, `retomar` continues it, and
  execution 3 starts at phase 2 because of execution 1's checkpoint: phase 1
  of the new run is never executed and execution 3 is `concluido`.
- `professores_pulada`: a run is interrupted in the first table of macro phase
  2 after a chunk of it was saved as `tabela:lote`. The resumption starts in phase 2 with `pular_ate` naming the
  last table of phase 1, which does not come: every table of phase 2 is
  skipped, phases 3 and 4 run and the execution concludes. From phase 3 or 4,
  where `executar` does not stop skipping, nothing runs and the command fails
  with "Retomada não executou nenhuma tabela".

Seven more statements of the repository are refuted by configurations that can
be run by hand (`tlc -config X.cfg M`) and are not part of the suite:

- `EtlControleLimpeza.cfg` (`LimpezaSoEmExecucao`; description of
  `LimparOrfasView`): the clean-up reads an execution, the execution concludes,
  the clean-up saves `interrompido` over it.
- `EtlControleTentativas.cfg` (`RetomadasLimitadas`; `RetomarInterrompidasView`):
  two calls of `retomar` before the worker starts the first publish two
  continuations of one root although one is allowed.
- `EtlFasePipelineSinal.cfg` (`SinalRespeitado`; the message of
  `_validar_estado_producer`): the consumer's wait expires on an empty queue; the
  producer finds the source exhausted, puts `None` and ends; the consumer sees no
  error and a dead thread, and fails a phase that is complete.
- `EtlFasePipelineDuplicacao.cfg` (`SemDuplicacao`; `iter_consulta`'s
  docstring): chunk 1 is inserted, the connection is lost, the query starts
  again and chunk 1 is inserted again. `turma_atribuida_dre_ue` of pedagogico is
  such a phase: `full_refresh`, an automatic id and no unique constraint.
- `EtlFasePipelineThread.cfg` (`ThreadEncerra`; a test of `_executar_fase`): the
  consumer gives up with `TimeoutError`; the source answers afterwards; the
  producer fills the queue, which nobody reads, and blocks in `put` with its
  cursor open.
- `EtlProfessoresOrdem.cfg` (`SoPulaSalvos`; the docstring of `_iter_lotes`,
  "pulando lotes já salvos no checkpoint"): a run writes the first chunk of
  `professor`, saves `professor:1` and is killed; the resumption executes
  `SQL_PROFESSORES` again, which returns the other chunk first; that chunk is
  skipped, and nobody ever wrote it.
- `EtlTerritorioReuso.cfg` (`CodigoSoDeUmGrupo`; the docstring of
  `montar_indices_agrupamentos_existentes`, "o maior ID gerado"): the backup
  phase of 2024 gives a group the code 800001 and writes its item; phase 10
  truncates the groups and stops; the backup phase of 2025 finds no group, starts
  from 800000 and gives 800001 to another group, while the item of 2024 still has
  it. The configuration has no official rows: with them the copy alone may
  bring a code that an item holds.

### Where the documents and the code differ otherwise

Met while modelling; the models follow the code, and no run states these.

- Control: `docs/auditoria/api.md:120` says that an execution whose task is
  alive in Celery is preserved, but `limpar-orfas` interrupts it when its
  heartbeat expired (`HeartbeatExpira` in `concorrencia`).
- Professores: skipping the named table zeroes `lote_ref`, so that
  "tabela:lote" resumes at chunk 0 of every table but `professor`
  (`docs/dominios/professores/retomada.md:16` says at the chunk). The `except`
  writes no index when the run saved none, where its comment says that it
  preserves the one there. Reconnecting while a `full_refresh` table is read
  raises `IntegrityError` if the table has a key from the source and leaves
  copies if it has none. `--anos-letivos` empties `turma_atribuida_ue` and
  `disciplina_turma_atribuida_ue` of all years and loads the given ones; the
  checkpoint does not record the years.
- Chords: a chunk out of retries or a lost callback leaves the execution
  `em_execucao`, which nobody but `limpar-orfas` closes; `limpar-orfas` also
  interrupts live chains, since `celery_task_id` is that of the task that
  launched them; a callback delivered late turns a concluded checkpoint back;
  `lancar` ignores `--fases`; `BaseEtlFase` carries neither mode nor
  truncation, so that full refresh tables are upserted without being emptied;
  dates become text before they are hashed, so that the hash differs from that
  of a run without `--celery`, where `base_etl_fase.py:83-86` says it is equal.
- Domains: rows that appear between the phase of a table and that of a table
  that refers to it are refused, and a resumption from the second phase fails
  again until a full run. A resumption from phase 2 or later of institucional
  does not fill the cache, and `codigo_ue_integracao` becomes NULL if it expired
  (`docs/dominios/institucional/retomada.md`). `HSET` and `EXPIRE` are two
  calls. Tables of alunos whose key may be NULL get such rows again in each
  run. Upserts never delete. `transferido_em` is part of the hash of
  pedagogico, so that every run writes every row.
- Território do Saber: the backup phase runs only with
  `--fases agrupamento_territorio_saber_gerado`; the codes of deleted groups
  may be given again, also those that items still hold after phase 10; an interruption between the deletion of the groups and
  their creation loses their codes.

## 4. Proofs

`EtlControleProofs` proves, for every number of phases, processes, executions,
tasks and failures, from `ControleAssumption` alone (worker and terminal
processes are different, `fase_final` is a phase of the service, the bounds are
naturals, a request selects phases of the service):

- `TipoCorreto`: `Spec => []TypeOK`;
- `CheckpointSeguro`: `Spec => []CheckpointCoberto`;
- `ConclusaoSegura`: `Spec => []ConcluidoCoberto`.

`CheckpointCoberto` is not inductive: what a run writes into the checkpoint
depends on what it did since it read another one. The inductive invariant
`IInv` adds that a run that has read the checkpoint and not yet registered its
execution inherits only covered phases (`HerancaCoberta`), that a running
execution has covered every phase it is past (`RunCoberto`, `Passada`), that
a lineage only goes back in time (`LinhagemPassada`) and that a checkpoint is
written by a registered execution (`CheckpointRegistrado`). The proof has one
lemma per action or group of actions; `Estavel` carries what a step does not
touch, `IrParaCoberto` the moves of the program counter and `GravarCoberto` the
five writers of the checkpoint: each must show that the process is past every
phase the new page promises.

`EtlControlePassos` adds, from the same assumption, what its steps do:

- `VereditoDefinitivo`: `Spec => VereditoUnico`;
- `PedidoAtendido`: `Spec => ImplementaPedido`, every step of a process, of the
  endpoints or of the clean-up is a step of the abstract requests or invisible
  to them.

For the verdict, `VInv` is what makes it hold:
the execution of a running process is its own, no other process runs it, and it
has no verdict yet. A new identifier is greater than every one in use, so
registering one keeps this; a process that is past its verdict is no longer
running.

For the requests, `PedidoInv` is needed besides `IInv`: no phase was
synchronised by an execution that does not exist yet (`SincPassada`), so that a
new request finds nothing done for it; a concluded execution is one that began
(`ConcluidaRegistrada`); and what a run continues is an execution that began
(`BaseRegistrada`), so that a resumed run joins a request that exists.
That the execution may conclude is `RunCoberto`: at the end of the loop the
process is past every phase the execution answers for.

`EtlFasePipelineProofs` proves, for every length of the source, division into
queries, queue size, retry limit, timeout setting and kind of table, from
`PipelineAssumption` alone (a queue holds at least one item, the first chunk
begins a query, the limits are naturals):

- `InvarianteDoPipeline`: `Spec => []PipelineInv`, and from it
- `TipoDoPipeline`, `ConclusaoCompleta`, `ConclusaoNoFim`, `DestinoSeguro`,
  `EscritaEmOrdem`: `TypeOK`, `FaseCompleta`, `FimDaOrigem`, `DestinoExato`,
  `EmOrdem` (the unique key of `DestinoExato` is in the proof only: the runs
  take an upsert and a table without a key);
- `ImplementaContrato`: `Spec => Fase!Contrato`, every step of the pipeline is
  a step of the abstract phase or invisible to it.

That a phase which concludes is complete follows from where each chunk is.
`Entregues` says that what the producer delivered is written, queued or in
hand as long as the consumer has not failed; `FimPorUltimo` that nothing
follows the `None`; `ProducerCerto` that the `None` is put at the end of the
source or after an error was recorded; `ConsumerCerto` that a consumer past the
loop with no exception has emptied the queue. `EmSequencia` is the order: the
last chunk written, the one in hand, those queued and the next one to read
follow each other, or go back to the start of a query. `SemRecomeco` and
`DestinoCerto` count the copies. The lemmas come one per action that moves a
chunk (`PorPreserva`, `ObterChunkPreserva`, ...) and one for all the steps
that move none (`SemMoverPreserva`).

`EtlChordProofs` proves, for every number of phases, chunks, executions,
retries, failures and repeated callbacks, from `ChordAssumption` alone:

- `TipoDoChord`, `OrdemDasFases`, `CheckpointDoChord`, `ConclusaoDoChord`:
  `TypeOK`, `FasesEmOrdem`, `CheckpointCoberto` and `ConcluidoCompleto` of
  `EtlChordProps`.

The inductive invariant `ChordInv` adds what a chord stands for (`ElosCertos`:
it belongs to a command that launched, the phases before it were written, so
were the chunks its tasks say they wrote, and its callback waits for all of
them), that a command starts after phases its lineage wrote (`InicioCoberto`),
and that checkpoints and situations are those of executions that began. Every
step but `Iniciar` keeps the commands that began as they are (`Guardado`), so
what was written for a lineage stays written for it; the lemmas come one per
action, and `EloGuardado` carries the chords a step does not touch.

- `PedidoDoChord`: `Spec => ImplementaPedido` rests on `ChordInv` and
  `LinhagemIniciada` (a lineage is that of an execution that began). `ChordInv`
  gives the guard of the conclusion, since the chord of the last phase stands
  for the phases before it. `ConcluidoCompleto` says the same of the states
  alone, and no run repeats it.

`EtlLoteProofs` proves, for any keys, writers, versions and bounds and for both
engines, from `LoteAssumption` alone:

- `InvarianteDoLote`: `Spec => []LInv`, and from it
- `HashSeguro`, `LoteSeguro`: `HashFiel` and `LoteSincronizado`.

Neither is inductive: a hash is written from what the writer holds in memory.
`LInv` says, of the keys of a writer's chunk that no other writer may have
touched since it looked the hashes up (`TransitoEmDuvida`), that the look-up is
still true (`BuscaFiel`), that the rows whose hashes are to come are in the
destination (`GravacaoFiel`), and that a chunk that is done is synchronised
(`LoteFiel`). For professores it also needs that no key which came twice is
vouched for (`RepetidasEmDuvida`), since the row kept is the first and the hash
kept is the last; for the base engine, that a hash has its row (`HashTemLinha`).
The lemmas come one per action, and `SoEscritor` carries the writers that
another one's step leaves where they are.

`EtlTerritorioProofs` proves, for any groups, historic keys, years, batches and
official codes, from `TerritorioAssumption` and `OficiaisAssumption`:

- `InvarianteDoTerritorio`: `Spec => []TInv`, and from it
- `CodigosSeguros`, `ItensSeguros`: `CodigosUnivocos` and `ItemTemAgrupamento`.

The codes given are unique in the table of the groups because the last code of the indices is not less
than any code of the table or of the new groups (`IndicesCertos`), which a
proof needs a greatest code to exist for: the groups are finitely many, and so
are the codes. An interruption leaves old and new groups side by side, so the
new ones must agree with the whole table and not only with each other
(`NovosCertos`). That items have their group follows from the order of the four
writes (`ItensApagados`, `NovosCriados`).

Three more theorems rest on a second invariant, `SubstituicaoInv`:

- `SubstituicaoDoTerritorio`: `Spec => []SubstituicaoInv`, and from it
- `CodigosEstaveis`, `AnosSubstituidos`: `CodigoEstavel` and
  `FaseSubstituiAnos`.

`FaseSubstituiAnos` says what the tables hold at the end; to prove it one must
say what they hold on the way. Of the years of the run phase 4 holds the groups
read but those still to write (`AtribuicoesDoAno`); in the backup phase every
group read is still to resolve or has one new row (`GruposResolvidos`), and
groups and items are those of the new rows that are written (`GruposDoAno`).
`CodigoEstavel` compares the end of the phase with the table its indices were
built from, which by then is gone: `CodigosMantidos` keeps that every new row has
a code of that table if its historic key was there, and that the table holds
nothing but rows of that table and new ones. That `TInv` has the indices know
every historic key is what makes the first of these hold when a code is given.

`EtlDominiosProofs` proves, for any set of domains, any filters of years, any
number of changes of the source and of interrupted runs, from
`DominiosAssumption`:

- `InvarianteDosDominios`: `Spec => []DInv`, and from it
- `TabelasSemDuplicata`, `HashesComLinha`, `ExecucoesCumprem`: `SemDuplicata`,
  `HashComLinha`, `FasesCumpridas`;
- `NadaSeApagaFora`: `Spec => SoAPropriaFaseApaga`.

The catalogue enters through `FaseCerta`, which is proved of each of the 39
phases: a table loaded anew is emptied first and is one that no other refers to
with a constraint, and a table without a key is loaded anew. Everything else is
proved from that alone, so it holds of any catalogue whose phases satisfy it: a
phase of a full refresh over a table that others refer to, or an insert
into a table without a key that is not emptied, is what would break it. `DInv`
adds to the properties that nothing is newer than the source (`VersoesCertas`),
so that writing a row again never makes its hash the newer of the two; that only
upserts keep hashes, and write the rows first (`HashesCertos`), so that no
table that is emptied has any; and, of the phase under way, that cohorts not
yet read are missing from a table loaded anew or are in memory as they were at
the start, and that the others are there (`CargaCerta`). The lemmas come one per
action; `EsvaziarPreserva` is what a table that is emptied loses, and
`CumpridasFicam` carries the phases already done.

`EtlProfessoresProofs` proves, for any numbers of chunks in the tables (all of
them and those of the years asked for), any orders in which the queries of
`professor` return them, failures, kills and lost connections, from `ProfessoresAssumption`:

- `InvarianteDaRetomada`: `Spec => []PInv`, and from it
- `TiposDaRetomada`: `TypeOK`;
- `CheckpointDaRetomada`, `ConclusaoDaRetomada`: `CheckpointCoberto` and
  `ConclusaoCompleta`;
- `RepeticaoDaRetomada`, `AnosDaRetomada`: `RepeticaoSoPorQueda` and
  `OutrosAnosFicam`, with the help of `CopiasCertas`.

`CheckpointCoberto` and `ConclusaoCompleta` are not inductive: the checkpoint is
written from local variables of a run that may have begun in the middle. `PInv`
says that the tables a run is past are complete (`PassadasFeitas`); that a run
still skipping tables has written nothing, and that the table it skips to is
ahead with those before it complete, or is behind and its macro phase is one of
the exceptions (`PuloCerto`); that a table is emptied only when the checkpoint
no longer promises it (`NadaPrometido`); that chunks passed over or counted are
in the destination (`LoteCerto`, `LeituraCerta`, but for `professor` after a
lost connection or a resumption that skipped other chunks than those counted); and that the last index saved is not ahead of what was written
(`SalvoCerto`). The lemmas come one per action, and `Conserva` carries the
tables an action does not take anything from. `CopiasCertas` adds that a table
emptied at its start does not hold what is still to be read, unless the
connection was lost, and that tables hold only chunks of their query: so the
tables whose query does not depend on the years lose nothing that is not written
again.

Only model-checked: the liveness properties (`ExecucaoTermina`,
`InterrompidaRetomada`, `FaseTermina`, `RetomadaConclui`, `CadeiaConclui`, both
`Converge`) and the liveness part of the refinement `ImplementaFase`: liveness
under fairness needs `ENABLED`, which is beyond the prover.

## 5. Plan

Modelled: every component of section 1 but those of section 6. What a later
stage would add is `ThreadPoolLotes`: splitting a batch among threads and joining
the results, now one step of the pipeline.

The suite of runs stays at a dozen: a new component takes the place of a run
whose question is settled by a theorem or of a violation of less interest,
which then stays as a configuration of its own (section 3).

## 6. Not modelled

- Dashboards, read-only endpoints, health checks and the compatibility checks of
  professores: they query and compare, and change no state of the ETL.
- Admin, settings, routers, migrations: declarations.
- Columns and joins. The catalogues keep of a query the cohorts it returns, of
  a DTO what its row depends on, of a model its references and keys: that is all
  the properties tell apart. That a query joins the right tables or a DTO maps
  the right column is not a question of states.
- The input DTOs of professores (`dtos/model_in.py`), which only name the
  columns of a row, and the parameters of the query of `turma_atribuida_dre_ue`.
- Rows `lida`, `escrita` and progress of the audit database, messages, logs:
  nothing reads them back but the dashboards and the heartbeat, and the
  heartbeat is a nondeterministic choice.
- The cache of Core SSO codes is that of one DRE; two runs of the backup phase of
  Território do Saber at once, which only two manual commands could start.
- Time: timeouts and heartbeats may expire whenever they could.
