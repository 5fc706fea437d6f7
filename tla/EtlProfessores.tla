---------------------------- MODULE EtlProfessores -----------------------------
(***************************************************************************)
(* The command etl_professores and EtlProfessoresService.executar: the     *)
(* tables of the domain, in four macro phases, with a checkpoint after     *)
(* every chunk ("tabela:lote") and after every table ("tabela"), and the   *)
(* resumption with --continuar.                                            *)
(*                                                                         *)
(* A table is its place in _ORDEM_TABELAS, a chunk the rows it holds.  Of  *)
(* professor, the one table that a resumption reads from the middle, each  *)
(* query returns the chunks in any order.  One process runs the command at *)
(* a time; it may fail or be killed between any two accesses to a          *)
(* database.                                                               *)
(***************************************************************************)
EXTENDS EtlCatalogoProfessores, Integers, Functions

Tabelas == DOMAIN Catalogo

CONSTANTS
  Lotes,          \* chunks each table's queries return
  LotesDosAnos,   \* chunks, the first ones, that hold the years that
                  \* --anos-letivos gives
  MaxFalhas,      \* bound: failures and kills
  MaxQuedas       \* bound: lost connections

(* _TABELAS_FULL_REFRESH: cargo and the tables from lotacao_servidor to
   laudo_medico are among those a resumption loads from their beginning.   *)
FullRefresh == {2, 4} \cup (7..10) \cup (14..17) \cup {19, 20}

(* Tables a run empties, all or the years read, before it writes them. *)
Apagadas == {t \in Tabelas : Catalogo[t].modo # "upsert"}

(* Read from the CoreSSO in one query, not with eol.iter_query. *)
DoSSO == {t \in Tabelas : Catalogo[t].regra = "sso"}

(* The table professor, the first one; no index is before it, so a
   resumption continues inside.                                            *)
Rastreada == 1

(* administrador_escola, whose popular_administradores_sgp logs every
   exception and returns 0.                                                *)
Administrador == 4

ASSUME ProfessoresAssumption ==
  /\ Lotes \in [Tabelas -> Nat] /\ LotesDosAnos \in [Tabelas -> Nat]
  /\ \A t \in Tabelas :
       /\ LotesDosAnos[t] <= Lotes[t]
       /\ Catalogo[t].regra # "anos" => LotesDosAnos[t] = Lotes[t]
  /\ \A t \in DoSSO : Lotes[t] = 1
  /\ MaxFalhas \in Nat /\ MaxQuedas \in Nat

(* The orders in which the query of professor may return its chunks, o[n]
   being the one in place n: it has no ORDER BY and its source lives, and a
   row that enters or leaves moves those behind it.  The other tables are
   always read from their first chunk, so that their order changes nothing. *)
Ordens == Bijection(1..Lotes[Rastreada], 1..Lotes[Rastreada])

PrimeiraOrdem == [n \in 1..Lotes[Rastreada] |-> n]

(* The chunks in the first n places. *)
NoInicio(o, n) == {o[i] : i \in {j \in DOMAIN o : j <= n}}

Fases == 1..4

(* _fase_1 to _fase_4. *)
Primeira == <<1, 5, 7, 13>>
Ultima == <<4, 6, 12, 21>>

(* _FASE_MACRO_TABELA, which has no entry for cargo (table 2); 0: none. *)
FaseMacro(t) ==
  IF t = 2 THEN 0 ELSE CHOOSE f \in Fases : Primeira[f] <= t /\ t <= Ultima[f]

VARIABLES
  checkpoint,   \* the domain's EtlCheckpointDominio
  run,          \* the command that is running
  execucao,     \* situacao of the last EtlExecucao
  destino,      \* the tables of professores_db
  atual,        \* history: what the chain of runs going on did
  gravada,      \* history: what the chain the checkpoint belongs to did
  falhas,       \* history: failures and kills
  quedas        \* history: lost connections

vars == <<checkpoint, run, execucao, destino, atual, gravada, falhas, quedas>>

(* indice_sincronizacao: tabela 0 is None, lote 0 is "tabela" without lote. *)
Indice == [tabela : {0} \cup Tabelas, lote : Nat]

SemIndice == [tabela |-> 0, lote |-> 0]

(* ultima_situacao is not read by this command.  No row reads as page 0 and
   no index.                                                               *)
Checkpoint == [pagina : 0..4, indice : Indice]

Etapas == {"parado", "fase", "consultando", "lendo", "gravado", "terminada",
           "retornou", "concluindo", "falhando", "finalizando"}

(* fase, tabela: where executar is; pular: pular_ref; loteRef: lote_ref;
   ignorados, entregues, contador: lote_inicial, i and lote_counter of
   _iter_lotes; prox: the place of the chunk the source gives next; ordem:
   the order of the last query of professor; salvo: ultimo_indice_salvo;
   concluida: ultima_fase_concluida; alguma: whether resultado has an entry;
   restrita: --anos-letivos was given.                                     *)
Run == [etapa : Etapas, fase : Fases, tabela : 1..22, pular : {0} \cup Tabelas,
        loteRef : Nat, ignorados : Nat, entregues : Nat, contador : Nat,
        prox : Nat, ordem : Ordens, salvo : Indice, concluida : 0..4,
        alguma : BOOLEAN, restrita : BOOLEAN]

(* Chunks whose rows a table holds, and history: tables that hold a row more
   than once, and tables loaded over a lost connection.                    *)
Destino == [lotes : [Tabelas -> SUBSET Nat], repetidas : SUBSET Tabelas,
            caidas : SUBSET Tabelas]

(* feito: the chunks of each table in the destination since the chain began;
   ordem: the order in which its last query of professor returned them;
   fora: tables that a known defect may have left incomplete (README);
   restrita: some run of the chain was given --anos-letivos.               *)
Cadeia == [feito : [Tabelas -> SUBSET Nat], ordem : Ordens,
           fora : SUBSET Tabelas, restrita : BOOLEAN]

CadeiaNova ==
  [feito |-> [t \in Tabelas |-> {}], ordem |-> PrimeiraOrdem, fora |-> {},
   restrita |-> FALSE]

Init ==
  /\ checkpoint = [pagina |-> 0, indice |-> SemIndice]
  /\ run = [etapa |-> "parado", fase |-> 1, tabela |-> 1, pular |-> 0,
            loteRef |-> 0, ignorados |-> 0, entregues |-> 0, contador |-> 0,
            prox |-> 1, ordem |-> PrimeiraOrdem, salvo |-> SemIndice,
            concluida |-> 0, alguma |-> FALSE, restrita |-> FALSE]
  /\ execucao = "nenhuma"
  /\ destino = [lotes |-> [t \in Tabelas |-> {}], repetidas |-> {},
                caidas |-> {}]
  /\ atual = CadeiaNova /\ gravada = CadeiaNova
  /\ falhas = 0 /\ quedas = 0

-------------------------------------------------------------------------------
(* handle: where the run starts. *)

FaseInicial(c) ==
  LET f == IF c.indice.tabela = 0 THEN 0 ELSE FaseMacro(c.indice.tabela)
  IN IF f # 0 THEN f ELSE IF c.pagina < 4 THEN c.pagina + 1 ELSE 1

(* "tabela" skips to that table, "tabela:lote" to the one before it. *)
PularAte(c) ==
  IF c.indice.lote = 0 THEN c.indice.tabela ELSE c.indice.tabela - 1

LoteInicial(c) ==
  IF c.indice.tabela \in FullRefresh THEN 0 ELSE c.indice.lote

(* The index names a chunk of the first table of a phase after the first:
   the table to skip to is in the phase before it, which does not run.     *)
PuloPerdido(c) ==
  c.indice.lote > 0 /\ c.indice.tabela \in {Primeira[f] : f \in 2..4}

(* The chain starts again when the run starts at its beginning.  The years a
   run was given are not in the checkpoint.                                *)
Encadear(c, restrita) ==
  IF FaseInicial(c) = 1 /\ PularAte(c) = 0 /\ LoteInicial(c) = 0
  THEN [CadeiaNova EXCEPT !.restrita = restrita]
  ELSE [gravada EXCEPT
          !.restrita = @ \/ restrita,
          !.fora = IF PuloPerdido(c)
                   THEN @ \cup (Primeira[FaseInicial(c)]..Ultima[FaseInicial(c)])
                   ELSE @]

(* handle until servico.executar; --continuar and --anos-letivos or not. *)
Iniciar(continuar, restrita) ==
  LET c == IF continuar THEN checkpoint
           ELSE [pagina |-> 0, indice |-> SemIndice]
  IN /\ run.etapa = "parado"
     /\ run' = [etapa |-> "fase", fase |-> FaseInicial(c),
                tabela |-> Primeira[FaseInicial(c)],
                pular |-> PularAte(c), loteRef |-> LoteInicial(c),
                ignorados |-> 0, entregues |-> 0, contador |-> 0,
                prox |-> 1, ordem |-> PrimeiraOrdem, salvo |-> SemIndice,
                concluida |-> 0, alguma |-> FALSE, restrita |-> restrita]
     /\ execucao' = "em_execucao"
     /\ atual' = Encadear(c, restrita)
     /\ UNCHANGED <<checkpoint, destino, gravada, falhas, quedas>>

-------------------------------------------------------------------------------
(* servico.executar. *)

Em(etapa) == run.etapa = etapa

(* Chunks the query of table t returns. *)
Fim(t) == IF run.restrita THEN LotesDosAnos[t] ELSE Lotes[t]

(* What is deleted or written is so for every chain that counts on it. *)
Apagar(t, resto) ==
  /\ destino' = [lotes |-> [destino.lotes EXCEPT ![t] = resto],
                 repetidas |-> IF resto = {} THEN destino.repetidas \ {t}
                               ELSE destino.repetidas,
                 caidas |-> IF resto = {} THEN destino.caidas \ {t}
                            ELSE destino.caidas]
  /\ atual' = [atual EXCEPT !.feito[t] = @ \cap resto]
  /\ gravada' = [gravada EXCEPT !.feito[t] = @ \cap resto]

Contar(t, lotes) ==
  /\ atual' = [atual EXCEPT !.feito[t] = @ \cup lotes]
  /\ gravada' = [gravada EXCEPT !.feito[t] = @ \cup lotes]

(* Mutant: professor_escola_ano is emptied whatever the years. *)
RestanteNenhum(t) == {}

(* What is left of a table that is emptied before it is loaded. *)
Restante(t) ==
  IF Catalogo[t].modo = "substitui" /\ run.restrita
  THEN destino.lotes[t] \ (1..LotesDosAnos[t]) ELSE {}

(* Mutant: the chunk to start from survives the skipping. *)
PularSemZerarLote ==
  /\ Em("fase") /\ run.tabela <= Ultima[run.fase]
  /\ run.pular # 0
  /\ run' = [run EXCEPT !.tabela = @ + 1,
                        !.pular = IF @ = run.tabela THEN 0 ELSE @]
  /\ UNCHANGED <<checkpoint, execucao, destino, atual, gravada, falhas, quedas>>

(* A table is skipped; the one to skip to ends the skipping, and the chunk to
   start from is forgotten.                                                *)
PularTabela ==
  /\ Em("fase") /\ run.tabela <= Ultima[run.fase]
  /\ run.pular # 0
  /\ run' = [run EXCEPT !.tabela = @ + 1,
                        !.pular = IF @ = run.tabela THEN 0 ELSE @,
                        !.loteRef = IF run.pular = run.tabela THEN 0 ELSE @]
  /\ UNCHANGED <<checkpoint, execucao, destino, atual, gravada, falhas, quedas>>

(* The chain reads professor again, in order o, and skips the first n places:
   the rows there are lost when they are not those the checkpoint counted. *)
Reler(cadeia, o, n) ==
  [cadeia EXCEPT !.ordem = o,
                 !.fora = IF NoInicio(o, n) \subseteq NoInicio(cadeia.ordem, n)
                          THEN @ ELSE @ \cup {Rastreada}]

(* Mutant: a table is not emptied. *)
IniciarSemEsvaziar ==
  /\ Em("fase") /\ run.tabela <= Ultima[run.fase]
  /\ run.pular = 0
  /\ LET t == run.tabela
         ini == IF t \in FullRefresh THEN 0 ELSE run.loteRef
     IN \E o \in IF t = Rastreada THEN Ordens ELSE {run.ordem} :
          /\ run' = [run EXCEPT
                       !.etapa = IF t \in DoSSO THEN "consultando" ELSE "lendo",
                       !.loteRef = 0, !.ignorados = ini, !.entregues = 0,
                       !.contador = ini, !.prox = 1, !.ordem = o]
          /\ atual' = IF t = Rastreada THEN Reler(atual, o, ini) ELSE atual
          /\ UNCHANGED <<destino, gravada>>
  /\ UNCHANGED <<checkpoint, execucao, falhas, quedas>>

(* A table starts, and its query; those reloaded are emptied first.
   administrador_escola is emptied only once its query has answered.       *)
IniciarTabela ==
  /\ Em("fase") /\ run.tabela <= Ultima[run.fase]
  /\ run.pular = 0
  /\ LET t == run.tabela
         ini == IF t \in FullRefresh THEN 0 ELSE run.loteRef
     IN \E o \in IF t = Rastreada THEN Ordens ELSE {run.ordem} :
          /\ run' = [run EXCEPT
                       !.etapa = IF t \in DoSSO THEN "consultando" ELSE "lendo",
                       !.loteRef = 0, !.ignorados = ini, !.entregues = 0,
                       !.contador = ini, !.prox = 1, !.ordem = o]
          /\ IF t \in Apagadas \ DoSSO
             THEN Apagar(t, Restante(t))
             ELSE /\ atual' = IF t = Rastreada THEN Reler(atual, o, ini) ELSE atual
                  /\ UNCHANGED <<destino, gravada>>
  /\ UNCHANGED <<checkpoint, execucao, falhas, quedas>>

(* The CoreSSO answers and the rows are written. *)
Consultar ==
  /\ Em("consultando")
  /\ LET t == run.tabela
     IN /\ run' = [run EXCEPT !.etapa = "terminada", !.alguma = TRUE]
        /\ destino' = [destino EXCEPT !.lotes[t] = 1..Lotes[t]]
        /\ Contar(t, 1..Lotes[t])
  /\ UNCHANGED <<checkpoint, execucao, falhas, quedas>>

(* The CoreSSO query or the write of the administrators fails, the latter
   with the table already emptied, and the phase goes on.                  *)
EngolirErro ==
  /\ Em("consultando") /\ run.tabela = Administrador
  /\ falhas < MaxFalhas
  /\ falhas' = falhas + 1
  /\ run' = [run EXCEPT !.etapa = "terminada", !.alguma = TRUE]
  /\ \E resto \in {{}, destino.lotes[Administrador]} :
       LET depois(cadeia) ==
             [cadeia EXCEPT !.feito[Administrador] = @ \cap resto,
                            !.fora = @ \cup {Administrador}]
       IN /\ destino' = [destino EXCEPT !.lotes[Administrador] = resto]
          /\ atual' = depois(atual)
          /\ gravada' = depois(gravada)
  /\ UNCHANGED <<checkpoint, execucao, quedas>>

(* The chunk the query returns in place n. *)
NoLugar(n) == IF run.tabela = Rastreada THEN run.ordem[n] ELSE n

(* _iter_lotes passes over as many chunks as the checkpoint counts, whichever
   the query returns in those places.                                      *)
IgnorarLote ==
  /\ Em("lendo") /\ run.prox <= Fim(run.tabela)
  /\ run.entregues < run.ignorados
  /\ run' = [run EXCEPT !.entregues = @ + 1, !.prox = @ + 1]
  /\ UNCHANGED <<checkpoint, execucao, destino, atual, gravada, falhas, quedas>>

(* Rows of a chunk that the table already holds: a full_refresh inserts them
   unless their key refuses, a "substitui" unless they conflict.           *)
Repetido(t, c) ==
  c \in destino.lotes[t] /\ Catalogo[t].modo \in {"full_refresh", "substitui"}

Recusado(t, c) ==
  /\ Repetido(t, c)
  /\ Catalogo[t].modo = "full_refresh" /\ Catalogo[t].chave = "unica"

(* A chunk is delivered, transformed and written. *)
GravarLote ==
  /\ Em("lendo") /\ run.prox <= Fim(run.tabela)
  /\ run.entregues >= run.ignorados
  /\ ~Recusado(run.tabela, NoLugar(run.prox))
  /\ LET t == run.tabela
         c == NoLugar(run.prox)
     IN /\ run' = [run EXCEPT !.etapa = "gravado", !.entregues = @ + 1,
                              !.contador = @ + 1, !.prox = @ + 1]
        /\ destino' = [destino EXCEPT
                         !.lotes[t] = @ \cup {c},
                         !.repetidas = IF /\ Repetido(t, c)
                                          /\ Catalogo[t].chave # "unica"
                                       THEN @ \cup {t} ELSE @]
        /\ Contar(t, {c})
  /\ UNCHANGED <<checkpoint, execucao, falhas, quedas>>

(* IntegrityError: the key refuses rows that were inserted before. *)
RecusarLote ==
  /\ Em("lendo") /\ run.prox <= Fim(run.tabela)
  /\ run.entregues >= run.ignorados
  /\ Recusado(run.tabela, NoLugar(run.prox))
  /\ run' = [run EXCEPT !.etapa = "falhando"]
  /\ UNCHANGED <<checkpoint, execucao, destino, atual, gravada, falhas, quedas>>

(* The connection is lost and the query is read again from its start, in any
   order; with --anos-letivos professor_escola_ano has a query for each
   school.  The counters of _iter_lotes go on, and count more chunks than
   were read.                                                              *)
Reconectar ==
  /\ Em("lendo") /\ quedas < MaxQuedas
  /\ run.prox > 1
  /\ quedas' = quedas + 1
  /\ LET t == run.tabela
         foraSe(cadeia) == [cadeia EXCEPT !.fora = @ \cup ({t} \cap {Rastreada})]
     IN /\ \E inicio \in 1..run.prox - 1,
              o \in IF t = Rastreada THEN Ordens ELSE {run.ordem} :
             /\ inicio = 1 \/ (run.restrita /\ Catalogo[t].modo = "substitui")
             /\ run' = [run EXCEPT !.prox = inicio, !.ordem = o]
        /\ destino' = [destino EXCEPT !.caidas = @ \cup {t}]
        /\ atual' = foraSe(atual)
        /\ gravada' = foraSe(gravada)
  /\ UNCHANGED <<checkpoint, execucao, falhas>>

Salvar(indice) ==
  /\ checkpoint' = [pagina |-> run.concluida, indice |-> indice]
  /\ gravada' = atual

(* The generator goes on: on_lote saves "tabela:lote". *)
SalvarLote ==
  /\ Em("gravado")
  /\ LET indice == [tabela |-> run.tabela, lote |-> run.contador]
     IN /\ Salvar(indice)
        /\ run' = [run EXCEPT !.etapa = "lendo", !.salvo = indice]
  /\ UNCHANGED <<execucao, destino, atual, falhas, quedas>>

(* The table's method returns. *)
TerminarLeitura ==
  /\ Em("lendo") /\ run.prox > Fim(run.tabela)
  /\ run' = [run EXCEPT !.etapa = "terminada", !.alguma = TRUE]
  /\ UNCHANGED <<checkpoint, execucao, destino, atual, gravada, falhas, quedas>>

(* on_tabela_concluida saves "tabela".  No chunk is counted any more, and the
   order they came in is forgotten.                                        *)
SalvarTabela ==
  /\ Em("terminada")
  /\ LET indice == [tabela |-> run.tabela, lote |-> 0]
     IN /\ checkpoint' = [pagina |-> run.concluida, indice |-> indice]
        /\ run' = [run EXCEPT !.etapa = "fase", !.salvo = indice,
                              !.tabela = @ + 1, !.ordem = PrimeiraOrdem]
  /\ atual' = [atual EXCEPT !.ordem = PrimeiraOrdem]
  /\ gravada' = atual'
  /\ UNCHANGED <<execucao, destino, falhas, quedas>>

(* Mutant: one phase too many. *)
TerminarFaseSemFim ==
  /\ Em("fase") /\ run.tabela > Ultima[run.fase]
  /\ run' = [run EXCEPT !.concluida = run.fase,
                        !.pular = IF run.fase <= 2 THEN 0 ELSE @,
                        !.fase = @ + 1,
                        !.etapa = IF run.fase < 4 THEN "fase" ELSE "retornou"]
  /\ UNCHANGED <<checkpoint, execucao, destino, atual, gravada, falhas, quedas>>

(* The end of a phase; after the first and the second, executar stops
   skipping.                                                               *)
TerminarFase ==
  /\ Em("fase") /\ run.tabela > Ultima[run.fase]
  /\ run' = [run EXCEPT !.concluida = run.fase,
                        !.pular = IF run.fase <= 2 THEN 0 ELSE @,
                        !.fase = IF @ < 4 THEN @ + 1 ELSE @,
                        !.etapa = IF run.fase < 4 THEN "fase" ELSE "retornou"]
  /\ UNCHANGED <<checkpoint, execucao, destino, atual, gravada, falhas, quedas>>

-------------------------------------------------------------------------------
(* The end of handle. *)

GravarConclusao ==
  /\ Em("retornou") /\ run.alguma
  /\ Salvar(SemIndice)
  /\ run' = [run EXCEPT !.etapa = "concluindo"]
  /\ UNCHANGED <<execucao, destino, atual, falhas, quedas>>

Concluir ==
  /\ Em("concluindo")
  /\ execucao' = "concluido"
  /\ run' = [run EXCEPT !.etapa = "parado"]
  /\ UNCHANGED <<checkpoint, destino, atual, gravada, falhas, quedas>>

(* "Retomada não executou nenhuma tabela." *)
NadaExecutado ==
  /\ Em("retornou") /\ ~run.alguma
  /\ run' = [run EXCEPT !.etapa = "falhando"]
  /\ UNCHANGED <<checkpoint, execucao, destino, atual, gravada, falhas, quedas>>

(* A call inside the try raises; the last one is finalizar_execucao. *)
Falhar ==
  /\ run.etapa \in {"fase", "consultando", "lendo", "gravado", "terminada",
                    "retornou", "concluindo"}
  /\ Em("consultando") => run.tabela # Administrador
  /\ falhas < MaxFalhas
  /\ falhas' = falhas + 1
  /\ run' = [run EXCEPT !.etapa = "falhando"]
  /\ UNCHANGED <<checkpoint, execucao, destino, atual, gravada, quedas>>

(* Mutant: the index already in the checkpoint is kept. *)
GravarErroPreservando ==
  /\ Em("falhando")
  /\ Salvar(checkpoint.indice)
  /\ run' = [run EXCEPT !.etapa = "finalizando"]
  /\ UNCHANGED <<execucao, destino, atual, falhas, quedas>>

(* Mutant: the page is the phase going on. *)
GravarErroNaFaseAtual ==
  /\ Em("falhando")
  /\ checkpoint' = [pagina |-> run.fase, indice |-> run.salvo]
  /\ gravada' = atual
  /\ run' = [run EXCEPT !.etapa = "finalizando"]
  /\ UNCHANGED <<execucao, destino, atual, falhas, quedas>>

(* The except: the checkpoint gets the index of this run's last callback. *)
GravarErro ==
  /\ Em("falhando")
  /\ Salvar(run.salvo)
  /\ run' = [run EXCEPT !.etapa = "finalizando"]
  /\ UNCHANGED <<execucao, destino, atual, falhas, quedas>>

FinalizarErro ==
  /\ Em("finalizando")
  /\ execucao' = "erro"
  /\ run' = [run EXCEPT !.etapa = "parado"]
  /\ UNCHANGED <<checkpoint, destino, atual, gravada, falhas, quedas>>

(* The process is killed. *)
Morrer ==
  /\ ~Em("parado") /\ falhas < MaxFalhas
  /\ falhas' = falhas + 1
  /\ run' = [run EXCEPT !.etapa = "parado"]
  /\ UNCHANGED <<checkpoint, execucao, destino, atual, gravada, quedas>>

-------------------------------------------------------------------------------

(* What a live process does when nothing goes wrong. *)
Avancar ==
  \/ PularTabela \/ IniciarTabela \/ TerminarFase
  \/ Consultar \/ IgnorarLote \/ GravarLote \/ RecusarLote \/ SalvarLote
  \/ TerminarLeitura \/ SalvarTabela
  \/ GravarConclusao \/ Concluir \/ NadaExecutado
  \/ GravarErro \/ FinalizarErro

Next ==
  \/ \E continuar, restrita \in BOOLEAN : Iniciar(continuar, restrita)
  \/ Avancar
  \/ EngolirErro \/ Reconectar \/ Falhar \/ Morrer

Spec == Init /\ [][Next]_vars

(* A live process goes on, and cron resumes what is not going on. *)
FairSpec == Spec /\ WF_vars(Avancar) /\ WF_vars(Iniciar(TRUE, FALSE))
===============================================================================
