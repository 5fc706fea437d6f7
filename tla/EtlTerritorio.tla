----------------------------- MODULE EtlTerritorio ------------------------------
(***************************************************************************)
(* Phases of etl_pedagogico that write by themselves the tables of         *)
(* Território do Saber: the granular assignments (phase 4), the copy of    *)
(* the official groups of the API EOL (phase 10, TRUNCATE and rows) and    *)
(* the backup phase that generates the groups here and gives each one a    *)
(* code, reusing the codes the table already holds.                        *)
(*                                                                         *)
(* Deletions and batches of rows commit one by one: a phase may stop       *)
(* between any two.  A row is abstracted to the exact key of its group; an *)
(* exact key has one historic key (it drops the teacher and the date), and *)
(* a historic key, which holds the class, one year.                        *)
(***************************************************************************)
EXTENDS Integers, FiniteSets

CONSTANTS
  Exatas,        \* exact keys, numbered in the order in which groups are sorted
  Historicas,    \* historic keys
  Anos,          \* school years
  Historica,     \* the historic key of an exact key
  Ano,           \* the year of a historic key
  Unitarias,     \* groups of a single component
  Oficiais,      \* rows the API EOL may hold
  IdInicial,     \* _AGRUPAMENTO_ID_INICIAL
  Lote,          \* size of a batch of _bulk_create_em_lotes
  MaxFases,      \* bound: phases started
  MaxFalhas      \* bound: phases interrupted

Linha == [cod : Nat, exata : Exatas]

ASSUME TerritorioAssumption ==
  /\ Exatas \subseteq Nat /\ IsFiniteSet(Exatas)
  /\ Historica \in [Exatas -> Historicas]
  /\ Ano \in [Historicas -> Anos]
  /\ Unitarias \subseteq Exatas
  /\ IdInicial \in Nat /\ Lote \in Nat \ {0}
  /\ MaxFases \in Nat /\ MaxFalhas \in Nat

(* The API EOL gives a code to one historic key, though to many rows of it. *)
ASSUME OficiaisAssumption ==
  /\ Oficiais \subseteq Linha /\ IsFiniteSet(Oficiais)
  /\ \A l, m \in Oficiais :
       l.cod = m.cod => Historica[l.exata] = Historica[m.exata]

VARIABLES
  atribuicoes,  \* table atribuicao_territorio_saber
  agrup,        \* table agrupamento_atribuicao_territorio_saber
  itens,        \* table componente_curricular_agrupamento
  run,          \* the phase that runs
  orfaos,       \* history: items whose groups phase 10 took away
  usos          \* history: how much of each bound was used

vars == <<atribuicoes, agrup, itens, run, orfaos, usos>>

Fases == {"atribuicoes", "copia", "geracao"}

Etapas == {"parado", "lido", "resolvendo", "sem_itens", "criando",
           "criando_itens", "truncado", "concluido"}

Item == [cod : Nat, historica : Historicas]

(* anos: _anos_letivos; lidos: groups read; restam: those still to resolve or
   to write; exatos, historicos, ultimo: the indices; novos: the groups with
   their codes.  antes (history): the table when the indices were built.   *)
Run == [fase : Fases, etapa : Etapas, anos : SUBSET Anos,
        lidos : SUBSET Exatas, restam : SUBSET Exatas,
        exatos : SUBSET Linha, historicos : SUBSET Item,
        ultimo : Nat, novos : SUBSET Linha, antes : SUBSET Linha]

Parado == [fase |-> "atribuicoes", etapa |-> "parado", anos |-> {},
           lidos |-> {}, restam |-> {}, exatos |-> {}, historicos |-> {},
           ultimo |-> IdInicial, novos |-> {}, antes |-> {}]

Init ==
  /\ atribuicoes = {} /\ agrup = {} /\ itens = {}
  /\ run = Parado
  /\ orfaos = {}
  /\ usos = [fases |-> 0, falhas |-> 0]

-------------------------------------------------------------------------------

Gastar(uso, limite) ==
  /\ usos[uso] < limite
  /\ usos' = [usos EXCEPT ![uso] = @ + 1]

AnoDe(e) == Ano[Historica[e]]

DosAnos(anos) == {e \in Exatas : AnoDe(e) \in anos}

(* The first batch of the groups still to write. *)
Primeiros(S) == {e \in S : Cardinality({f \in S : f < e}) < Lote}

(* A phase starts and reads the assignments of its years (all the years, or
   those of --anos-letivos): the EOL may hold any groups.                  *)
Ler(fase, anos, lidos) ==
  /\ run.etapa \in {"parado", "concluido"}
  /\ fase # "copia"
  /\ lidos \subseteq DosAnos(anos)
  /\ Gastar("fases", MaxFases)
  /\ run' = [Parado EXCEPT !.fase = fase, !.etapa = "lido", !.anos = anos,
                           !.lidos = lidos]
  /\ UNCHANGED <<atribuicoes, agrup, itens, orfaos>>

-------------------------------------------------------------------------------
(* Phase 4: _executar_atribuicoes_territorio. *)

ApagarAtribuicoes ==
  /\ run.fase = "atribuicoes" /\ run.etapa = "lido"
  /\ atribuicoes' = atribuicoes \ DosAnos(run.anos)
  /\ run' = [run EXCEPT !.etapa = "criando", !.restam = run.lidos]
  /\ UNCHANGED <<agrup, itens, orfaos, usos>>

CriarAtribuicoes ==
  /\ run.fase = "atribuicoes" /\ run.etapa = "criando"
  /\ run.restam # {}
  /\ atribuicoes' = atribuicoes \cup Primeiros(run.restam)
  /\ run' = [run EXCEPT !.restam = @ \ Primeiros(@)]
  /\ UNCHANGED <<agrup, itens, orfaos, usos>>

ConcluirAtribuicoes ==
  /\ run.fase = "atribuicoes" /\ run.etapa = "criando"
  /\ run.restam = {}
  /\ run' = [run EXCEPT !.etapa = "concluido"]
  /\ UNCHANGED <<atribuicoes, agrup, itens, orfaos, usos>>

-------------------------------------------------------------------------------
(* Phase 10: the full refresh from the API EOL. *)

Truncar ==
  /\ run.etapa \in {"parado", "concluido"}
  /\ Gastar("fases", MaxFases)
  /\ agrup' = {}
  /\ orfaos' = itens
  /\ run' = [Parado EXCEPT !.fase = "copia", !.etapa = "truncado"]
  /\ UNCHANGED <<atribuicoes, itens>>

(* Groups as the historic index and the items see them. *)
ItemDe(l) == [cod |-> l.cod, historica |-> Historica[l.exata]]

ItensDe(S) == {ItemDe(l) : l \in S}

Copiar ==
  /\ run.etapa = "truncado"
  /\ agrup' \in SUBSET Oficiais
  /\ orfaos' = orfaos \ ItensDe(agrup')
  /\ run' = [run EXCEPT !.etapa = "concluido"]
  /\ UNCHANGED <<atribuicoes, itens, usos>>

-------------------------------------------------------------------------------
(* Backup phase: _executar_agrupamentos. *)

Maior(S) == CHOOSE n \in S : \A m \in S : m <= n

(* Mutant: the historic index is left empty. *)
MontarIndicesSemHistorico ==
  /\ run.fase = "geracao" /\ run.etapa = "lido"
  /\ run' = [run EXCEPT
       !.etapa = "resolvendo", !.restam = run.lidos \ Unitarias,
       !.ultimo = IF agrup = {} THEN IdInicial
                  ELSE Maior({l.cod : l \in agrup}),
       !.antes = agrup]
  /\ UNCHANGED <<atribuicoes, agrup, itens, orfaos, usos>>

(* montar_indices_agrupamentos_existentes: the rows come in any order; of
   those of a key, one gives the code.                                     *)
MontarIndices ==
  /\ run.fase = "geracao" /\ run.etapa = "lido"
  /\ \E exatos \in SUBSET agrup, historicos \in SUBSET ItensDe(agrup) :
       /\ \A l \in agrup : \E m \in exatos : m.exata = l.exata
       /\ \A l, m \in exatos : l.exata = m.exata => l = m
       /\ \A l \in agrup : \E i \in historicos : i.historica = Historica[l.exata]
       /\ \A i, j \in historicos : i.historica = j.historica => i = j
       /\ run' = [run EXCEPT
            !.etapa = "resolvendo", !.restam = run.lidos \ Unitarias,
            !.exatos = exatos, !.historicos = historicos,
            !.ultimo = IF agrup = {} THEN IdInicial
                       ELSE Maior({l.cod : l \in agrup}),
            !.antes = agrup]
  /\ UNCHANGED <<atribuicoes, agrup, itens, orfaos, usos>>

(* The next group in order. *)
Vez(e) ==
  /\ run.fase = "geracao" /\ run.etapa = "resolvendo"
  /\ e \in run.restam
  /\ \A f \in run.restam : e <= f

NosExatos(e) == \E l \in run.exatos : l.exata = e

NosHistoricos(e) == \E i \in run.historicos : i.historica = Historica[e]

(* resolver_cod_agrupamento: the code of the exact key, that of the historic
   key, or a new one.  Group l has its code: its key enters the indices.   *)
Resolver(l) ==
  run' = [run EXCEPT
    !.restam = @ \ {l.exata},
    !.ultimo = IF NosHistoricos(l.exata) \/ NosExatos(l.exata) THEN @ ELSE l.cod,
    !.exatos = IF NosExatos(l.exata) THEN @ ELSE @ \cup {l},
    !.historicos = IF NosHistoricos(l.exata) THEN @ ELSE @ \cup {ItemDe(l)},
    !.novos = @ \cup {l}]

ReusarExato(e) ==
  /\ Vez(e)
  /\ \E l \in run.exatos : l.exata = e /\ Resolver(l)
  /\ UNCHANGED <<atribuicoes, agrup, itens, orfaos, usos>>

ReusarHistorico(e) ==
  /\ Vez(e)
  /\ ~NosExatos(e)
  /\ \E i \in run.historicos :
       i.historica = Historica[e] /\ Resolver([cod |-> i.cod, exata |-> e])
  /\ UNCHANGED <<atribuicoes, agrup, itens, orfaos, usos>>

NovoId == IF run.ultimo >= IdInicial THEN run.ultimo + 1 ELSE IdInicial + 1

(* Mutant: the last code is not kept. *)
GerarSemAvancar(e) ==
  /\ Vez(e)
  /\ ~NosExatos(e) /\ ~NosHistoricos(e)
  /\ run' = [run EXCEPT !.restam = @ \ {e},
                        !.novos = @ \cup {[cod |-> NovoId, exata |-> e]}]
  /\ UNCHANGED <<atribuicoes, agrup, itens, orfaos, usos>>

GerarNovo(e) ==
  /\ Vez(e)
  /\ ~NosExatos(e) /\ ~NosHistoricos(e)
  /\ Resolver([cod |-> NovoId, exata |-> e])
  /\ UNCHANGED <<atribuicoes, agrup, itens, orfaos, usos>>

(* Items of the years of the run. *)
Velhos(S) == {i \in S : Ano[i.historica] \in run.anos}

(* Mutant: the items are left to the next step. *)
ApagarNenhumItem ==
  /\ run.fase = "geracao" /\ run.etapa = "resolvendo"
  /\ run.restam = {}
  /\ run' = [run EXCEPT !.etapa = "sem_itens"]
  /\ UNCHANGED <<atribuicoes, agrup, itens, orfaos, usos>>

ApagarItens ==
  /\ run.fase = "geracao" /\ run.etapa = "resolvendo"
  /\ run.restam = {}
  /\ itens' = itens \ Velhos(itens)
  /\ orfaos' = orfaos \ Velhos(itens)
  /\ run' = [run EXCEPT !.etapa = "sem_itens"]
  /\ UNCHANGED <<atribuicoes, agrup, usos>>

(* Mutant: the groups are not deleted before the new ones are created. *)
ApagarNadaAgrupado ==
  /\ run.etapa = "sem_itens"
  /\ run' = [run EXCEPT !.etapa = "criando",
                        !.restam = {l.exata : l \in run.novos}]
  /\ UNCHANGED <<atribuicoes, agrup, itens, orfaos, usos>>

ApagarAgrupamentos ==
  /\ run.etapa = "sem_itens"
  /\ agrup' = {l \in agrup : AnoDe(l.exata) \notin run.anos}
  /\ run' = [run EXCEPT !.etapa = "criando",
                        !.restam = {l.exata : l \in run.novos}]
  /\ UNCHANGED <<atribuicoes, itens, orfaos, usos>>

Resolvidos(S) == {l \in run.novos : l.exata \in S}

CriarAgrupamentos ==
  /\ run.fase = "geracao" /\ run.etapa = "criando"
  /\ run.restam # {}
  /\ agrup' = agrup \cup Resolvidos(Primeiros(run.restam))
  /\ run' = [run EXCEPT !.restam = @ \ Primeiros(@)]
  /\ UNCHANGED <<atribuicoes, itens, orfaos, usos>>

PassarAosItens ==
  /\ run.fase = "geracao" /\ run.etapa = "criando"
  /\ run.restam = {}
  /\ run' = [run EXCEPT !.etapa = "criando_itens",
                        !.restam = {l.exata : l \in run.novos}]
  /\ UNCHANGED <<atribuicoes, agrup, itens, orfaos, usos>>

CriarItens ==
  /\ run.etapa = "criando_itens"
  /\ run.restam # {}
  /\ itens' = itens \cup ItensDe(Resolvidos(Primeiros(run.restam)))
  /\ run' = [run EXCEPT !.restam = @ \ Primeiros(@)]
  /\ UNCHANGED <<atribuicoes, agrup, orfaos, usos>>

ConcluirGeracao ==
  /\ run.etapa = "criando_itens"
  /\ run.restam = {}
  /\ run' = [run EXCEPT !.etapa = "concluido"]
  /\ UNCHANGED <<atribuicoes, agrup, itens, orfaos, usos>>

-------------------------------------------------------------------------------

(* A call raises or the process is killed: what was committed stays. *)
Interromper ==
  /\ run.etapa \notin {"parado", "concluido"}
  /\ Gastar("falhas", MaxFalhas)
  /\ run' = Parado
  /\ UNCHANGED <<atribuicoes, agrup, itens, orfaos>>

Avancar ==
  \/ ApagarAtribuicoes \/ CriarAtribuicoes \/ ConcluirAtribuicoes
  \/ Copiar
  \/ MontarIndices
  \/ \E e \in Exatas : ReusarExato(e) \/ ReusarHistorico(e) \/ GerarNovo(e)
  \/ ApagarItens \/ ApagarAgrupamentos \/ CriarAgrupamentos
  \/ PassarAosItens \/ CriarItens \/ ConcluirGeracao

Next ==
  \/ \E fase \in Fases, anos \in SUBSET Anos, lidos \in SUBSET Exatas :
       Ler(fase, anos, lidos)
  \/ Truncar \/ Avancar \/ Interromper

Spec == Init /\ [][Next]_vars
===============================================================================
