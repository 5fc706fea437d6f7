------------------------------ MODULE EtlDominios -------------------------------
(***************************************************************************)
(* Executions of a domain's service over the tables of its catalogue: the  *)
(* phases run in order and each one loads its table, cohort by cohort,     *)
(* while the source changes.  A table is loaded by upsert under the hashes *)
(* of etl_auditoria_linha, after TRUNCATE ... CASCADE, or after its years  *)
(* were deleted; constraints of the database may refuse rows; a run may    *)
(* stop between any two steps and a later one starts where it stopped.     *)
(*                                                                         *)
(* All the tables of a domain describe the same entities: a cohort exists  *)
(* in the source or not, and has a version.  In institucional the rows of  *)
(* unidade_educacional also carry a code of Core SSO, through a cache that *)
(* a run from phase 1 fills.                                               *)
(***************************************************************************)
EXTENDS EtlCatalogo, Integers

CONSTANTS
  Dominios,      \* domains: a subset of DOMAIN FasesDe
  Filtros,       \* values of --anos-letivos for each domain, {} when it is
                 \* not given
  MaxMudancas,   \* bound: changes of the source
  MaxImprevistos \* bound: runs interrupted, calls to Core SSO or to the cache
                 \* that fail

Nada == 0   \* no version, no hash, no code

ASSUME DominiosAssumption ==
  /\ Dominios \subseteq DOMAIN FasesDe /\ Dominios # {}
  /\ Filtros \in [Dominios -> SUBSET SUBSET Anos]
  /\ \A d \in Dominios : {} \in Filtros[d]
  /\ MaxMudancas \in Nat /\ MaxImprevistos \in Nat

VARIABLES
  dominio,   \* the domain
  origem,    \* what the source holds of each cohort
  linhas,    \* what the table of each phase holds of it
  hashes,    \* etl_auditoria_linha, for the table of each phase
  sso,       \* codes: in Core SSO, in the cache, and in unidade_educacional
  exec,      \* the execution
  parada,    \* the phase the last execution stopped in, 0 if it concluded
  usos       \* history: how much of each bound was used

vars == <<dominio, origem, linhas, hashes, sso, exec, parada,
          usos>>

Fases == FasesDe[dominio]
F == Fases[exec.fase]

(* copias: rows of the cohort, 2 standing for any number above 1. *)
Linha == [copias : 0..2, versao : Nat]
SemLinha == [copias |-> 0, versao |-> Nada]

Etapas == {"parado", "aquecendo", "fase", "lendo", "gravado", "concluida"}

(* anos: --anos-letivos; restam: cohorts the query has still to return; lote:
   the cohort whose hash is to be written; lidas: what a "substitui" phase
   read; aqueceu: the run filled the cache.  desde (history): versions when
   the run started, Nada for a cohort that did not exist all along; codigos
   (history): the codes in the cache when the run filled it.               *)
Execucao ==
  [etapa : Etapas, fase : 0..16, inicio : 0..15,
   anos : SUBSET Anos, restam : SUBSET Anos, lote : SUBSET Anos,
   lidas : [Anos -> Nat], aqueceu : BOOLEAN, desde : [Anos -> Nat]]

Nenhuma == [a \in Anos |-> Nada]

Parado ==
  [etapa |-> "parado", fase |-> 0, inicio |-> 0, anos |-> {}, restam |-> {},
   lote |-> {}, lidas |-> Nenhuma, aqueceu |-> FALSE, desde |-> Nenhuma]

(* The current year may not have begun in the source. *)
Init ==
  /\ dominio \in Dominios
  /\ \E aberto \in BOOLEAN :
       origem = [a \in Anos |-> [existe |-> a = "anterior" \/ aberto,
                                versao |-> 1]]
  /\ linhas = [i \in DOMAIN Fases |-> [a \in Anos |-> SemLinha]]
  /\ hashes = [i \in DOMAIN Fases |-> Nenhuma]
  /\ sso = [codigo |-> 1, cache |-> Nada, expira |-> TRUE, ues |-> Nenhuma]
  /\ exec = Parado
  /\ parada = 0
  /\ usos = [mudancas |-> 0, imprevistos |-> 0]

-------------------------------------------------------------------------------
(* Around the executions. *)

Gastar(uso, limite) ==
  /\ usos[uso] < limite
  /\ usos' = [usos EXCEPT ![uso] = @ + 1]

(* Rows of a cohort change, appear, or go. *)
MudarOrigem(a, existe) ==
  /\ origem[a].existe \/ existe
  /\ Gastar("mudancas", MaxMudancas)
  /\ origem' = [origem EXCEPT ![a] = [existe |-> existe,
                                      versao |-> @.versao + 1]]
  /\ exec' = IF existe THEN exec ELSE [exec EXCEPT !.desde[a] = Nada]
  /\ UNCHANGED <<dominio, linhas, hashes, sso, parada>>

(* Core SSO gives the schools other codes. *)
MudarCodigos ==
  /\ dominio = "institucional"
  /\ Gastar("mudancas", MaxMudancas)
  /\ sso' = [sso EXCEPT !.codigo = @ + 1]
  /\ UNCHANGED <<dominio, origem, linhas, hashes, exec, parada>>

(* The key of the cache expires; it outlives the run that filled it. *)
Expirar ==
  /\ sso.cache # Nada /\ sso.expira /\ ~exec.aqueceu
  /\ sso' = [sso EXCEPT !.cache = Nada]
  /\ UNCHANGED <<dominio, origem, linhas, hashes, exec, parada, usos>>

-------------------------------------------------------------------------------
(* An execution. *)

(* The command runs the service from phase 1, or from where the last run
   stopped, with --anos-letivos or not.                                    *)
Iniciar(inicio, anos) ==
  /\ exec.etapa = "parado"
  /\ inicio = 1 \/ inicio = parada
  /\ anos # {} => dominio # "institucional"
  /\ exec' = [Parado EXCEPT
       !.etapa = IF dominio = "institucional" /\ inicio = 1
                 THEN "aquecendo" ELSE "fase",
       !.fase = inicio, !.inicio = inicio, !.anos = anos,
       !.desde = [a \in Anos |-> IF origem[a].existe
                                 THEN origem[a].versao ELSE Nada]]
  /\ parada' = 0
  /\ UNCHANGED <<dominio, origem, linhas, hashes, sso, usos>>

(* _popular_cache_integracao_ue: a key that is there is left alone. *)
CacheQuente ==
  /\ exec.etapa = "aquecendo" /\ sso.cache # Nada
  /\ exec' = [exec EXCEPT !.etapa = "fase"]
  /\ UNCHANGED <<dominio, origem, linhas, hashes, sso, parada, usos>>

Aquecer ==
  /\ exec.etapa = "aquecendo" /\ sso.cache = Nada
  /\ exec' = [exec EXCEPT !.etapa = "fase", !.aqueceu = TRUE]
  /\ sso' = [sso EXCEPT !.cache = sso.codigo, !.expira = TRUE]
  /\ UNCHANGED <<dominio, origem, linhas, hashes, parada, usos>>

(* The source, Core SSO or the cache fails: the run goes on without codes, or
   with a key that never expires (HSET and EXPIRE are two calls).          *)
AquecerComFalha ==
  /\ exec.etapa = "aquecendo" /\ sso.cache = Nada
  /\ Gastar("imprevistos", MaxImprevistos)
  /\ exec' = [exec EXCEPT !.etapa = "fase"]
  /\ \/ UNCHANGED sso
     \/ sso' = [sso EXCEPT !.cache = sso.codigo, !.expira = FALSE]
  /\ UNCHANGED <<dominio, origem, linhas, hashes, parada>>

(* Tables that TRUNCATE ... CASCADE of the table of the phase empties. *)
Cascata ==
  {exec.fase} \cup {i \in DOMAIN Fases : F.tabela \in Fases[i].refs}

Esvaziar(T, A) ==
  [i \in DOMAIN Fases |-> [a \in Anos |->
     IF i \in T /\ a \in A THEN SemLinha ELSE linhas[i][a]]]

(* _executar_fase starts the load of its table, which a full refresh with
   truncate_on_full_sync empties.                                          *)
ComecarFase ==
  /\ exec.etapa = "fase" /\ F.modo # "substitui"
  /\ LET T == IF F.modo = "full_refresh" /\ F.trunca
              THEN Cascata ELSE {}
     IN /\ linhas' = Esvaziar(T, Anos)
        /\ sso' = IF \E i \in T : Fases[i].depende = ComCache
                  THEN [sso EXCEPT !.ues = Nenhuma] ELSE sso
  /\ exec' = [exec EXCEPT !.etapa = "lendo",
                          !.restam = Lidos(F.regra, exec.anos)]
  /\ UNCHANGED <<dominio, origem, hashes, parada, usos>>

(* _executar_atribuicoes_territorio: what was read is in memory when the rows
   of its years are deleted.                                               *)
Substituir ==
  /\ exec.etapa = "fase" /\ F.modo = "substitui"
  /\ LET A == Lidos(F.regra, exec.anos)
     IN /\ linhas' = Esvaziar({exec.fase}, A)
        /\ exec' = [exec EXCEPT
             !.etapa = "lendo", !.restam = A,
             !.lidas = [a \in Anos |-> IF a \in A /\ origem[a].existe
                                       THEN origem[a].versao ELSE Nada]]
  /\ UNCHANGED <<dominio, origem, hashes, sso, parada, usos>>

(* The version of the cohort the phase has in hand. *)
Versao(a) ==
  IF F.modo = "substitui" THEN exec.lidas[a]
  ELSE IF origem[a].existe THEN origem[a].versao ELSE Nada

(* Every row is written, whatever its hash: truncate_on_full_sync, or a hash
   taken from an object with the hour of the run.                          *)
Regrava == F.modo # "upsert" \/ F.trunca \/ F.depende = ComHora

(* Cohorts come in the order of their years. *)
Vez(a) ==
  /\ exec.etapa = "lendo" /\ a \in exec.restam
  /\ a = "corrente" => "anterior" \notin exec.restam

(* Mutant: a row that has a hash is taken to be up to date. *)
PendenteSeNova(a) ==
  /\ Versao(a) # Nada
  /\ Regrava \/ hashes[exec.fase][a] = Nada

(* The rows of a are pending. *)
Pendente(a) ==
  /\ Versao(a) # Nada
  /\ Regrava \/ hashes[exec.fase][a] # Versao(a)

(* Nothing to write of cohort a. *)
Ignorar(a) ==
  /\ Vez(a) /\ ~Pendente(a)
  /\ exec' = [exec EXCEPT !.restam = @ \ {a}]
  /\ UNCHANGED <<dominio, origem, linhas, hashes, sso, parada, usos>>

(* Constraints the rows of a would break: a row they refer to is missing, or
   the key is there and the mode does not update.                          *)
Recusada(a) ==
  \/ \E i \in DOMAIN Fases :
       Fases[i].tabela \in F.refs /\ linhas[i][a].copias = 0
  \/ F.modo # "upsert" /\ F.chave = "unica" /\ linhas[exec.fase][a].copias > 0

(* Rows of a after the write: an upsert updates the row of its key, an insert
   and the upsert of a row whose key has NULLs add one.  The rows of a key
   that may have NULLs are taken to have them.                             *)
Copias(a) ==
  IF \/ linhas[exec.fase][a].copias = 0
     \/ F.modo = "upsert" /\ F.chave = "unica"
  THEN 1 ELSE 2

(* _persistir: the rows of cohort a are written. *)
Escrever(a) ==
  /\ Vez(a) /\ Pendente(a) /\ ~Recusada(a)
  /\ linhas' = [linhas EXCEPT ![exec.fase][a] =
                  [copias |-> Copias(a), versao |-> Versao(a)]]
  /\ sso' = IF F.depende = ComCache
            THEN [sso EXCEPT !.ues[a] = sso.cache] ELSE sso
  /\ exec' = [exec EXCEPT
       !.restam = @ \ {a},
       !.etapa = IF F.modo = "upsert" THEN "gravado" ELSE "lendo",
       !.lote = IF F.modo = "upsert" THEN {a} ELSE {}]
  /\ UNCHANGED <<dominio, origem, hashes, parada, usos>>

(* Mutant: the hashes are taken from the source as it is now. *)
GravarHashesDaOrigem ==
  /\ exec.etapa = "gravado"
  /\ hashes' = [hashes EXCEPT ![exec.fase] =
       [a \in Anos |-> IF a \in exec.lote THEN origem[a].versao ELSE @[a]]]
  /\ exec' = [exec EXCEPT !.etapa = "lendo", !.lote = {}]
  /\ UNCHANGED <<dominio, origem, linhas, sso, parada, usos>>

(* upsert_bulk: their hashes follow. *)
GravarHashes ==
  /\ exec.etapa = "gravado"
  /\ hashes' = [hashes EXCEPT ![exec.fase] =
       [a \in Anos |-> IF a \in exec.lote
                       THEN linhas[exec.fase][a].versao ELSE @[a]]]
  /\ exec' = [exec EXCEPT !.etapa = "lendo", !.lote = {}]
  /\ UNCHANGED <<dominio, origem, linhas, sso, parada, usos>>

(* The phase is done: the next one, or the end. *)
TerminarFase ==
  /\ exec.etapa = "lendo" /\ exec.restam = {}
  /\ exec' = [exec EXCEPT
       !.fase = @ + 1, !.lidas = Nenhuma,
       !.etapa = IF exec.fase = Len(Fases) THEN "concluida" ELSE "fase"]
  /\ UNCHANGED <<dominio, origem, linhas, hashes, sso, parada, usos>>

Encerrar ==
  /\ exec.etapa = "concluida"
  /\ exec' = Parado
  /\ UNCHANGED <<dominio, origem, linhas, hashes, sso, parada, usos>>

(* The run stops in its phase. *)
Parar ==
  /\ exec' = Parado
  /\ parada' = exec.fase
  /\ UNCHANGED <<dominio, origem, linhas, hashes, sso>>

(* The database refuses the rows of a: IntegrityError. *)
FalharIntegridade(a) ==
  /\ Vez(a) /\ Pendente(a) /\ Recusada(a)
  /\ Parar
  /\ UNCHANGED usos

(* Any other error, or the death of the process. *)
Interromper ==
  /\ exec.etapa \in {"fase", "lendo", "gravado"}
  /\ Gastar("imprevistos", MaxImprevistos)
  /\ Parar

-------------------------------------------------------------------------------

Avancar ==
  \/ CacheQuente \/ Aquecer \/ AquecerComFalha
  \/ ComecarFase \/ Substituir
  \/ \E a \in Anos : Ignorar(a) \/ Escrever(a) \/ FalharIntegridade(a)
  \/ GravarHashes \/ TerminarFase \/ Encerrar

Next ==
  \/ \E a \in Anos, existe \in BOOLEAN : MudarOrigem(a, existe)
  \/ MudarCodigos \/ Expirar
  \/ \E inicio \in {1, parada} \ {0}, anos \in Filtros[dominio] :
       Iniciar(inicio, anos)
  \/ Avancar \/ Interromper

Spec == Init /\ [][Next]_vars

(* A run goes on; the scheduled run, from phase 1 and of every year, comes
   again and again; the cache expires.                                     *)
FairSpec ==
  /\ Spec
  /\ WF_vars(Avancar)
  /\ SF_vars(Iniciar(1, {}))
  /\ SF_vars(Expirar)
===============================================================================
