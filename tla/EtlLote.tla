------------------------------- MODULE EtlLote ---------------------------------
(***************************************************************************)
(* The incremental write of a table: a run reads the rows of the source in *)
(* chunks, looks the hash of each row up in etl_auditoria_linha, writes    *)
(* the rows whose hash differs to the destination and then their hashes,   *)
(* which are in another database.  Two engines do it:                      *)
(* PostgresUpsertEngine ("base"), and _upsert_incremental of professores.  *)
(*                                                                         *)
(* A row is a key and a version (its contents); a hash is the version it   *)
(* was computed from.  A step is what a writer does between two accesses   *)
(* to the databases, and a writer may be killed between any two.           *)
(***************************************************************************)
EXTENDS Integers, Sequences, FiniteSets

CONSTANTS
  Chaves,        \* keys of the table
  Versoes,       \* contents a row may have
  Escritores,    \* processes that may write the table at the same time
  Motores,       \* engines: a subset of {"base", "professores"}
  MaxMudancas,   \* bound: changes of the source
  MaxImprevistos \* bound: failures, kills, chunks with two rows of a key and
                 \* deletions from etl_auditoria_linha, together

Nada == 0   \* no row, no hash

ASSUME LoteAssumption ==
  /\ Versoes \subseteq Nat \ {0} /\ Versoes # {}
  /\ IsFiniteSet(Chaves) /\ Chaves # {}
  /\ Motores \subseteq {"base", "professores"} /\ Motores # {}
  /\ MaxMudancas \in Nat /\ MaxImprevistos \in Nat

VARIABLES
  motor,      \* the engine of the table's service
  origem,     \* contents of each row in the source
  destino,    \* contents of each row in the destination table
  hashes,     \* hash of each row in etl_auditoria_linha
  esc,        \* the writers
  atrasadas,  \* history: rows written without their hash having followed
  usos        \* history: how much of each bound was used

vars == <<motor, origem, destino, hashes, esc, atrasadas, usos>>

Etapas == {"parado", "lendo", "lido", "buscado", "gravado"}

(* restam: keys the run has still to read; lote: the rows of the chunk in
   hand, those of a key in the order of the source; existentes: what the
   look-up returned; novos: the hashes to write; primeiro: primeiro_run;
   semHash: ETL_SKIP_AUDIT_HASH.
   duvida (history): keys of the chunk that another writer touched meanwhile,
   or that came twice.                                                     *)
Linhas == {<<v>> : v \in Versoes} \cup {<<u, v>> : u \in Versoes, v \in Versoes}

Vazio == [k \in {} |-> Nada]

SemHashes == [k \in Chaves |-> Nada]

Parcial(S) == UNION {[D -> S] : D \in SUBSET Chaves}

Escritor ==
  [etapa : Etapas, restam : SUBSET Chaves, lote : Parcial(Linhas),
   existentes : [Chaves -> {Nada} \cup Versoes],
   novos : Parcial(Versoes),
   primeiro : BOOLEAN, semHash : BOOLEAN, duvida : SUBSET Chaves]

Parado == [etapa |-> "parado", restam |-> {}, lote |-> Vazio,
           existentes |-> SemHashes,
           novos |-> Vazio,
           primeiro |-> FALSE, semHash |-> FALSE, duvida |-> {}]

Init ==
  /\ motor \in Motores
  /\ origem \in [Chaves -> Versoes]
  /\ destino = [k \in Chaves |-> Nada]
  /\ hashes = [k \in Chaves |-> Nada]
  /\ esc = [p \in Escritores |-> Parado]
  /\ atrasadas = {}
  /\ usos = [mudancas |-> 0, imprevistos |-> 0]

-------------------------------------------------------------------------------
(* Around the writers. *)

Gastar(uso, limite) ==
  /\ usos[uso] < limite
  /\ usos' = [usos EXCEPT ![uso] = @ + 1]

(* A row changes in the source, perhaps to what it was before. *)
MudarOrigem(k, v) ==
  /\ v # origem[k]
  /\ Gastar("mudancas", MaxMudancas)
  /\ origem' = [origem EXCEPT ![k] = v]
  /\ UNCHANGED <<motor, destino, hashes, esc, atrasadas>>

(* Somebody deletes a row of etl_auditoria_linha (auditoria/manutencao.md). *)
ApagarHash(k) ==
  /\ hashes[k] # Nada
  /\ Gastar("imprevistos", MaxImprevistos)
  /\ hashes' = [hashes EXCEPT ![k] = Nada]
  /\ UNCHANGED <<motor, origem, destino, esc, atrasadas>>

-------------------------------------------------------------------------------
(* A writer. *)

Ultima(s) == s[Len(s)]

(* A run starts, with --carga-inicial or not, with --skip-audit-hash or not;
   in professores it may empty the table first (popular_funcionarios).     *)
Iniciar(p) ==
  /\ esc[p].etapa = "parado"
  /\ \E primeiro \in BOOLEAN, semHash \in BOOLEAN, apaga \in BOOLEAN :
       /\ apaga => motor = "professores"
       /\ primeiro => motor = "base"
       /\ destino' = IF apaga THEN [k \in Chaves |-> Nada] ELSE destino
       /\ esc' = [q \in Escritores |->
            IF q = p
            THEN [Parado EXCEPT !.etapa = "lendo", !.restam = Chaves,
                                !.primeiro = primeiro, !.semHash = semHash]
            ELSE IF apaga THEN [esc[q] EXCEPT !.duvida = DOMAIN esc[q].lote]
            ELSE esc[q]]
  /\ UNCHANGED <<motor, origem, hashes, atrasadas, usos>>

(* A chunk with keys D is read and transformed (Transformador, or DTO and
   _linhas_com_hash).  A key may come twice, an older row first; "base" keeps
   the last row, professores does not, so that it vouches for neither.     *)
LerLote(p, D, linhas) ==
  LET repetidas == {k \in D : Len(linhas[k]) > 1}
  IN /\ esc[p].etapa = "lendo"
     /\ D \subseteq esc[p].restam /\ D # {}
     /\ \A k \in D : Ultima(linhas[k]) = origem[k]
     /\ IF repetidas = {} THEN UNCHANGED usos
        ELSE Gastar("imprevistos", MaxImprevistos)
     /\ esc' = [esc EXCEPT ![p] =
          [@ EXCEPT !.etapa = "lido", !.restam = esc[p].restam \ D, !.lote = linhas,
                    !.duvida = IF motor = "base" THEN {} ELSE repetidas]]
     /\ UNCHANGED <<motor, origem, destino, hashes, atrasadas>>

(* Keys in hand of a writer other than p whose hashes are still to come. *)
EmTransito(p) ==
  UNION {DOMAIN esc[q].novos :
         q \in {r \in Escritores \ {p} : esc[r].etapa = "gravado"}}

(* The base engine does not look hashes up in a first run, professores under
   ETL_SKIP_AUDIT_HASH.                                                    *)
SemBusca(p) ==
  IF motor = "base" THEN esc[p].primeiro ELSE esc[p].semHash

(* Mutant: the hashes of the whole chunk are those of the rows read. *)
GravarHashesNaBusca(p) ==
  /\ esc[p].etapa = "lido"
  /\ esc' = [esc EXCEPT ![p] =
       [@ EXCEPT !.etapa = "buscado", !.existentes = hashes]]
  /\ hashes' = [k \in Chaves |-> IF k \in DOMAIN esc[p].lote
                                 THEN Ultima(esc[p].lote[k]) ELSE hashes[k]]
  /\ UNCHANGED <<motor, origem, destino, atrasadas, usos>>

(* buscar_hashes, _buscar_hashes_existentes. *)
Buscar(p) ==
  /\ esc[p].etapa = "lido"
  /\ esc' = [esc EXCEPT ![p] =
       [@ EXCEPT !.etapa = "buscado",
                 !.existentes = IF SemBusca(p) THEN SemHashes ELSE hashes,
                 !.duvida = esc[p].duvida \cup EmTransito(p)]]
  /\ UNCHANGED <<motor, origem, destino, hashes, atrasadas, usos>>

(* Keys whose last row has another hash. *)
PendentesBase(e) ==
  {k \in DOMAIN e.lote : Ultima(e.lote[k]) # e.existentes[k]}

(* Mutant: the first row of a key is kept. *)
DecisaoPrimeira(e) ==
  LET novas == [k \in PendentesBase(e) |-> e.lote[k][1]]
  IN [objs |-> novas, novos |-> novas]

(* dedup keeps the last row of each key. *)
DecisaoBase(e) ==
  LET novas == [k \in PendentesBase(e) |-> Ultima(e.lote[k])]
  IN [objs |-> novas, novos |-> novas]

Menor(S) == CHOOSE i \in S : \A j \in S : i <= j
Maior(S) == CHOOSE i \in S : \A j \in S : j <= i

(* Positions of the rows of key k whose hash differs. *)
Diferentes(e, k) == {i \in DOMAIN e.lote[k] : e.lote[k][i] # e.existentes[k]}

Mudadas(e) == {k \in DOMAIN e.lote : Diferentes(e, k) # {}}

(* Mutant: rows missing in the destination are not looked for. *)
DecisaoSemReinserir(e) ==
  [objs |-> [k \in Mudadas(e) |-> e.lote[k][Menor(Diferentes(e, k))]],
   novos |-> [k \in Mudadas(e) |-> e.lote[k][Maior(Diferentes(e, k))]]]

(* Rows whose hash differs; among them _deduplicar_objetos keeps the first of
   a key and novos_hashes the last.  A row that is the same is written again
   when its key is missing in the destination (_reinsere_se_ausente).      *)
DecisaoProfessores(e) ==
  LET reinsere == {k \in DOMAIN e.lote : /\ Diferentes(e, k) # DOMAIN e.lote[k]
                                         /\ destino[k] = Nada}
  IN [objs |-> [k \in Mudadas(e) \cup reinsere |->
                  IF k \in Mudadas(e) THEN e.lote[k][Menor(Diferentes(e, k))]
                  ELSE e.existentes[k]],
      novos |-> [k \in Mudadas(e) \cup reinsere |->
                   IF k \in reinsere THEN e.existentes[k]
                   ELSE e.lote[k][Maior(Diferentes(e, k))]]]

Decisao(e) == IF motor = "base" THEN DecisaoBase(e) ELSE DecisaoProfessores(e)

(* Nothing is pending: the chunk is done. *)
NadaPendente(p) ==
  /\ esc[p].etapa = "buscado"
  /\ DOMAIN Decisao(esc[p]).objs = {}
  /\ esc' = [esc EXCEPT ![p] =
       [@ EXCEPT !.etapa = "lendo", !.existentes = SemHashes]]
  /\ UNCHANGED <<motor, origem, destino, hashes, atrasadas, usos>>

(* The destination after the rows in r were upserted. *)
Sobrepor(tabela, r) ==
  [k \in Chaves |-> IF k \in DOMAIN r THEN r[k] ELSE tabela[k]]

(* The pending rows are upserted in the destination, in one transaction. *)
Persistir(p) ==
  LET d == Decisao(esc[p])
      K == DOMAIN d.objs
  IN /\ esc[p].etapa = "buscado"
     /\ K # {}
     /\ destino' = Sobrepor(destino, d.objs)
     /\ atrasadas' = atrasadas \cup K
     /\ esc' = [q \in Escritores |->
          IF q = p
          THEN [esc[p] EXCEPT !.etapa = "gravado", !.novos = d.novos,
                              !.existentes = SemHashes,
                              !.duvida = @ \cup EmTransito(p)]
          ELSE IF esc[q].etapa = "lido" THEN esc[q]
          ELSE [esc[q] EXCEPT !.duvida = @ \cup (DOMAIN esc[q].lote \cap K)]]
     /\ UNCHANGED <<motor, origem, hashes, usos>>

(* upsert_bulk, which writes nothing under ETL_SKIP_AUDIT_HASH. *)
GravarHashes(p) ==
  LET e == esc[p]
      K == DOMAIN e.novos
  IN /\ e.etapa = "gravado"
     /\ hashes' = IF e.semHash THEN hashes ELSE Sobrepor(hashes, e.novos)
     /\ atrasadas' = IF e.semHash THEN atrasadas
                     ELSE (atrasadas \ K) \cup (K \cap e.duvida)
     /\ esc' = [esc EXCEPT ![p] =
          [@ EXCEPT !.etapa = "lendo", !.novos = Vazio]]
     /\ UNCHANGED <<motor, origem, destino, usos>>

(* The run ends: every key was read and written. *)
Concluir(p) ==
  /\ esc[p].etapa = "lendo" /\ esc[p].restam = {}
  /\ esc' = [esc EXCEPT ![p] = Parado]
  /\ UNCHANGED <<motor, origem, destino, hashes, atrasadas, usos>>

(* A call raises, its transaction undone, or the process is killed. *)
Falhar(p) ==
  /\ esc[p].etapa # "parado"
  /\ Gastar("imprevistos", MaxImprevistos)
  /\ esc' = [esc EXCEPT ![p] = Parado]
  /\ UNCHANGED <<motor, origem, destino, hashes, atrasadas>>

-------------------------------------------------------------------------------

LerAlgum(p) ==
  \E D \in SUBSET Chaves : \E linhas \in [D -> Linhas] : LerLote(p, D, linhas)

Avancar(p) ==
  \/ LerAlgum(p) \/ Buscar(p) \/ NadaPendente(p)
  \/ Persistir(p) \/ GravarHashes(p) \/ Concluir(p)

Next ==
  \/ \E k \in Chaves : (\E v \in Versoes : MudarOrigem(k, v)) \/ ApagarHash(k)
  \/ \E p \in Escritores : Iniciar(p) \/ Avancar(p) \/ Falhar(p)

Spec == Init /\ [][Next]_vars

(* Runs go on and are scheduled again. *)
FairSpec ==
  Spec /\ \A p \in Escritores : WF_vars(Avancar(p)) /\ WF_vars(Iniciar(p))
===============================================================================
