--------------------------- MODULE EtlDominiosProps ----------------------------
(* What the executions of a domain guarantee about its tables. *)
EXTENDS EtlDominios

(* Every variable has its type. *)
TypeOK ==
  /\ dominio \in Dominios
  /\ origem \in [Anos -> [existe : BOOLEAN, versao : Nat]]
  /\ linhas \in [DOMAIN Fases -> [Anos -> Linha]]
  /\ hashes \in [DOMAIN Fases -> [Anos -> Nat]]
  /\ sso \in [codigo : Nat, cache : Nat, expira : BOOLEAN, ues : [Anos -> Nat]]
  /\ exec \in Execucao
  /\ exec.etapa \in {"aquecendo", "fase", "lendo", "gravado"} =>
       exec.fase \in DOMAIN Fases
  /\ parada \in {0} \cup DOMAIN Fases
  /\ usos \in [{"mudancas", "imprevistos"} -> Nat]

(* No table holds two rows of what is one row in the source, unless its key   *)
(* may be NULL, whatever runs stopped half-way and were run again.            *)
SemDuplicata ==
  \A i \in DOMAIN Fases : \A a \in Anos :
    Fases[i].chave # "nulos" => linhas[i][a].copias <= 1

(* A hash stands for a row the table still holds, no older than the hash: a   *)
(* hash without its row would make every later run skip the row.              *)
HashComLinha ==
  \A i \in DOMAIN Fases : \A a \in Anos :
    hashes[i][a] # Nada =>
      linhas[i][a].copias > 0 /\ linhas[i][a].versao >= hashes[i][a]

(* A table loses rows only in its own phase: the TRUNCATE ... CASCADE of a    *)
(* full refresh reaches no table that another phase loads.                    *)
SoAPropriaFaseApaga ==
  [][\A i \in DOMAIN Fases :
       (\E a \in Anos : linhas'[i][a].copias < linhas[i][a].copias)
         => exec.fase = i]_vars

(* While a run goes on and when it concludes, every table it has loaded holds *)
(* the cohorts it read that were there all along, as they were when the run   *)
(* started or later: no later phase undoes what an earlier one did.           *)
FasesCumpridas ==
  exec.etapa # "parado" =>
    \A i \in DOMAIN Fases : exec.inicio <= i /\ i < exec.fase =>
      \A a \in Lidos(Fases[i].regra, exec.anos) :
        exec.desde[a] # Nada =>
          /\ linhas[i][a].copias > 0
          /\ linhas[i][a].versao >= exec.desde[a]

-------------------------------------------------------------------------------
(* The inductive invariant behind the properties of safety.                   *)

(* Versions grow: nothing is newer than the source, and a cohort that was     *)
(* there all along is still there.                                            *)
VersoesCertas ==
  \A a \in Anos :
    /\ origem[a].versao > 0
    /\ \A i \in DOMAIN Fases : linhas[i][a].versao <= origem[a].versao
    /\ exec.lidas[a] <= origem[a].versao
    /\ exec.desde[a] # Nada =>
         origem[a].existe /\ exec.desde[a] <= origem[a].versao

(* Only an upsert keeps hashes, and it writes the rows before their hashes.   *)
HashesCertos ==
  /\ HashComLinha
  /\ \A i \in DOMAIN Fases : \A a \in Anos :
       hashes[i][a] # Nada => Fases[i].modo = "upsert"
  /\ exec.etapa = "gravado" =>
       /\ F.modo = "upsert"
       /\ \A a \in exec.lote : linhas[exec.fase][a].copias > 0

(* The table of phase i holds cohort a as it was at the start of the run. *)
Cumprida(i, a) ==
  exec.desde[a] # Nada =>
    linhas[i][a].copias > 0 /\ linhas[i][a].versao >= exec.desde[a]

(* A phase under way: the cohorts it has left are those its table lacks, when *)
(* it was emptied, and those in memory, when it substitutes; it has loaded    *)
(* the others.                                                                *)
CargaCerta ==
  exec.etapa \in {"lendo", "gravado"} =>
    /\ F.modo = "full_refresh" =>
         \A a \in exec.restam : linhas[exec.fase][a].copias = 0
    /\ F.modo = "substitui" =>
         \A a \in exec.restam : exec.lidas[a] >= exec.desde[a]
    /\ \A a \in Lidos(F.regra, exec.anos) \ exec.restam :
         Cumprida(exec.fase, a)

DInv ==
  /\ TypeOK /\ VersoesCertas /\ SemDuplicata
  /\ HashesCertos /\ CargaCerta /\ FasesCumpridas

-------------------------------------------------------------------------------
(* A table has what the source holds of the cohorts it reads by default, and  *)
(* one that is loaded anew nothing else.                                      *)
Espelha(i) ==
  \A a \in Padrao[Fases[i].regra] :
    /\ origem[a].existe =>
         linhas[i][a].copias > 0 /\ linhas[i][a].versao = origem[a].versao
    /\ Fases[i].modo # "upsert" /\ ~origem[a].existe =>
         linhas[i][a].copias = 0

(* The schools have the codes of Core SSO, unless the cache keeps old ones    *)
(* for ever.                                                                  *)
CodigosEmDia ==
  dominio = "institucional" /\ sso.expira =>
    \A a \in Anos : origem[a].existe => sso.ues[a] = sso.codigo

(* Once the source stops changing, scheduled runs bring every table, and the  *)
(* codes of the schools, to what the sources hold.                            *)
Converge ==
  []<>(CodigosEmDia /\ \A i \in DOMAIN Fases : Espelha(i))
===============================================================================
