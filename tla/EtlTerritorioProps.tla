-------------------------- MODULE EtlTerritorioProps ---------------------------
(* What the phases of Território do Saber guarantee of their tables. *)
EXTENDS EtlTerritorio

(* Every variable has its type. *)
TypeOK ==
  /\ atribuicoes \subseteq Exatas
  /\ agrup \subseteq Linha
  /\ itens \subseteq Item /\ orfaos \subseteq itens
  /\ run \in Run
  /\ usos \in [{"fases", "falhas"} -> Nat]

(* A code of the contract means one group of components of a class: in the    *)
(* table of the groups no code that resolver_cod_agrupamento generates is     *)
(* that of another group, whatever was interrupted before.                    *)
CodigoDeUmaChave ==
  \A l, m \in agrup : l.cod = m.cod => Historica[l.exata] = Historica[m.exata]

(* Groups that differ in teacher or date only have the same code, except for  *)
(* codes the API EOL gave them.                                               *)
ChaveDeUmCodigo ==
  \A l, m \in agrup :
    Historica[l.exata] = Historica[m.exata] =>
      \/ l.cod = m.cod
      \/ \A n \in {l, m} :
           \E o \in Oficiais :
             o.cod = n.cod /\ Historica[o.exata] = Historica[n.exata]

(* In the table of the groups, a group has one code and a code has one group. *)
(* It says nothing of the codes of items whose groups phase 10 took away: see *)
(* CodigoSoDeUmGrupo.                                                         *)
CodigosUnivocos == CodigoDeUmaChave /\ ChaveDeUmCodigo

(* Items are deleted before their groups and created after them: an item never *)
(* points to a group that is not there, except after phase 10 has truncated    *)
(* the groups alone and not brought its group back.                            *)
ItemTemAgrupamento ==
  \A i \in itens \ orfaos :
    \E l \in agrup : l.cod = i.cod /\ Historica[l.exata] = i.historica

(* "Carrega índices de agrupamentos existentes e o maior ID gerado."          *)
(* (agrupamentos.py:82): no group has the code of another one's item.  The    *)
(* maximum is taken of the table of the groups, which phase 10 truncates, and *)
(* the items it leaves there still hold greater codes, which are given again. *)
CodigoSoDeUmGrupo ==
  \A l \in agrup, i \in itens : l.cod = i.cod => Historica[l.exata] = i.historica

(* When the backup phase ends, a group the table knew before under its         *)
(* historic key still has one of the codes it had (glossario.md: "Quando há    *)
(* histórico equivalente, o ETL reutiliza o código").                          *)
CodigoEstavel ==
  run.etapa = "concluido" /\ run.fase = "geracao" =>
    \A l \in agrup, a \in run.antes :
      Historica[l.exata] = Historica[a.exata] =>
        \E b \in run.antes :
          b.cod = l.cod /\ Historica[b.exata] = Historica[l.exata]

(* A phase that ends has replaced its years exactly: each group read has one   *)
(* row and its item, and nothing of those years is left from before.           *)
FaseSubstituiAnos ==
  run.etapa = "concluido" =>
    /\ run.fase = "atribuicoes" => atribuicoes \cap DosAnos(run.anos) = run.lidos
    /\ run.fase = "geracao" =>
         LET doAno == {l \in agrup : AnoDe(l.exata) \in run.anos}
         IN /\ doAno = run.novos
            /\ {l.exata : l \in doAno} = run.lidos \ Unitarias
            /\ \A l, m \in doAno : l.exata = m.exata => l = m
            /\ Velhos(itens) = ItensDe(doAno)

-------------------------------------------------------------------------------
(* The inductive invariant behind CodigosUnivocos and ItemTemAgrupamento.     *)

(* The API EOL gave the group its code. *)
Oficial(n) ==
  \E o \in Oficiais : o.cod = n.cod /\ Historica[o.exata] = Historica[n.exata]

Compativeis(l, m) ==
  /\ l.cod = m.cod => Historica[l.exata] = Historica[m.exata]
  /\ Historica[l.exata] = Historica[m.exata] =>
       l.cod = m.cod \/ (Oficial(l) /\ Oficial(m))

Univoca(S) == \A l, m \in S : Compativeis(l, m)

TabelasCertas == IsFiniteSet(agrup) /\ Univoca(agrup) /\ ItemTemAgrupamento

Gerando(etapas) == run.fase = "geracao" /\ run.etapa \in etapas

FaseDaEtapa ==
  run.etapa \in {"resolvendo", "sem_itens", "criando_itens"} => run.fase = "geracao"

(* The indices hold the codes of the table and those given since, and know    *)
(* every historic key; the last code is the greatest.                         *)
IndicesCertos ==
  Gerando({"resolvendo"}) =>
    /\ run.exatos \subseteq agrup \cup run.novos
    /\ run.historicos \subseteq ItensDe(agrup \cup run.novos)
    /\ \A l \in agrup \cup run.novos : NosHistoricos(l.exata) /\ l.cod <= run.ultimo

(* The new groups agree with those an interruption would leave beside them.   *)
NovosCertos ==
  Gerando({"resolvendo", "sem_itens", "criando"}) => Univoca(agrup \cup run.novos)

NovosCriados ==
  /\ Gerando({"criando"}) =>
       \A l \in run.novos : l.exata \in run.restam \/ l \in agrup
  /\ Gerando({"criando_itens"}) => run.novos \subseteq agrup

ItensApagados == Gerando({"sem_itens"}) => Velhos(itens) = {}

NadaResolvido == run.etapa = "lido" => run.novos = {}

CopiaOrfa == run.etapa = "truncado" => itens \subseteq orfaos

TInv ==
  /\ TypeOK /\ TabelasCertas
  /\ IsFiniteSet(run.novos) /\ FaseDaEtapa /\ IndicesCertos /\ NovosCertos
  /\ NovosCriados /\ ItensApagados /\ NadaResolvido /\ CopiaOrfa

-------------------------------------------------------------------------------
(* What more is needed for CodigoEstavel and FaseSubstituiAnos.               *)

(* Rows of the years of the run, and those of them that are written. *)
DoAno == {l \in agrup : AnoDe(l.exata) \in run.anos}

Escritos == {l \in run.novos : l.exata \notin run.restam}

(* Phase 4: of its years the table holds what was read and is written.        *)
AtribuicoesDoAno ==
  run.fase = "atribuicoes" =>
    /\ run.lidos \subseteq DosAnos(run.anos)
    /\ run.etapa = "criando" =>
         /\ run.restam \subseteq run.lidos
         /\ atribuicoes \cap DosAnos(run.anos) = run.lidos \ run.restam
    /\ run.etapa = "concluido" => atribuicoes \cap DosAnos(run.anos) = run.lidos

(* Each group read and resolved has one code.                                 *)
GruposResolvidos ==
  run.fase = "geracao" =>
    /\ run.lidos \subseteq DosAnos(run.anos)
    /\ \A l, m \in run.novos : l.exata = m.exata => l = m
    /\ run.etapa = "resolvendo" =>
         /\ run.restam \subseteq run.lidos \ Unitarias
         /\ {l.exata : l \in run.novos} = (run.lidos \ Unitarias) \ run.restam
    /\ run.etapa \notin {"lido", "resolvendo"} =>
         {l.exata : l \in run.novos} = run.lidos \ Unitarias

(* Of its years the tables hold the groups and the items that are written.    *)
GruposDoAno ==
  /\ Gerando({"criando"}) => DoAno = Escritos /\ Velhos(itens) = {}
  /\ Gerando({"criando_itens"}) =>
       DoAno = run.novos /\ Velhos(itens) = ItensDe(Escritos)
  /\ Gerando({"concluido"}) =>
       DoAno = run.novos /\ Velhos(itens) = ItensDe(run.novos)

(* A group that was in the table has a code it had. *)
Mantido(l) ==
  \A a \in run.antes :
    Historica[l.exata] = Historica[a.exata] =>
      \E b \in run.antes : b.cod = l.cod /\ Historica[b.exata] = Historica[l.exata]

CodigosMantidos ==
  /\ Gerando({"resolvendo"}) => run.antes = agrup
  /\ run.fase = "geracao" /\ run.etapa # "lido" =>
       /\ agrup \subseteq run.antes \cup run.novos
       /\ \A l \in run.novos : Mantido(l)

SoACopiaTrunca == run.etapa = "truncado" => run.fase = "copia"

SubstituicaoInv ==
  /\ SoACopiaTrunca /\ AtribuicoesDoAno
  /\ GruposResolvidos /\ GruposDoAno /\ CodigosMantidos
================================================================================
