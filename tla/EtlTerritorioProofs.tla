-------------------------- MODULE EtlTerritorioProofs --------------------------
(***************************************************************************)
(* Proofs, for all the groups, years, official rows, sizes of a batch and  *)
(* interruptions, that in the table of the groups of Território do Saber a *)
(* code means one group, and that no item is without its group unless      *)
(* phase 10 took the group away.                                           *)
(***************************************************************************)
EXTENDS EtlTerritorioProps, FiniteSetTheorems, TLAPS

(* A table that is not empty has a greatest code. *)
LEMMA MaiorCodigo ==
  ASSUME NEW S \in SUBSET Linha, IsFiniteSet(S), S # {}
  PROVE  \E m \in S : \A l \in S : l.cod <= m.cod
<1> DEFINE ComMaior(X) == \E m \in X : \A l \in X : l.cod <= m.cod
           T == {X \in FiniteSubsetsOf(Linha) : X # {} /\ ~ComMaior(X)}
<1> SUFFICES ASSUME ~ComMaior(S) PROVE FALSE
  OBVIOUS
<1>1. S \in T
  BY DEF FiniteSubsetsOf
<1>2. \A l \in Linha : l.cod \in Nat
  BY DEF Linha
<1>3. PICK X \in T : \A Y \in T : <<Y, X>> \notin StrictSubsetOrdering(Linha)
  <2>1. T # {} /\ T \subseteq FiniteSubsetsOf(Linha)
    BY <1>1
  <2> HIDE DEF T
  <2>2. QED
    BY <2>1, WFMin, FS_StrictSubsetOrderingWellFounded
<1>4. /\ X \in SUBSET Linha /\ IsFiniteSet(X) /\ X # {} /\ ~ComMaior(X)
  BY DEF FiniteSubsetsOf
<1>5. PICK x \in X : TRUE
  BY <1>4
<1> DEFINE Y == X \ {x}
<1>6. IsFiniteSet(Y) /\ Y \in SUBSET Linha
  BY <1>4, FS_RemoveElement
<1>7. <<Y, X>> \in StrictSubsetOrdering(Linha)
  BY <1>4, <1>5, <1>6 DEF StrictSubsetOrdering
<1>8. Y = {} \/ ComMaior(Y)
  BY <1>3, <1>6, <1>7 DEF FiniteSubsetsOf
<1> HIDE DEF T
<1>9. CASE Y = {}
  <2>1. \A l \in X : l = x
    BY <1>9
  <2>2. QED
    BY <1>2, <1>4, <1>5, <2>1
<1>10. CASE ComMaior(Y)
  <2>1. PICK m \in Y : \A l \in Y : l.cod <= m.cod
    BY <1>10
  <2>2. m \in X /\ m.cod \in Nat /\ x.cod \in Nat
    BY <1>2, <1>4, <1>5, <2>1
  <2>3. CASE m.cod <= x.cod
    <3>1. \A l \in X : l.cod <= x.cod
      BY <1>2, <1>4, <2>1, <2>2, <2>3
    <3>2. QED BY <1>4, <1>5, <3>1
  <2>4. CASE x.cod <= m.cod
    <3>1. \A l \in X : l.cod <= m.cod
      BY <1>2, <1>4, <2>1, <2>2, <2>4
    <3>2. QED BY <1>4, <2>2, <3>1
  <2>5. QED BY <2>2, <2>3, <2>4
<1>11. QED
  BY <1>8, <1>9, <1>10

(* The last code an index starts from is that of no smaller a row.            *)
LEMMA UltimoCodigo ==
  ASSUME NEW S \in SUBSET Linha, IsFiniteSet(S), S # {}
  PROVE  /\ Maior({l.cod : l \in S}) \in Nat
         /\ \A l \in S : l.cod <= Maior({k.cod : k \in S})
<1> DEFINE C == {l.cod : l \in S}
<1>1. \E n \in C : \A c \in C : c <= n
  BY MaiorCodigo
<1>2. Maior(C) \in C /\ \A c \in C : c <= Maior(C)
  <2> HIDE DEF C
  <2>1. QED BY <1>1 DEF Maior
<1>3. \A l \in S : l.cod \in Nat
  BY DEF Linha
<1>4. QED
  BY <1>2, <1>3

(* A group and its item. *)
LEMMA ItemTipo ==
  ASSUME NEW S \in SUBSET Linha
  PROVE  /\ ItensDe(S) \subseteq Item
         /\ \A l \in S : ItemDe(l) \in ItensDe(S)
         /\ \A i \in ItensDe(S) :
              \E l \in S : l.cod = i.cod /\ Historica[l.exata] = i.historica
<1>1. \A l \in Linha : Historica[l.exata] \in Historicas /\ l.cod \in Nat
  BY TerritorioAssumption DEF Linha
<1>2. QED
  BY <1>1 DEF ItensDe, ItemDe, Item

(* Tables that agree still do without some of their rows. *)
LEMMA Subconjunto ==
  ASSUME NEW S, NEW T, T \subseteq S, Univoca(S)
  PROVE  Univoca(T)
BY DEF Univoca

(* The rows the API EOL may hold agree.                                       *)
LEMMA OficiaisUnivocas == Univoca(Oficiais)
BY OficiaisAssumption DEF Univoca, Compativeis, Oficial

(* A row agrees with the others when it repeats one of them: the same code    *)
(* and the same historic key.                                                 *)
LEMMA RepeteUnivoca ==
  ASSUME NEW S, Univoca(S), NEW r \in S, NEW l,
         l.cod = r.cod, Historica[l.exata] = Historica[r.exata]
  PROVE  Univoca(S \cup {l})
<1>1. \A m \in S : Compativeis(r, m) /\ Compativeis(m, r)
  BY DEF Univoca
<1>2. \A m \in S : Compativeis(l, m) /\ Compativeis(m, l)
  BY <1>1 DEF Compativeis, Oficial
<1>3. Compativeis(l, l)
  BY DEF Compativeis
<1>4. QED
  BY <1>2, <1>3 DEF Univoca

(* So does one whose code and whose historic key are new.                     *)
LEMMA NovaUnivoca ==
  ASSUME NEW S, Univoca(S), NEW l,
         \A m \in S : /\ m.cod # l.cod
                      /\ Historica[m.exata] # Historica[l.exata]
  PROVE  Univoca(S \cup {l})
BY DEF Univoca, Compativeis

-------------------------------------------------------------------------------
(* Steps that leave the groups and the items alone. *)

(* Phase 4, the beginning and the end of a phase, an interruption: nothing is *)
(* claimed of what the run has in hand.                                       *)
LEMMA SemTabelas ==
  ASSUME TInv, UNCHANGED <<agrup, itens, orfaos>>, atribuicoes' \subseteq Exatas,
         usos' \in [{"fases", "falhas"} -> Nat], run' \in Run,
         IsFiniteSet(run'.novos),
         \/ run'.etapa \in {"parado", "concluido"}
         \/ run'.etapa = "lido" /\ run'.novos = {}
         \/ run'.etapa = "criando" /\ run'.fase = "atribuicoes"
  PROVE  TInv'
<1>1. TypeOK'
  BY DEF TInv, TypeOK
<1>2. TabelasCertas'
  BY DEF TInv, TabelasCertas, Univoca, Compativeis, ItemTemAgrupamento
<1>3. /\ FaseDaEtapa' /\ IndicesCertos' /\ NovosCertos' /\ NovosCriados'
      /\ ItensApagados' /\ NadaResolvido' /\ CopiaOrfa'
  BY DEF FaseDaEtapa, IndicesCertos, NovosCertos, NovosCriados, ItensApagados,
     NadaResolvido, CopiaOrfa, Gerando
<1>4. QED
  BY <1>1, <1>2, <1>3 DEF TInv

(* A run at rest has nothing in hand.                                         *)
LEMMA ParadoTipo ==
  /\ Parado \in Run /\ Parado.etapa = "parado"
  /\ Parado.novos = {} /\ IsFiniteSet(Parado.novos)
<1>1. Parado \in Run
  BY TerritorioAssumption DEF Parado, Run, Fases, Etapas
<1>2. Parado.novos = {} /\ Parado.etapa = "parado"
  BY DEF Parado
<1>3. QED
  BY <1>1, <1>2, FS_EmptySet

(* A phase starts, or is interrupted. *)
LEMMA LerPreserva ==
  ASSUME TInv, NEW fase \in Fases, NEW anos \in SUBSET Anos,
         NEW lidos \in SUBSET Exatas, Ler(fase, anos, lidos)
  PROVE  TInv'
<1> DEFINE r == [Parado EXCEPT !.fase = fase, !.etapa = "lido", !.anos = anos,
                               !.lidos = lidos]
<1>1. r \in Run /\ r.etapa = "lido" /\ r.novos = Parado.novos
  BY ParadoTipo DEF Run, Etapas
<1>2. run' = r /\ UNCHANGED <<atribuicoes, agrup, itens, orfaos>>
  BY DEF Ler
<1>3. usos' \in [{"fases", "falhas"} -> Nat]
  BY DEF Ler, Gastar, TInv, TypeOK
<1>4. atribuicoes' \subseteq Exatas
  BY <1>2 DEF TInv, TypeOK
<1> HIDE DEF r
<1>5. QED
  BY <1>1, <1>2, <1>3, <1>4, ParadoTipo, SemTabelas

(* A call raises or the process is killed. *)
LEMMA InterromperPreserva ==
  ASSUME TInv, Interromper
  PROVE  TInv'
<1>1. run' = Parado /\ UNCHANGED <<atribuicoes, agrup, itens, orfaos>>
  BY DEF Interromper
<1>2. usos' \in [{"fases", "falhas"} -> Nat]
  BY DEF Interromper, Gastar, TInv, TypeOK
<1>3. atribuicoes' \subseteq Exatas
  BY <1>1 DEF TInv, TypeOK
<1>4. QED
  BY <1>1, <1>2, <1>3, ParadoTipo, SemTabelas

(* Phase 4, and the end of the backup phase. *)
LEMMA AtribuicoesPreserva ==
  ASSUME TInv,
         \/ ApagarAtribuicoes \/ CriarAtribuicoes \/ ConcluirAtribuicoes
         \/ ConcluirGeracao
  PROVE  TInv'
<1>1. run \in Run /\ atribuicoes \subseteq Exatas /\ IsFiniteSet(run.novos)
  BY DEF TInv, TypeOK
<1>2. UNCHANGED <<agrup, itens, orfaos, usos>>
  BY DEF ApagarAtribuicoes, CriarAtribuicoes, ConcluirAtribuicoes, ConcluirGeracao
<1>3. /\ atribuicoes' \subseteq Exatas /\ run' \in Run
      /\ run'.novos = run.novos
      /\ \/ run'.etapa = "concluido"
         \/ run'.etapa = "criando" /\ run'.fase = "atribuicoes"
  <2>1. CASE ApagarAtribuicoes
    BY <1>1, <2>1 DEF ApagarAtribuicoes, Run, Etapas
  <2>2. CASE CriarAtribuicoes
    <3>1. Primeiros(run.restam) \subseteq run.restam /\ run.restam \subseteq Exatas
      BY <1>1 DEF Primeiros, Run
    <3>2. QED
      BY <1>1, <2>2, <3>1 DEF CriarAtribuicoes, Run
  <2>3. CASE ConcluirAtribuicoes \/ ConcluirGeracao
    BY <1>1, <2>3 DEF ConcluirAtribuicoes, ConcluirGeracao, Run, Etapas
  <2>4. QED BY <2>1, <2>2, <2>3
<1>4. usos' \in [{"fases", "falhas"} -> Nat]
  BY <1>2 DEF TInv, TypeOK
<1>5. QED
  BY <1>1, <1>2, <1>3, <1>4, SemTabelas

-------------------------------------------------------------------------------
(* Phase 10. *)

(* The groups are truncated: every item is an orphan. *)
LEMMA TruncarPreserva ==
  ASSUME TInv, Truncar
  PROVE  TInv'
<1> DEFINE r == [Parado EXCEPT !.fase = "copia", !.etapa = "truncado"]
<1>1. /\ r \in Run /\ r.etapa = "truncado" /\ r.fase = "copia"
      /\ r.novos = Parado.novos
  BY ParadoTipo DEF Run, Etapas, Fases
<1>2. /\ run' = r /\ agrup' = {} /\ orfaos' = itens
      /\ UNCHANGED <<atribuicoes, itens>>
  BY DEF Truncar
<1> HIDE DEF r
<1>3. TypeOK'
  <2>1. usos' \in [{"fases", "falhas"} -> Nat]
    BY DEF Truncar, Gastar, TInv, TypeOK
  <2>2. QED
    BY <1>1, <1>2, <2>1 DEF TInv, TypeOK
<1>4. TabelasCertas'
  BY <1>2, FS_EmptySet DEF TabelasCertas, Univoca, ItemTemAgrupamento
<1>5. /\ FaseDaEtapa' /\ IndicesCertos' /\ NovosCertos' /\ NovosCriados'
      /\ ItensApagados' /\ NadaResolvido' /\ CopiaOrfa'
  BY <1>1, <1>2 DEF FaseDaEtapa, IndicesCertos, NovosCertos, NovosCriados,
     ItensApagados, NadaResolvido, CopiaOrfa, Gerando
<1>6. QED
  BY <1>1, <1>2, <1>3, <1>4, <1>5, ParadoTipo DEF TInv

(* The rows of the API EOL are copied. *)
LEMMA CopiarPreserva ==
  ASSUME TInv, Copiar
  PROVE  TInv'
<1>1. /\ run.etapa = "truncado" /\ agrup' \in SUBSET Oficiais
      /\ run' = [run EXCEPT !.etapa = "concluido"]
      /\ orfaos' = orfaos \ ItensDe(agrup')
      /\ UNCHANGED <<atribuicoes, itens, usos>>
  BY DEF Copiar
<1>2. /\ run \in Run /\ itens \subseteq orfaos
      /\ agrup' \subseteq Linha
  BY <1>1, OficiaisAssumption DEF TInv, TypeOK, CopiaOrfa
<1>3. run' \in Run /\ run'.etapa = "concluido" /\ run'.novos = run.novos
  BY <1>1, <1>2 DEF Run, Etapas
<1>4. TypeOK'
  BY <1>1, <1>3, OficiaisAssumption DEF TInv, TypeOK
<1>5. TabelasCertas'
  <2>1. IsFiniteSet(agrup')
    BY <1>1, OficiaisAssumption, FS_Subset
  <2>2. \A l, m \in agrup' : Compativeis(l, m)
    BY <1>1, OficiaisUnivocas DEF Univoca
  <2>3. \A i \in itens' \ orfaos' : i \in ItensDe(agrup')
    BY <1>1, <1>2
  <2>4. ItemTemAgrupamento'
    BY <1>1, <1>2, <2>3, ItemTipo DEF ItemTemAgrupamento
  <2>5. QED
    BY <2>1, <2>2, <2>4 DEF TabelasCertas, Univoca, Compativeis
<1>6. /\ FaseDaEtapa' /\ IndicesCertos' /\ NovosCertos' /\ NovosCriados'
      /\ ItensApagados' /\ NadaResolvido' /\ CopiaOrfa'
  BY <1>3 DEF FaseDaEtapa, IndicesCertos, NovosCertos, NovosCriados,
     ItensApagados, NadaResolvido, CopiaOrfa, Gerando
<1>7. QED
  BY <1>3, <1>4, <1>5, <1>6 DEF TInv

-------------------------------------------------------------------------------
(* The backup phase. *)

(* The indices are built of the rows the table holds. *)
LEMMA MontarIndicesPreserva ==
  ASSUME TInv, MontarIndices
  PROVE  TInv'
<1> DEFINE ultimo == IF agrup = {} THEN IdInicial ELSE Maior({l.cod : l \in agrup})
           restam == run.lidos \ Unitarias
<1>1. /\ run.fase = "geracao" /\ run.etapa = "lido"
      /\ UNCHANGED <<atribuicoes, agrup, itens, orfaos, usos>>
  BY DEF MontarIndices
<1>2. PICK exatos \in SUBSET agrup, historicos \in SUBSET ItensDe(agrup) :
        /\ \A l \in agrup : \E i \in historicos : i.historica = Historica[l.exata]
        /\ run' = [run EXCEPT !.etapa = "resolvendo", !.restam = restam,
                              !.exatos = exatos, !.historicos = historicos,
                              !.ultimo = ultimo, !.antes = agrup]
  BY DEF MontarIndices
<1>3. /\ run \in Run /\ agrup \in SUBSET Linha /\ IsFiniteSet(agrup)
      /\ run.novos = {} /\ run.lidos \subseteq Exatas
  BY <1>1 DEF TInv, TypeOK, TabelasCertas, NadaResolvido, Run
<1>4. ultimo \in Nat /\ \A l \in agrup : l.cod <= ultimo
  BY <1>3, UltimoCodigo, TerritorioAssumption
<1>5. exatos \in SUBSET Linha /\ historicos \in SUBSET Item /\ restam \in SUBSET Exatas
  BY <1>3, ItemTipo
<1> HIDE DEF ultimo, restam
<1>6. /\ run' \in Run /\ run'.etapa = "resolvendo" /\ run'.fase = "geracao"
      /\ run'.novos = {} /\ run'.exatos = exatos /\ run'.historicos = historicos
      /\ run'.ultimo = ultimo
  BY <1>1, <1>2, <1>3, <1>4, <1>5 DEF Run, Etapas
<1>7. TypeOK'
  BY <1>1, <1>6 DEF TInv, TypeOK
<1>8. TabelasCertas' /\ IsFiniteSet(run'.novos)
  BY <1>1, <1>6, FS_EmptySet DEF TInv, TabelasCertas, Univoca, Compativeis,
     ItemTemAgrupamento
<1>9. IndicesCertos'
  BY <1>1, <1>2, <1>4, <1>6 DEF IndicesCertos, NosHistoricos
<1>10. NovosCertos'
  <2>1. agrup' \cup run'.novos = agrup
    BY <1>1, <1>6
  <2>2. Univoca(agrup)
    BY DEF TInv, TabelasCertas
  <2>3. QED
    BY <2>1, <2>2 DEF NovosCertos, Univoca, Compativeis
<1>11. /\ FaseDaEtapa' /\ NovosCriados' /\ ItensApagados' /\ NadaResolvido'
       /\ CopiaOrfa'
  BY <1>6 DEF FaseDaEtapa, NovosCriados, ItensApagados, NadaResolvido, CopiaOrfa,
     Gerando
<1>12. QED
  BY <1>7, <1>8, <1>9, <1>10, <1>11 DEF TInv

(* A group gets a code that agrees with those of the table and of the run.    *)
LEMMA ResolverPreserva ==
  ASSUME TInv, Gerando({"resolvendo"}), NEW l \in Linha, Resolver(l),
         UNCHANGED <<atribuicoes, agrup, itens, orfaos, usos>>,
         Univoca((agrup \cup run.novos) \cup {l}),
         IF NosHistoricos(l.exata) \/ NosExatos(l.exata) THEN l.cod <= run.ultimo
         ELSE run.ultimo <= l.cod
  PROVE  TInv'
<1> DEFINE ultimo == IF NosHistoricos(l.exata) \/ NosExatos(l.exata)
                     THEN run.ultimo ELSE l.cod
           exatos == IF NosExatos(l.exata) THEN run.exatos ELSE run.exatos \cup {l}
           historicos == IF NosHistoricos(l.exata) THEN run.historicos
                         ELSE run.historicos \cup {ItemDe(l)}
           restam == run.restam \ {l.exata}
           novos == run.novos \cup {l}
<1>1. run' = [run EXCEPT !.restam = restam, !.ultimo = ultimo, !.exatos = exatos,
                         !.historicos = historicos, !.novos = novos]
  BY DEF Resolver
<1>2. /\ run \in Run /\ run.restam \subseteq Exatas /\ run.exatos \subseteq Linha
      /\ run.historicos \subseteq Item /\ run.novos \subseteq Linha
      /\ run.ultimo \in Nat /\ l.cod \in Nat
  BY DEF TInv, TypeOK, Run, Linha
<1>3. ItemDe(l) \in Item /\ ItemDe(l).historica = Historica[l.exata]
  BY TerritorioAssumption DEF ItemDe, Item, Linha
<1>4. /\ restam \subseteq Exatas /\ ultimo \in Nat /\ exatos \subseteq Linha
      /\ historicos \subseteq Item /\ novos \subseteq Linha
  BY <1>2, <1>3
<1>5. /\ run.exatos \subseteq agrup \cup run.novos
      /\ run.historicos \subseteq ItensDe(agrup \cup run.novos)
      /\ \A m \in agrup \cup run.novos :
           /\ \E i \in run.historicos : i.historica = Historica[m.exata]
           /\ m.cod <= run.ultimo
  BY DEF TInv, IndicesCertos, NosHistoricos
<1>6. ItemDe(l) \in ItensDe(agrup \cup novos)
      /\ ItensDe(agrup \cup run.novos) \subseteq ItensDe(agrup \cup novos)
  BY DEF ItensDe
<1>7. /\ exatos \subseteq agrup \cup novos
      /\ historicos \subseteq ItensDe(agrup \cup novos)
  BY <1>5, <1>6
<1>8. \A m \in agrup \cup novos : \E i \in historicos : i.historica = Historica[m.exata]
  <2>1. \E i \in historicos : i.historica = Historica[l.exata]
    BY <1>3 DEF NosHistoricos
  <2>2. run.historicos \subseteq historicos
    OBVIOUS
  <2> HIDE DEF historicos
  <2>3. QED
    BY <1>5, <2>1, <2>2
<1>9. \A m \in agrup \cup novos : m.cod <= ultimo
  <2>1. run.ultimo <= ultimo /\ l.cod <= ultimo
    BY <1>2
  <2>2. \A m \in agrup \cup run.novos : m.cod \in Nat
    BY <1>2 DEF TInv, TypeOK, Linha
  <2> HIDE DEF ultimo
  <2>3. QED
    BY <1>2, <1>4, <1>5, <2>1, <2>2
<1>10. IsFiniteSet(novos)
  BY FS_AddElement DEF TInv
<1>11. agrup \cup novos = (agrup \cup run.novos) \cup {l}
  OBVIOUS
<1> HIDE DEF ultimo, exatos, historicos, restam, novos
<1>12. /\ run' \in Run /\ run'.etapa = run.etapa /\ run'.fase = run.fase
       /\ run'.novos = novos /\ run'.exatos = exatos
       /\ run'.historicos = historicos /\ run'.ultimo = ultimo
  BY <1>1, <1>2, <1>4 DEF Run
<1>13. run.etapa = "resolvendo" /\ run.fase = "geracao"
  BY DEF Gerando
<1>14. TypeOK'
  BY <1>12 DEF TInv, TypeOK
<1>15. TabelasCertas'
  BY DEF TInv, TabelasCertas, Univoca, Compativeis, ItemTemAgrupamento
<1>16. IndicesCertos'
  BY <1>7, <1>8, <1>9, <1>12 DEF IndicesCertos, NosHistoricos
<1>17. NovosCertos'
  BY <1>11, <1>12 DEF NovosCertos, Univoca, Compativeis
<1>18. /\ FaseDaEtapa' /\ NovosCriados' /\ ItensApagados' /\ NadaResolvido'
       /\ CopiaOrfa'
  BY <1>12, <1>13 DEF FaseDaEtapa, NovosCriados, ItensApagados, NadaResolvido,
     CopiaOrfa, Gerando
<1>19. QED
  BY <1>10, <1>12, <1>14, <1>15, <1>16, <1>17, <1>18 DEF TInv

(* resolver_cod_agrupamento: a code is repeated only for its historic key,    *)
(* and a new one is past all those given.                                     *)
LEMMA ResolverCodigoPreserva ==
  ASSUME TInv, NEW e \in Exatas, ReusarExato(e) \/ ReusarHistorico(e) \/ GerarNovo(e)
  PROVE  TInv'
<1>1. /\ Gerando({"resolvendo"}) /\ run.etapa = "resolvendo"
      /\ UNCHANGED <<atribuicoes, agrup, itens, orfaos, usos>>
  BY DEF ReusarExato, ReusarHistorico, GerarNovo, Vez, Gerando
<1>2. /\ run.exatos \subseteq agrup \cup run.novos
      /\ run.historicos \subseteq ItensDe(agrup \cup run.novos)
      /\ \A m \in agrup \cup run.novos : NosHistoricos(m.exata) /\ m.cod <= run.ultimo
  BY <1>1 DEF TInv, IndicesCertos
<1>3. Univoca(agrup \cup run.novos)
  BY <1>1 DEF TInv, NovosCertos, Gerando
<1>4. agrup \cup run.novos \in SUBSET Linha /\ run.ultimo \in Nat
  BY DEF TInv, TypeOK, Run
<1>5. CASE ReusarExato(e)
  <2>1. PICK l \in run.exatos : l.exata = e /\ Resolver(l)
    BY <1>5 DEF ReusarExato
  <2>2. l \in agrup \cup run.novos /\ l \in Linha
    BY <1>2, <1>4, <2>1
  <2>3. (agrup \cup run.novos) \cup {l} = agrup \cup run.novos
    BY <2>2
  <2>4. NosHistoricos(l.exata) /\ l.cod <= run.ultimo
    BY <1>2, <2>2
  <2>5. QED
    BY <1>1, <1>3, <2>1, <2>2, <2>3, <2>4, ResolverPreserva
<1>6. CASE ReusarHistorico(e)
  <2>1. PICK i \in run.historicos :
          i.historica = Historica[e] /\ Resolver([cod |-> i.cod, exata |-> e])
    BY <1>6 DEF ReusarHistorico
  <2>2. PICK r \in agrup \cup run.novos :
          r.cod = i.cod /\ Historica[r.exata] = i.historica
    BY <1>2, <1>4, <2>1, ItemTipo
  <2>3. PICK l \in Linha : l = [cod |-> i.cod, exata |-> e]
    BY <1>4, <2>2 DEF Linha
  <2>4. l.cod = r.cod /\ l.exata = e /\ Historica[l.exata] = Historica[r.exata]
    BY <2>1, <2>2, <2>3
  <2>5. Univoca((agrup \cup run.novos) \cup {l})
    BY <1>3, <2>4, RepeteUnivoca
  <2>6. NosHistoricos(l.exata) /\ l.cod <= run.ultimo
    BY <1>2, <2>1, <2>4 DEF NosHistoricos
  <2>7. QED
    BY <1>1, <2>1, <2>3, <2>5, <2>6, ResolverPreserva
<1>7. CASE GerarNovo(e)
  <2>1. /\ ~NosExatos(e) /\ ~NosHistoricos(e)
        /\ Resolver([cod |-> NovoId, exata |-> e])
    BY <1>7 DEF GerarNovo
  <2>2. NovoId \in Nat /\ run.ultimo < NovoId
    BY <1>4, TerritorioAssumption DEF NovoId
  <2>3. PICK l \in Linha : l = [cod |-> NovoId, exata |-> e]
    BY <2>2 DEF Linha
  <2>4. l.cod = NovoId /\ l.exata = e
    BY <2>3
  <2>5. ASSUME NEW m \in agrup \cup run.novos
        PROVE  m.cod # l.cod /\ Historica[m.exata] # Historica[l.exata]
    <3>1. m.cod \in Nat /\ m.cod <= run.ultimo
      BY <1>2, <1>4 DEF Linha
    <3>2. Historica[m.exata] # Historica[e]
      BY <1>2, <2>1 DEF NosHistoricos
    <3>3. QED
      BY <1>4, <2>2, <2>4, <3>1, <3>2
  <2>6. Univoca((agrup \cup run.novos) \cup {l})
    BY <1>3, <2>5, NovaUnivoca
  <2>7. run.ultimo <= l.cod
    BY <1>4, <2>2, <2>4
  <2>8. QED
    BY <1>1, <2>1, <2>3, <2>4, <2>6, <2>7, ResolverPreserva
<1>8. QED BY <1>5, <1>6, <1>7

(* A stage of the backup phase that changes only the stage and what is left.  *)
LEMMA TipoDeEtapa ==
  ASSUME TInv, NEW etapa \in Etapas, NEW restam \in SUBSET Exatas,
         \/ run' = [run EXCEPT !.etapa = etapa]
         \/ run' = [run EXCEPT !.etapa = etapa, !.restam = restam]
  PROVE  /\ run' \in Run /\ run'.etapa = etapa /\ run'.fase = run.fase
         /\ run'.novos = run.novos /\ run'.anos = run.anos
         /\ run' = [run EXCEPT !.etapa = etapa] => run'.restam = run.restam
         /\ run' = [run EXCEPT !.etapa = etapa, !.restam = restam]
              => run'.restam = restam
<1>1. run \in Run
  BY DEF TInv, TypeOK
<1>2. QED
  BY <1>1 DEF Run

(* The items of the years of the run go first. *)
LEMMA ApagarItensPreserva ==
  ASSUME TInv, ApagarItens
  PROVE  TInv'
<1>1. /\ run.fase = "geracao" /\ run.etapa = "resolvendo"
      /\ itens' = itens \ Velhos(itens) /\ orfaos' = orfaos \ Velhos(itens)
      /\ run' = [run EXCEPT !.etapa = "sem_itens"]
      /\ UNCHANGED <<atribuicoes, agrup, usos>>
  BY DEF ApagarItens
<1>2. /\ run' \in Run /\ run'.etapa = "sem_itens" /\ run'.fase = "geracao"
      /\ run'.novos = run.novos /\ run'.anos = run.anos
  BY <1>1, TipoDeEtapa DEF Etapas
<1>3. itens' \subseteq itens /\ itens' \ orfaos' \subseteq itens \ orfaos
      /\ orfaos' \subseteq itens'
  BY <1>1 DEF TInv, TypeOK
<1>4. TypeOK'
  BY <1>1, <1>2, <1>3 DEF TInv, TypeOK
<1>5. TabelasCertas'
  BY <1>1, <1>3 DEF TInv, TabelasCertas, Univoca, Compativeis, ItemTemAgrupamento
<1>6. NovosCertos'
  <2>1. Univoca(agrup \cup run.novos)
    BY <1>1 DEF TInv, NovosCertos, Gerando
  <2>2. QED
    BY <1>1, <1>2, <2>1 DEF NovosCertos, Univoca, Compativeis
<1>7. ItensApagados'
  BY <1>1, <1>2 DEF ItensApagados, Velhos
<1>8. /\ FaseDaEtapa' /\ IndicesCertos' /\ NovosCriados' /\ NadaResolvido'
      /\ CopiaOrfa'
  BY <1>2 DEF FaseDaEtapa, IndicesCertos, NovosCriados, NadaResolvido, CopiaOrfa,
     Gerando
<1>9. QED
  BY <1>2, <1>4, <1>5, <1>6, <1>7, <1>8 DEF TInv

(* Then its groups: no item pointed to them any more. *)
LEMMA ApagarAgrupamentosPreserva ==
  ASSUME TInv, ApagarAgrupamentos
  PROVE  TInv'
<1> DEFINE restam == {l.exata : l \in run.novos}
<1>1. /\ run.etapa = "sem_itens"
      /\ agrup' = {l \in agrup : AnoDe(l.exata) \notin run.anos}
      /\ run' = [run EXCEPT !.etapa = "criando", !.restam = restam]
      /\ UNCHANGED <<atribuicoes, itens, orfaos, usos>>
  BY DEF ApagarAgrupamentos
<1>2. run.fase = "geracao" /\ run \in Run /\ run.novos \subseteq Linha
  BY <1>1 DEF TInv, FaseDaEtapa, TypeOK, Run
<1>3. restam \in SUBSET Exatas
  BY <1>2 DEF Linha
<1>4. /\ run' \in Run /\ run'.etapa = "criando" /\ run'.fase = "geracao"
      /\ run'.novos = run.novos /\ run'.restam = restam
  <2> HIDE DEF restam
  <2>1. QED
    BY <1>1, <1>2, <1>3, TipoDeEtapa DEF Etapas
<1>5. agrup' \in SUBSET agrup
  BY <1>1
<1>6. TypeOK'
  BY <1>1, <1>4, <1>5 DEF TInv, TypeOK
<1>7. TabelasCertas'
  <2>1. IsFiniteSet(agrup')
    BY <1>5, FS_Subset DEF TInv, TabelasCertas
  <2>2. \A l, m \in agrup' : Compativeis(l, m)
    BY <1>5 DEF TInv, TabelasCertas, Univoca
  <2>3. ASSUME NEW i \in itens \ orfaos
        PROVE  \E l \in agrup' : l.cod = i.cod /\ Historica[l.exata] = i.historica
    <3>1. PICK l \in agrup : l.cod = i.cod /\ Historica[l.exata] = i.historica
      BY DEF TInv, TabelasCertas, ItemTemAgrupamento
    <3>2. Velhos(itens) = {}
      BY <1>1, <1>2 DEF TInv, ItensApagados, Gerando
    <3>3. Ano[i.historica] \notin run.anos
      BY <3>2 DEF Velhos
    <3>4. l \in agrup'
      BY <1>1, <3>1, <3>3 DEF AnoDe
    <3>5. QED
      BY <3>1, <3>4
  <2>4. QED
    BY <1>1, <2>1, <2>2, <2>3 DEF TabelasCertas, Univoca, Compativeis,
       ItemTemAgrupamento
<1>8. NovosCertos'
  <2>1. Univoca(agrup \cup run.novos)
    BY <1>1, <1>2 DEF TInv, NovosCertos, Gerando
  <2>2. \A l, m \in agrup' \cup run.novos : Compativeis(l, m)
    BY <1>5, <2>1 DEF Univoca
  <2>3. QED
    BY <1>4, <2>2 DEF NovosCertos, Univoca, Compativeis
<1>9. NovosCriados'
  BY <1>4 DEF NovosCriados, Gerando
<1>10. /\ FaseDaEtapa' /\ IndicesCertos' /\ ItensApagados' /\ NadaResolvido'
       /\ CopiaOrfa'
  BY <1>4 DEF FaseDaEtapa, IndicesCertos, ItensApagados, NadaResolvido, CopiaOrfa,
     Gerando
<1>11. QED
  BY <1>4, <1>6, <1>7, <1>8, <1>9, <1>10 DEF TInv

(* The new groups are created, batch by batch, beside those of other years.   *)
LEMMA CriarAgrupamentosPreserva ==
  ASSUME TInv, CriarAgrupamentos
  PROVE  TInv'
<1> DEFINE P == Primeiros(run.restam)
           restam == run.restam \ P
<1>1. /\ run.fase = "geracao" /\ run.etapa = "criando"
      /\ agrup' = agrup \cup Resolvidos(P)
      /\ run' = [run EXCEPT !.restam = restam]
      /\ UNCHANGED <<atribuicoes, itens, orfaos, usos>>
  BY DEF CriarAgrupamentos
<1>2. run \in Run /\ run.novos \subseteq Linha /\ run.restam \subseteq Exatas
  BY DEF TInv, TypeOK, Run
<1>3. restam \in SUBSET Exatas
  BY <1>2
<1> HIDE DEF restam
<1>4. /\ run' \in Run /\ run'.etapa = "criando" /\ run'.fase = "geracao"
      /\ run'.novos = run.novos /\ run'.restam = restam
  BY <1>1, <1>2, <1>3 DEF Run
<1>5. Resolvidos(P) \in SUBSET run.novos
      /\ \A l \in run.novos : l.exata \in P => l \in Resolvidos(P)
  BY DEF Resolvidos
<1> HIDE DEF P
<1>6. TypeOK'
  BY <1>1, <1>2, <1>4, <1>5 DEF TInv, TypeOK
<1>7. Univoca(agrup \cup run.novos)
  BY <1>1 DEF TInv, NovosCertos, Gerando
<1>8. TabelasCertas'
  <2>1. IsFiniteSet(agrup')
    BY <1>1, <1>5, FS_Subset, FS_Union DEF TInv, TabelasCertas
  <2>2. \A l, m \in agrup' : Compativeis(l, m)
    BY <1>1, <1>5, <1>7 DEF Univoca
  <2>3. QED
    BY <1>1, <2>1, <2>2 DEF TInv, TabelasCertas, Univoca, Compativeis,
       ItemTemAgrupamento
<1>9. NovosCertos'
  <2>1. agrup' \cup run.novos = agrup \cup run.novos
    BY <1>1, <1>5
  <2>2. QED
    BY <1>4, <1>7, <2>1 DEF NovosCertos, Univoca, Compativeis
<1>10. NovosCriados'
  <2>1. \A l \in run.novos : l.exata \in run.restam \/ l \in agrup
    BY <1>1 DEF TInv, NovosCriados, Gerando
  <2>2. \A l \in run.novos : l.exata \in restam \/ l \in agrup'
    BY <1>1, <1>5, <2>1 DEF restam
  <2>3. QED
    BY <1>4, <2>2 DEF NovosCriados, Gerando
<1>11. /\ FaseDaEtapa' /\ IndicesCertos' /\ ItensApagados' /\ NadaResolvido'
       /\ CopiaOrfa'
  BY <1>4 DEF FaseDaEtapa, IndicesCertos, ItensApagados, NadaResolvido, CopiaOrfa,
     Gerando
<1>12. QED
  BY <1>4, <1>6, <1>8, <1>9, <1>10, <1>11 DEF TInv

(* The groups are all there: their items can be created. *)
LEMMA PassarAosItensPreserva ==
  ASSUME TInv, PassarAosItens
  PROVE  TInv'
<1> DEFINE restam == {l.exata : l \in run.novos}
<1>1. /\ run.fase = "geracao" /\ run.etapa = "criando" /\ run.restam = {}
      /\ run' = [run EXCEPT !.etapa = "criando_itens", !.restam = restam]
      /\ UNCHANGED <<atribuicoes, agrup, itens, orfaos, usos>>
  BY DEF PassarAosItens
<1>2. restam \in SUBSET Exatas
  BY DEF TInv, TypeOK, Run, Linha
<1> HIDE DEF restam
<1>3. /\ run' \in Run /\ run'.etapa = "criando_itens" /\ run'.fase = "geracao"
      /\ run'.novos = run.novos
  BY <1>1, <1>2, TipoDeEtapa DEF Etapas
<1>4. TypeOK' /\ TabelasCertas'
  BY <1>1, <1>3 DEF TInv, TypeOK, TabelasCertas, Univoca, Compativeis,
     ItemTemAgrupamento
<1>5. NovosCriados'
  BY <1>1, <1>3 DEF TInv, NovosCriados, Gerando
<1>6. /\ FaseDaEtapa' /\ IndicesCertos' /\ NovosCertos' /\ ItensApagados'
      /\ NadaResolvido' /\ CopiaOrfa'
  BY <1>3 DEF FaseDaEtapa, IndicesCertos, NovosCertos, ItensApagados, NadaResolvido,
     CopiaOrfa, Gerando
<1>7. QED
  BY <1>3, <1>4, <1>5, <1>6 DEF TInv

(* An item is created after its group. *)
LEMMA CriarItensPreserva ==
  ASSUME TInv, CriarItens
  PROVE  TInv'
<1> DEFINE R == Resolvidos(Primeiros(run.restam))
           restam == run.restam \ Primeiros(run.restam)
<1>1. /\ run.etapa = "criando_itens"
      /\ itens' = itens \cup ItensDe(R)
      /\ run' = [run EXCEPT !.restam = restam]
      /\ UNCHANGED <<atribuicoes, agrup, orfaos, usos>>
  BY DEF CriarItens
<1>2. /\ run \in Run /\ run.novos \in SUBSET Linha /\ run.restam \subseteq Exatas
      /\ run.fase = "geracao" /\ run.novos \subseteq agrup
  BY <1>1 DEF TInv, TypeOK, Run, FaseDaEtapa, NovosCriados, Gerando
<1>3. restam \in SUBSET Exatas
  BY <1>2
<1> HIDE DEF restam
<1>4. /\ run' \in Run /\ run'.etapa = "criando_itens" /\ run'.fase = "geracao"
      /\ run'.novos = run.novos
  BY <1>1, <1>2, <1>3 DEF Run
<1>5. R \in SUBSET Linha /\ R \subseteq agrup
  BY <1>2 DEF Resolvidos
<1> HIDE DEF R
<1>6. TypeOK'
  BY <1>1, <1>4, <1>5, ItemTipo DEF TInv, TypeOK
<1>7. TabelasCertas'
  <2>1. ASSUME NEW i \in itens' \ orfaos'
        PROVE  \E l \in agrup : l.cod = i.cod /\ Historica[l.exata] = i.historica
    <3>1. CASE i \in itens
      BY <1>1, <3>1 DEF TInv, TabelasCertas, ItemTemAgrupamento
    <3>2. CASE i \in ItensDe(R)
      BY <1>5, <3>2, ItemTipo
    <3>3. QED
      BY <1>1, <3>1, <3>2
  <2>2. QED
    BY <1>1, <2>1 DEF TInv, TabelasCertas, Univoca, Compativeis, ItemTemAgrupamento
<1>8. NovosCriados'
  BY <1>1, <1>2, <1>4 DEF NovosCriados, Gerando
<1>9. /\ FaseDaEtapa' /\ IndicesCertos' /\ NovosCertos' /\ ItensApagados'
      /\ NadaResolvido' /\ CopiaOrfa'
  BY <1>4 DEF FaseDaEtapa, IndicesCertos, NovosCertos, ItensApagados, NadaResolvido,
     CopiaOrfa, Gerando
<1>10. QED
  BY <1>4, <1>6, <1>7, <1>8, <1>9 DEF TInv

-------------------------------------------------------------------------------
(* The tables are empty at the start. *)
LEMMA InitTInv == Init => TInv
<1> SUFFICES ASSUME Init PROVE TInv
  OBVIOUS
<1>1. TypeOK
  BY ParadoTipo DEF Init, TypeOK
<1>2. TabelasCertas
  BY FS_EmptySet DEF Init, TabelasCertas, Univoca, ItemTemAgrupamento
<1>3. /\ FaseDaEtapa /\ IndicesCertos /\ NovosCertos /\ NovosCriados
      /\ ItensApagados /\ NadaResolvido /\ CopiaOrfa
  BY ParadoTipo DEF Init, FaseDaEtapa, IndicesCertos, NovosCertos, NovosCriados,
     ItensApagados, NadaResolvido, CopiaOrfa, Gerando
<1>4. IsFiniteSet(run.novos)
  BY ParadoTipo DEF Init
<1>5. QED
  BY <1>1, <1>2, <1>3, <1>4 DEF TInv

(* Every step keeps the invariant. *)
LEMMA NextTInv == TInv /\ [Next]_vars => TInv'
<1> SUFFICES ASSUME TInv, [Next]_vars PROVE TInv'
  OBVIOUS
<1>1. CASE UNCHANGED vars
  <2>1. TypeOK' /\ TabelasCertas'
    BY <1>1 DEF vars, TInv, TypeOK, TabelasCertas, Univoca, Compativeis,
       ItemTemAgrupamento
  <2>2. /\ FaseDaEtapa' /\ IndicesCertos' /\ NovosCertos' /\ NovosCriados'
        /\ ItensApagados' /\ NadaResolvido' /\ CopiaOrfa' /\ IsFiniteSet(run'.novos)
    BY <1>1 DEF vars, TInv, FaseDaEtapa, IndicesCertos, NosHistoricos, NovosCertos,
       Univoca, Compativeis, NovosCriados, ItensApagados, Velhos, NadaResolvido,
       CopiaOrfa, Gerando
  <2>3. QED
    BY <2>1, <2>2 DEF TInv
<1>2. CASE Avancar
  BY <1>2, AtribuicoesPreserva, CopiarPreserva, MontarIndicesPreserva,
     ResolverCodigoPreserva, ApagarItensPreserva, ApagarAgrupamentosPreserva,
     CriarAgrupamentosPreserva, PassarAosItensPreserva, CriarItensPreserva
     DEF Avancar
<1>3. QED
  BY <1>1, <1>2, LerPreserva, TruncarPreserva, InterromperPreserva DEF Next

(* TInv holds in every reachable state. *)
THEOREM InvarianteDoTerritorio == Spec => []TInv
<1>1. QED
  BY InitTInv, NextTInv, PTL DEF Spec

(* Whatever is interrupted, in the table of the groups a code that            *)
(* resolver_cod_agrupamento gave means one group of components of a class,    *)
(* and the group has no other code than those the API EOL gave it.  Codes of  *)
(* items whose groups phase 10 took away are not in that table.               *)
THEOREM CodigosSeguros == Spec => []CodigosUnivocos
<1>1. TInv => CodigosUnivocos
  <2> SUFFICES ASSUME TInv PROVE CodigosUnivocos
    OBVIOUS
  <2>1. \A l, m \in agrup : Compativeis(l, m)
    BY DEF TInv, TabelasCertas, Univoca
  <2>2. CodigoDeUmaChave
    BY <2>1 DEF CodigoDeUmaChave, Compativeis
  <2>3. ChaveDeUmCodigo
    BY <2>1 DEF ChaveDeUmCodigo, Compativeis, Oficial
  <2>4. QED
    BY <2>2, <2>3 DEF CodigosUnivocos
<1>2. QED
  BY <1>1, InvarianteDoTerritorio, PTL

(* An item never points to a group that is not there: deletions and batches   *)
(* commit one by one, in the order that keeps it so.                          *)
THEOREM ItensSeguros == Spec => []ItemTemAgrupamento
<1>1. TInv => ItemTemAgrupamento
  BY DEF TInv, TabelasCertas
<1>2. QED
  BY <1>1, InvarianteDoTerritorio, PTL

-------------------------------------------------------------------------------
(* What a phase that ends has replaced, and the codes that stay.              *)

(* Phases that start, are interrupted or truncate the groups claim nothing.   *)
LEMMA InicioSubstitui ==
  ASSUME SubstituicaoInv,
         \/ Truncar \/ Copiar \/ Interromper
         \/ \E fase \in Fases, anos \in SUBSET Anos, lidos \in SUBSET Exatas :
              Ler(fase, anos, lidos)
  PROVE  SubstituicaoInv'
<1>1. CASE Truncar
  <2>1. run'.fase = "copia"
    BY <1>1, ParadoTipo DEF Truncar, Run
  <2>2. QED
    BY <2>1 DEF SubstituicaoInv, SoACopiaTrunca, AtribuicoesDoAno,
       GruposResolvidos, GruposDoAno, CodigosMantidos, Gerando
<1>2. CASE Copiar
  <2>1. run.fase = "copia"
    BY <1>2 DEF Copiar, SubstituicaoInv, SoACopiaTrunca
  <2>2. run'.fase = "copia"
    BY <1>2, <2>1 DEF Copiar
  <2>3. QED
    BY <2>2 DEF SubstituicaoInv, SoACopiaTrunca, AtribuicoesDoAno,
       GruposResolvidos, GruposDoAno, CodigosMantidos, Gerando
<1>3. CASE Interromper
  <2>1. run'.fase = "atribuicoes" /\ run'.etapa = "parado" /\ run'.lidos = {}
    BY <1>3 DEF Interromper, Parado
  <2>2. QED
    BY <2>1 DEF SubstituicaoInv, SoACopiaTrunca, AtribuicoesDoAno,
       GruposResolvidos, GruposDoAno, CodigosMantidos, Gerando
<1>4. ASSUME NEW fase \in Fases, NEW anos \in SUBSET Anos,
             NEW lidos \in SUBSET Exatas, Ler(fase, anos, lidos)
      PROVE  SubstituicaoInv'
  <2>1. /\ run'.fase = fase /\ run'.etapa = "lido" /\ run'.anos = anos
        /\ run'.lidos = lidos /\ run'.novos = {}
        /\ lidos \subseteq DosAnos(anos)
    <3>1. /\ run' = [Parado EXCEPT !.fase = fase, !.etapa = "lido",
                                   !.anos = anos, !.lidos = lidos]
          /\ lidos \subseteq DosAnos(anos)
      BY <1>4 DEF Ler
    <3>2. QED
      BY <3>1, ParadoTipo DEF Run
  <2>2. QED
    BY <2>1 DEF SubstituicaoInv, SoACopiaTrunca, AtribuicoesDoAno,
       GruposResolvidos, GruposDoAno, CodigosMantidos, Gerando
<1>5. QED
  BY <1>1, <1>2, <1>3, <1>4

(* Phase 4 deletes its years and writes what it read of them.                 *)
LEMMA AtribuicoesSubstitui ==
  ASSUME TypeOK, SubstituicaoInv,
         ApagarAtribuicoes \/ CriarAtribuicoes \/ ConcluirAtribuicoes
  PROVE  SubstituicaoInv'
<1> DEFINE D == DosAnos(run.anos)
           P == Primeiros(run.restam)
<1>1. run \in Run /\ run.fase = "atribuicoes"
  BY DEF TypeOK, ApagarAtribuicoes, CriarAtribuicoes, ConcluirAtribuicoes
<1>2. /\ run'.fase = "atribuicoes" /\ run'.anos = run.anos
      /\ run'.lidos = run.lidos /\ run'.etapa \in {"criando", "concluido"}
  BY <1>1 DEF ApagarAtribuicoes, CriarAtribuicoes, ConcluirAtribuicoes, Run
<1>3. run.lidos \subseteq D
  BY <1>1 DEF SubstituicaoInv, AtribuicoesDoAno
<1> HIDE DEF D
<1>4. CASE ApagarAtribuicoes
  <2>1. /\ run'.etapa = "criando" /\ run'.restam = run.lidos
        /\ atribuicoes' = atribuicoes \ D
    BY <1>1, <1>4 DEF ApagarAtribuicoes, Run, D
  <2>2. atribuicoes' \cap D = run'.lidos \ run'.restam
    BY <1>2, <2>1
  <2>3. QED
    BY <1>2, <1>3, <2>1, <2>2 DEF AtribuicoesDoAno, SubstituicaoInv,
       SoACopiaTrunca, GruposResolvidos, GruposDoAno, CodigosMantidos, Gerando, D
<1>5. CASE CriarAtribuicoes
  <2>1. /\ run.etapa = "criando" /\ run'.etapa = "criando"
        /\ run'.restam = run.restam \ P /\ atribuicoes' = atribuicoes \cup P
        /\ P \subseteq run.restam
    BY <1>1, <1>5 DEF CriarAtribuicoes, Run, Primeiros
  <2>2. /\ run.restam \subseteq run.lidos
        /\ atribuicoes \cap D = run.lidos \ run.restam
    BY <1>1, <2>1 DEF SubstituicaoInv, AtribuicoesDoAno, D
  <2> HIDE DEF P
  <2>3. /\ run'.restam \subseteq run'.lidos
        /\ atribuicoes' \cap D = run'.lidos \ run'.restam
    BY <1>2, <1>3, <2>1, <2>2
  <2>4. QED
    BY <1>2, <1>3, <2>1, <2>3 DEF AtribuicoesDoAno, SubstituicaoInv,
       SoACopiaTrunca, GruposResolvidos, GruposDoAno, CodigosMantidos, Gerando, D
<1>6. CASE ConcluirAtribuicoes
  <2>1. /\ run.etapa = "criando" /\ run.restam = {}
        /\ run'.etapa = "concluido" /\ atribuicoes' = atribuicoes
    BY <1>1, <1>6 DEF ConcluirAtribuicoes, Run
  <2>2. atribuicoes' \cap D = run'.lidos
    BY <1>1, <1>2, <2>1 DEF SubstituicaoInv, AtribuicoesDoAno, D
  <2>3. QED
    BY <1>2, <1>3, <2>1, <2>2 DEF AtribuicoesDoAno, SubstituicaoInv,
       SoACopiaTrunca, GruposResolvidos, GruposDoAno, CodigosMantidos, Gerando, D
<1>7. QED
  BY <1>4, <1>5, <1>6

(* The backup phase notes the table as it finds it.                           *)
LEMMA MontarIndicesSubstitui ==
  ASSUME TInv, SubstituicaoInv, MontarIndices
  PROVE  SubstituicaoInv'
<1>1. /\ run \in Run /\ run.fase = "geracao" /\ run.etapa = "lido"
      /\ run.novos = {} /\ UNCHANGED agrup
  BY DEF TInv, TypeOK, MontarIndices, NadaResolvido
<1> DEFINE ultimo == IF agrup = {} THEN IdInicial ELSE Maior({l.cod : l \in agrup})
           restam == run.lidos \ Unitarias
<1>2. PICK exatos \in SUBSET agrup, historicos \in SUBSET ItensDe(agrup) :
        /\ \A l \in agrup : \E i \in historicos : i.historica = Historica[l.exata]
        /\ run' = [run EXCEPT !.etapa = "resolvendo", !.restam = restam,
                              !.exatos = exatos, !.historicos = historicos,
                              !.ultimo = ultimo, !.antes = agrup]
  BY DEF MontarIndices
<1> HIDE DEF ultimo, restam
<1>3. /\ run'.fase = "geracao" /\ run'.etapa = "resolvendo"
      /\ run'.anos = run.anos /\ run'.lidos = run.lidos /\ run'.novos = {}
      /\ run'.restam = restam /\ run'.antes = agrup
  BY <1>1, <1>2 DEF Run
<1>4. run.lidos \subseteq DosAnos(run.anos)
  BY <1>1 DEF SubstituicaoInv, GruposResolvidos
<1>5. QED
  BY <1>1, <1>3, <1>4 DEF SubstituicaoInv, SoACopiaTrunca, AtribuicoesDoAno,
     GruposResolvidos, GruposDoAno, CodigosMantidos, Gerando, restam

(* A group is resolved with a code it had, if it had any.                     *)
LEMMA ResolverSubstitui ==
  ASSUME TypeOK, SubstituicaoInv, Gerando({"resolvendo"}), NEW l \in Linha,
         l.exata \in run.restam, Resolver(l), Mantido(l), UNCHANGED agrup
  PROVE  SubstituicaoInv'
<1>1. run \in Run /\ run.fase = "geracao" /\ run.etapa = "resolvendo"
  BY DEF TypeOK, Gerando
<1>2. /\ run'.fase = "geracao" /\ run'.etapa = "resolvendo"
      /\ run'.anos = run.anos /\ run'.lidos = run.lidos
      /\ run'.novos = run.novos \cup {l} /\ run'.restam = run.restam \ {l.exata}
      /\ run'.antes = run.antes
  BY <1>1 DEF Resolver, Run
<1>3. /\ run.lidos \subseteq DosAnos(run.anos)
      /\ \A k, m \in run.novos : k.exata = m.exata => k = m
      /\ run.restam \subseteq run.lidos \ Unitarias
      /\ {k.exata : k \in run.novos} = (run.lidos \ Unitarias) \ run.restam
  BY <1>1 DEF SubstituicaoInv, GruposResolvidos
<1>4. \A k \in run.novos : k.exata # l.exata
  BY <1>3
<1>5. {k.exata : k \in run.novos \cup {l}}
        = {k.exata : k \in run.novos} \cup {l.exata}
  OBVIOUS
<1>6. GruposResolvidos'
  BY <1>2, <1>3, <1>4, <1>5 DEF GruposResolvidos
<1>7. CodigosMantidos'
  <2>1. run.antes = agrup /\ \A k \in run.novos : Mantido(k)
    BY <1>1 DEF SubstituicaoInv, CodigosMantidos, Gerando
  <2>2. \A k \in run.novos \cup {l} : Mantido(k)
    BY <2>1
  <2>3. QED
    BY <1>2, <2>1, <2>2 DEF CodigosMantidos, Mantido
<1>8. QED
  BY <1>2, <1>6, <1>7 DEF SubstituicaoInv, SoACopiaTrunca, AtribuicoesDoAno,
     GruposDoAno, Gerando

(* The code of a historic key in the indices is one it had in the table; a    *)
(* key that the indices do not know was not there.                            *)
LEMMA ResolverCodigoSubstitui ==
  ASSUME TInv, SubstituicaoInv, NEW e \in Exatas,
         ReusarExato(e) \/ ReusarHistorico(e) \/ GerarNovo(e)
  PROVE  SubstituicaoInv'
<1>1. /\ Gerando({"resolvendo"}) /\ e \in run.restam /\ UNCHANGED agrup
      /\ TypeOK
  BY DEF ReusarExato, ReusarHistorico, GerarNovo, Vez, Gerando, TInv
<1>2. /\ run.exatos \subseteq agrup \cup run.novos
      /\ run.historicos \subseteq ItensDe(agrup \cup run.novos)
      /\ \A m \in agrup \cup run.novos : NosHistoricos(m.exata)
      /\ agrup \cup run.novos \in SUBSET Linha /\ run.ultimo \in Nat
  BY <1>1 DEF TInv, IndicesCertos, TypeOK, Run
<1>3. /\ run.antes = agrup
      /\ \A m \in agrup \cup run.novos : Mantido(m)
  BY <1>1 DEF SubstituicaoInv, CodigosMantidos, Gerando, Mantido
<1>4. CASE ReusarExato(e)
  <2>1. PICK l \in run.exatos : l.exata = e /\ Resolver(l)
    BY <1>4 DEF ReusarExato
  <2>2. l \in Linha /\ Mantido(l)
    BY <1>2, <1>3, <2>1
  <2>3. QED
    BY <1>1, <2>1, <2>2, ResolverSubstitui
<1>5. CASE ReusarHistorico(e)
  <2>1. PICK i \in run.historicos :
          i.historica = Historica[e] /\ Resolver([cod |-> i.cod, exata |-> e])
    BY <1>5 DEF ReusarHistorico
  <2>2. PICK r \in agrup \cup run.novos :
          r.cod = i.cod /\ Historica[r.exata] = i.historica
    BY <1>2, <2>1, ItemTipo
  <2>3. PICK l \in Linha : l = [cod |-> i.cod, exata |-> e]
    BY <1>2, <2>2 DEF Linha
  <2>4. l.cod = r.cod /\ l.exata = e /\ Historica[l.exata] = Historica[r.exata]
    BY <2>1, <2>2, <2>3
  <2>5. Mantido(r)
    BY <1>3, <2>2
  <2>6. Mantido(l)
    BY <2>4, <2>5 DEF Mantido
  <2>7. QED
    BY <1>1, <2>1, <2>3, <2>4, <2>6, ResolverSubstitui
<1>6. CASE GerarNovo(e)
  <2>1. ~NosHistoricos(e) /\ Resolver([cod |-> NovoId, exata |-> e])
    BY <1>6 DEF GerarNovo
  <2>2. NovoId \in Nat
    BY <1>2, TerritorioAssumption DEF NovoId
  <2>3. PICK l \in Linha : l = [cod |-> NovoId, exata |-> e]
    BY <2>2 DEF Linha
  <2>4. l.exata = e
    BY <2>3
  <2>5. \A a \in run.antes : Historica[a.exata] # Historica[e]
    BY <1>2, <1>3, <2>1 DEF NosHistoricos
  <2>6. Mantido(l)
    BY <2>4, <2>5 DEF Mantido
  <2>7. QED
    BY <1>1, <2>1, <2>3, <2>4, <2>6, ResolverSubstitui
<1>7. QED
  BY <1>4, <1>5, <1>6

(* Once its groups are resolved the backup phase does not change their codes. *)
LEMMA ResolvidosFicam ==
  ASSUME SubstituicaoInv, run.fase = "geracao", run.etapa # "lido",
         run.etapa = "resolvendo" => run.restam = {},
         run'.fase = run.fase, run'.anos = run.anos, run'.lidos = run.lidos,
         run'.novos = run.novos, run'.antes = run.antes,
         run'.etapa \notin {"lido", "resolvendo", "truncado"},
         agrup' \subseteq agrup \cup run.novos
  PROVE  /\ SoACopiaTrunca' /\ AtribuicoesDoAno' /\ GruposResolvidos'
         /\ CodigosMantidos'
<1>1. SoACopiaTrunca' /\ AtribuicoesDoAno'
  BY DEF SoACopiaTrunca, AtribuicoesDoAno
<1>2. GruposResolvidos'
  BY DEF SubstituicaoInv, GruposResolvidos
<1>3. CodigosMantidos'
  BY DEF SubstituicaoInv, CodigosMantidos, Mantido, Gerando
<1>4. QED
  BY <1>1, <1>2, <1>3

(* The years of a group resolved are those of the run.                        *)
LEMMA NovosDoAno ==
  ASSUME TypeOK, SubstituicaoInv, run.fase = "geracao",
         run.etapa \notin {"lido", "resolvendo"}
  PROVE  \A l \in run.novos : AnoDe(l.exata) \in run.anos
BY DEF SubstituicaoInv, GruposResolvidos, DosAnos

(* The backup phase writes the groups and the items of its years anew.        *)
LEMMA EscritaSubstitui ==
  ASSUME TInv, SubstituicaoInv,
         \/ ApagarItens \/ ApagarAgrupamentos \/ CriarAgrupamentos
         \/ PassarAosItens \/ CriarItens \/ ConcluirGeracao
  PROVE  SubstituicaoInv'
<1> DEFINE P == Primeiros(run.restam)
           novas == {l.exata : l \in run.novos}
<1>0. TypeOK /\ run \in Run /\ run.fase = "geracao" /\ run.etapa # "lido"
  BY DEF TInv, TypeOK, FaseDaEtapa, ApagarItens, ApagarAgrupamentos,
     CriarAgrupamentos, PassarAosItens, CriarItens, ConcluirGeracao
<1> HIDE DEF P, novas
<1>1. /\ run'.fase = "geracao" /\ run'.anos = run.anos /\ run'.lidos = run.lidos
      /\ run'.novos = run.novos /\ run'.antes = run.antes
  <2>1. CASE ApagarItens
    BY <1>0, <2>1 DEF ApagarItens, Run
  <2>2. CASE ApagarAgrupamentos
    BY <1>0, <2>2 DEF ApagarAgrupamentos, Run
  <2>3. CASE CriarAgrupamentos
    BY <1>0, <2>3 DEF CriarAgrupamentos, Run
  <2>4. CASE PassarAosItens
    BY <1>0, <2>4 DEF PassarAosItens, Run
  <2>5. CASE CriarItens
    BY <1>0, <2>5 DEF CriarItens, Run
  <2>6. CASE ConcluirGeracao
    BY <1>0, <2>6 DEF ConcluirGeracao, Run
  <2>7. QED
    BY <2>1, <2>2, <2>3, <2>4, <2>5, <2>6
<1>2. \A l \in run.novos : l.exata \in novas
  BY DEF novas
<1>3. CASE ApagarItens
  <2>1. /\ run.etapa = "resolvendo" /\ run.restam = {}
        /\ run'.etapa = "sem_itens" /\ UNCHANGED agrup
    BY <1>0, <1>3 DEF ApagarItens, Run
  <2>2. GruposDoAno'
    BY <2>1 DEF GruposDoAno, Gerando
  <2>3. QED
    BY <1>0, <1>1, <2>1, <2>2, ResolvidosFicam DEF SubstituicaoInv
<1>4. CASE ApagarAgrupamentos
  <2>1. /\ run.etapa = "sem_itens" /\ run'.etapa = "criando"
        /\ run'.restam = novas /\ UNCHANGED itens
        /\ agrup' = {l \in agrup : AnoDe(l.exata) \notin run.anos}
    BY <1>0, <1>4 DEF ApagarAgrupamentos, Run, novas
  <2>2. DoAno' = {} /\ Escritos' = {}
    BY <1>1, <1>2, <2>1 DEF DoAno, Escritos
  <2>3. Velhos(itens)' = {}
    BY <1>0, <1>1, <2>1 DEF TInv, ItensApagados, Gerando, Velhos
  <2>4. GruposDoAno'
    BY <2>1, <2>2, <2>3 DEF GruposDoAno, Gerando
  <2>5. QED
    BY <1>0, <1>1, <2>1, <2>4, ResolvidosFicam DEF SubstituicaoInv
<1>5. CASE CriarAgrupamentos
  <2>1. /\ run.etapa = "criando" /\ run'.etapa = "criando"
        /\ run'.restam = run.restam \ P /\ UNCHANGED itens
        /\ agrup' = agrup \cup {l \in run.novos : l.exata \in P}
    BY <1>0, <1>5 DEF CriarAgrupamentos, Resolvidos, Run, P
  <2>2. DoAno = Escritos /\ Velhos(itens) = {}
    BY <1>0, <2>1 DEF SubstituicaoInv, GruposDoAno, Gerando
  <2>3. DoAno' = DoAno \cup {l \in run.novos : l.exata \in P}
    BY <1>0, <1>1, <2>1, NovosDoAno DEF DoAno
  <2>4. Escritos' = Escritos \cup {l \in run.novos : l.exata \in P}
    BY <1>1, <2>1 DEF Escritos
  <2>5. Velhos(itens)' = {}
    BY <1>1, <2>1, <2>2 DEF Velhos
  <2>6. GruposDoAno'
    BY <2>1, <2>2, <2>3, <2>4, <2>5 DEF GruposDoAno, Gerando
  <2>7. QED
    BY <1>0, <1>1, <2>1, <2>6, ResolvidosFicam DEF SubstituicaoInv
<1>6. CASE PassarAosItens
  <2>1. /\ run.etapa = "criando" /\ run.restam = {}
        /\ run'.etapa = "criando_itens" /\ run'.restam = novas
        /\ UNCHANGED <<agrup, itens>>
    BY <1>0, <1>6 DEF PassarAosItens, Run, novas
  <2>2. DoAno = Escritos /\ Velhos(itens) = {}
    BY <1>0, <2>1 DEF SubstituicaoInv, GruposDoAno, Gerando
  <2>3. DoAno' = run'.novos
    BY <1>1, <2>1, <2>2 DEF DoAno, Escritos
  <2>4. Escritos' = {}
    BY <1>1, <1>2, <2>1 DEF Escritos
  <2>5. Velhos(itens)' = ItensDe(Escritos')
    BY <1>1, <2>1, <2>2, <2>4 DEF Velhos, ItensDe
  <2>6. GruposDoAno'
    BY <2>1, <2>3, <2>5 DEF GruposDoAno, Gerando
  <2>7. QED
    BY <1>0, <1>1, <2>1, <2>6, ResolvidosFicam DEF SubstituicaoInv
<1>7. CASE CriarItens
  <2> DEFINE R == {l \in run.novos : l.exata \in P}
  <2>1. /\ run.etapa = "criando_itens" /\ run'.etapa = "criando_itens"
        /\ run'.restam = run.restam \ P /\ UNCHANGED agrup
        /\ itens' = itens \cup ItensDe(R)
    BY <1>0, <1>7 DEF CriarItens, Resolvidos, Run, P
  <2>2. DoAno = run.novos /\ Velhos(itens) = ItensDe(Escritos)
    BY <1>0, <2>1 DEF SubstituicaoInv, GruposDoAno, Gerando
  <2>3. DoAno' = run'.novos
    BY <1>1, <2>1, <2>2 DEF DoAno
  <2>4. Escritos' = Escritos \cup R
    BY <1>1, <2>1 DEF Escritos
  <2>5. \A i \in ItensDe(R) : Ano[i.historica] \in run.anos
    BY <1>0, <2>1, NovosDoAno DEF ItensDe, ItemDe, AnoDe
  <2>6. Velhos(itens)' = Velhos(itens) \cup ItensDe(R)
    BY <1>1, <2>1, <2>5 DEF Velhos
  <2>7. ItensDe(Escritos') = ItensDe(Escritos) \cup ItensDe(R)
    BY <2>4 DEF ItensDe
  <2>8. GruposDoAno'
    BY <2>1, <2>2, <2>3, <2>6, <2>7 DEF GruposDoAno, Gerando
  <2>9. QED
    BY <1>0, <1>1, <2>1, <2>8, ResolvidosFicam DEF SubstituicaoInv
<1>8. CASE ConcluirGeracao
  <2>1. /\ run.etapa = "criando_itens" /\ run.restam = {}
        /\ run'.etapa = "concluido" /\ UNCHANGED <<agrup, itens>>
    BY <1>0, <1>8 DEF ConcluirGeracao, Run
  <2>2. DoAno = run.novos /\ Velhos(itens) = ItensDe(Escritos)
    BY <1>0, <2>1 DEF SubstituicaoInv, GruposDoAno, Gerando
  <2>3. Escritos = run.novos
    BY <2>1 DEF Escritos
  <2>4. DoAno' = DoAno /\ Velhos(itens)' = Velhos(itens)
    BY <1>1, <2>1 DEF DoAno, Velhos
  <2>5. GruposDoAno'
    BY <1>1, <2>1, <2>2, <2>3, <2>4 DEF GruposDoAno, Gerando
  <2>6. QED
    BY <1>0, <1>1, <2>1, <2>5, ResolvidosFicam DEF SubstituicaoInv
<1>9. QED
  BY <1>3, <1>4, <1>5, <1>6, <1>7, <1>8

(* Every step keeps what a phase has replaced.                                *)
LEMMA NextSubstitui == TInv /\ SubstituicaoInv /\ [Next]_vars => SubstituicaoInv'
<1> SUFFICES ASSUME TInv, SubstituicaoInv, [Next]_vars
             PROVE  SubstituicaoInv'
  OBVIOUS
<1>1. CASE UNCHANGED vars
  BY <1>1 DEF vars, SubstituicaoInv, SoACopiaTrunca, AtribuicoesDoAno,
     GruposResolvidos, GruposDoAno, DoAno, Escritos, Velhos, CodigosMantidos,
     Mantido, Gerando
<1>2. CASE Avancar
  BY <1>2, AtribuicoesSubstitui, InicioSubstitui, MontarIndicesSubstitui,
     ResolverCodigoSubstitui, EscritaSubstitui DEF Avancar, TInv
<1>3. QED
  BY <1>1, <1>2, InicioSubstitui DEF Next

(* Each phase knows what it has replaced, wherever it is.                     *)
THEOREM SubstituicaoDoTerritorio == Spec => []SubstituicaoInv
<1>1. Init => SubstituicaoInv
  BY DEF Init, Parado, SubstituicaoInv, SoACopiaTrunca, AtribuicoesDoAno,
     GruposResolvidos, GruposDoAno, CodigosMantidos, Gerando
<1>2. QED
  BY <1>1, NextSubstitui, InvarianteDoTerritorio, PTL DEF Spec

(* A group that the table knew keeps one of its codes when the backup phase   *)
(* ends: montar_indices_agrupamentos_existentes forgets none.                 *)
THEOREM CodigosEstaveis == Spec => []CodigoEstavel
<1>1. SubstituicaoInv => CodigoEstavel
  <2> SUFFICES ASSUME SubstituicaoInv, run.etapa = "concluido",
                      run.fase = "geracao", NEW l \in agrup, NEW a \in run.antes,
                      Historica[l.exata] = Historica[a.exata]
               PROVE  \E b \in run.antes :
                        b.cod = l.cod /\ Historica[b.exata] = Historica[l.exata]
    BY DEF CodigoEstavel
  <2>1. /\ agrup \subseteq run.antes \cup run.novos
        /\ \A k \in run.novos : Mantido(k)
    BY DEF SubstituicaoInv, CodigosMantidos
  <2>2. CASE l \in run.antes
    BY <2>2
  <2>3. CASE l \in run.novos
    BY <2>1, <2>3 DEF Mantido
  <2>4. QED
    BY <2>1, <2>2, <2>3
<1>2. QED
  BY <1>1, SubstituicaoDoTerritorio, PTL

(* A phase that ends has replaced its years exactly, whatever was interrupted *)
(* before it.                                                                 *)
THEOREM AnosSubstituidos == Spec => []FaseSubstituiAnos
<1>1. SubstituicaoInv => FaseSubstituiAnos
  <2> SUFFICES ASSUME SubstituicaoInv, run.etapa = "concluido"
               PROVE  FaseSubstituiAnos
    BY DEF FaseSubstituiAnos
  <2>1. CASE run.fase = "atribuicoes"
    BY <2>1 DEF SubstituicaoInv, AtribuicoesDoAno, FaseSubstituiAnos
  <2>2. CASE run.fase = "geracao"
    <3>1. /\ DoAno = run.novos /\ Velhos(itens) = ItensDe(run.novos)
          /\ {l.exata : l \in run.novos} = run.lidos \ Unitarias
          /\ \A l, m \in run.novos : l.exata = m.exata => l = m
      BY <2>2 DEF SubstituicaoInv, GruposDoAno, GruposResolvidos, Gerando
    <3>2. QED
      BY <2>2, <3>1 DEF FaseSubstituiAnos, DoAno
  <2>3. QED
    BY <2>1, <2>2 DEF FaseSubstituiAnos
<1>2. QED
  BY <1>1, SubstituicaoDoTerritorio, PTL
================================================================================
