----------------------------- MODULE EtlLoteProofs -----------------------------
(***************************************************************************)
(* Proofs, for every table, number of writers, changes of the source and   *)
(* failures, that the incremental write keeps its types, that a hash whose *)
(* write was not cut short describes its row, and that a chunk that is     *)
(* done is in the destination.                                             *)
(***************************************************************************)
EXTENDS EtlLoteProps, TLAPS

(* The rows of a key are one or two versions. *)
LEMMA LinhaMedida ==
  ASSUME NEW s \in Linhas
  PROVE  /\ DOMAIN s = 1..Len(s) /\ Len(s) \in {1, 2}
         /\ \A i \in DOMAIN s : s[i] \in Versoes
         /\ Ultima(s) \in Versoes
<1>1. \/ \E v \in Versoes : s = <<v>>
      \/ \E u, v \in Versoes : s = <<u, v>>
  BY DEF Linhas
<1>2. ASSUME NEW v \in Versoes, s = <<v>>
      PROVE  /\ DOMAIN s = 1..Len(s) /\ Len(s) = 1
             /\ s[1] \in Versoes
  BY <1>2
<1>3. ASSUME NEW u \in Versoes, NEW v \in Versoes, s = <<u, v>>
      PROVE  /\ DOMAIN s = 1..Len(s) /\ Len(s) = 2
             /\ s[1] \in Versoes /\ s[2] \in Versoes
  BY <1>3
<1>4. QED
  BY <1>1, <1>2, <1>3 DEF Ultima

(* What a writer has in hand. *)
LEMMA EscritorTipo ==
  ASSUME NEW e \in Escritor
  PROVE  /\ DOMAIN e.lote \subseteq Chaves
         /\ \A k \in DOMAIN e.lote : e.lote[k] \in Linhas
         /\ DOMAIN e.novos \subseteq Chaves
         /\ \A k \in DOMAIN e.novos : e.novos[k] \in Versoes
         /\ e.existentes \in [Chaves -> {Nada} \cup Versoes]
<1>1. /\ e.lote \in Parcial(Linhas) /\ e.novos \in Parcial(Versoes)
      /\ e.existentes \in [Chaves -> {Nada} \cup Versoes]
  BY DEF Escritor
<1>2. PICK D \in SUBSET Chaves : e.lote \in [D -> Linhas]
  BY <1>1 DEF Parcial
<1>3. PICK N \in SUBSET Chaves : e.novos \in [N -> Versoes]
  BY <1>1 DEF Parcial
<1>4. QED
  BY <1>1, <1>2, <1>3

(* No version is the mark of what is missing. *)
LEMMA VersaoExiste == \A v \in Versoes : v # Nada
BY LoteAssumption DEF Nada

(* The first and the last position of a set of them. *)
LEMMA Extremos ==
  ASSUME NEW S \in SUBSET {1, 2}, S # {}
  PROVE  Menor(S) \in S /\ Maior(S) \in S
<1>0. \A j \in S : j = 1 \/ j = 2
  OBVIOUS
<1>1. \E n \in S : \A j \in S : n <= j
  <2>1. CASE 1 \in S
    BY <1>0, <2>1
  <2>2. CASE 1 \notin S
    <3>1. 2 \in S /\ \A j \in S : j = 2
      BY <1>0, <2>2
    <3>2. QED BY <3>1
  <2>3. QED BY <2>1, <2>2
<1>2. \E n \in S : \A j \in S : j <= n
  <2>1. CASE 2 \in S
    BY <1>0, <2>1
  <2>2. CASE 2 \notin S
    <3>1. 1 \in S /\ \A j \in S : j = 1
      BY <1>0, <2>2
    <3>2. QED BY <3>1
  <2>3. QED BY <2>1, <2>2
<1>3. QED
  BY <1>1, <1>2 DEF Menor, Maior

(* The rows to write and the hashes to write are of the same keys. *)
LEMMA DecisaoTipo ==
  ASSUME NEW e \in Escritor
  PROVE  /\ DOMAIN Decisao(e).objs \subseteq DOMAIN e.lote
         /\ Decisao(e).objs \in [DOMAIN Decisao(e).objs -> Versoes]
         /\ Decisao(e).novos \in [DOMAIN Decisao(e).objs -> Versoes]
<1>1. \A k \in DOMAIN e.lote : e.lote[k] \in Linhas
  BY EscritorTipo
<1>2. CASE motor = "base"
  <2>1. \A k \in PendentesBase(e) : k \in DOMAIN e.lote /\ Ultima(e.lote[k]) \in Versoes
    BY <1>1, LinhaMedida DEF PendentesBase
  <2>2. QED
    BY <1>2, <2>1 DEF Decisao, DecisaoBase
<1>3. CASE motor # "base"
  <2> DEFINE reinsere == {k \in DOMAIN e.lote : /\ Diferentes(e, k) # DOMAIN e.lote[k]
                                                /\ destino[k] = Nada}
  <2>1. ASSUME NEW k \in Mudadas(e)
        PROVE  /\ k \in DOMAIN e.lote
               /\ e.lote[k][Menor(Diferentes(e, k))] \in Versoes
               /\ e.lote[k][Maior(Diferentes(e, k))] \in Versoes
    <3>1. k \in DOMAIN e.lote /\ Diferentes(e, k) # {}
      BY DEF Mudadas
    <3>2. /\ DOMAIN e.lote[k] \subseteq {1, 2}
          /\ \A i \in DOMAIN e.lote[k] : e.lote[k][i] \in Versoes
      BY <1>1, <3>1, LinhaMedida
    <3>3. Diferentes(e, k) \subseteq DOMAIN e.lote[k]
      BY DEF Diferentes
    <3>4. QED
      BY <3>1, <3>2, <3>3, Extremos
  <2>2. ASSUME NEW k \in reinsere
        PROVE  k \in DOMAIN e.lote /\ e.existentes[k] \in Versoes
    <3>1. PICK i \in DOMAIN e.lote[k] : e.lote[k][i] = e.existentes[k]
      BY DEF Diferentes
    <3>2. QED
      BY <1>1, <3>1, LinhaMedida
  <2>3. Decisao(e) = DecisaoProfessores(e)
    BY <1>3 DEF Decisao
  <2>4. /\ Decisao(e).objs = [k \in Mudadas(e) \cup reinsere |->
                  IF k \in Mudadas(e) THEN e.lote[k][Menor(Diferentes(e, k))]
                  ELSE e.existentes[k]]
        /\ Decisao(e).novos = [k \in Mudadas(e) \cup reinsere |->
                   IF k \in reinsere THEN e.existentes[k]
                   ELSE e.lote[k][Maior(Diferentes(e, k))]]
    BY <2>3 DEF DecisaoProfessores
  <2> HIDE DEF reinsere
  <2>5. QED
    BY <2>1, <2>2, <2>4
<1>4. QED BY <1>2, <1>3

(* Of a key that is not in doubt, the last row is written with its hash, or   *)
(* the look-up had returned it.                                               *)
LEMMA DecisaoUltima ==
  ASSUME TypeOK, NEW e \in Escritor, RepetidasEmDuvida(e),
         NEW k \in DOMAIN e.lote, k \notin e.duvida
  PROVE  /\ k \in DOMAIN Decisao(e).objs =>
              /\ Decisao(e).objs[k] = Ultima(e.lote[k])
              /\ Decisao(e).novos[k] = Ultima(e.lote[k])
         /\ k \notin DOMAIN Decisao(e).objs =>
              /\ e.existentes[k] = Ultima(e.lote[k])
              /\ motor = "professores" => destino[k] # Nada
<1>1. e.lote[k] \in Linhas
  BY EscritorTipo
<1>2. motor \in {"base", "professores"}
  BY LoteAssumption DEF TypeOK
<1>3. CASE motor = "base"
  BY <1>3 DEF Decisao, DecisaoBase, PendentesBase
<1>4. CASE motor = "professores"
  <2>1. Len(e.lote[k]) = 1 /\ DOMAIN e.lote[k] = {1}
    BY <1>1, <1>4, LinhaMedida DEF RepetidasEmDuvida
  <2>2. Ultima(e.lote[k]) = e.lote[k][1]
    BY <2>1 DEF Ultima
  <2>3. Diferentes(e, k) = IF e.lote[k][1] # e.existentes[k] THEN {1} ELSE {}
    BY <2>1 DEF Diferentes
  <2>4. k \in Mudadas(e) <=> e.lote[k][1] # e.existentes[k]
    BY <2>3 DEF Mudadas
  <2>5. k \in Mudadas(e) => Menor(Diferentes(e, k)) = 1 /\ Maior(Diferentes(e, k)) = 1
    <3>1. {1} \in SUBSET {1, 2} /\ {1} # {}
      OBVIOUS
    <3>2. Menor({1}) = 1 /\ Maior({1}) = 1
      BY <3>1, Extremos
    <3>3. QED
      BY <2>3, <2>4, <3>2
  <2>6. k \in Mudadas(e) => Diferentes(e, k) = DOMAIN e.lote[k]
    BY <2>1, <2>3, <2>4
  <2>7. k \notin Mudadas(e) => Diferentes(e, k) # DOMAIN e.lote[k]
    BY <2>1, <2>3, <2>4
  <2>8. Decisao(e) = DecisaoProfessores(e)
    BY <1>4 DEF Decisao
  <2> DEFINE reinsere == {j \in DOMAIN e.lote : /\ Diferentes(e, j) # DOMAIN e.lote[j]
                                                /\ destino[j] = Nada}
  <2>9. /\ Decisao(e).objs = [j \in Mudadas(e) \cup reinsere |->
                  IF j \in Mudadas(e) THEN e.lote[j][Menor(Diferentes(e, j))]
                  ELSE e.existentes[j]]
        /\ Decisao(e).novos = [j \in Mudadas(e) \cup reinsere |->
                   IF j \in reinsere THEN e.existentes[j]
                   ELSE e.lote[j][Maior(Diferentes(e, j))]]
    BY <2>8 DEF DecisaoProfessores
  <2>10. CASE k \in Mudadas(e)
    <3>1. k \notin reinsere
      BY <2>6, <2>10
    <3> HIDE DEF reinsere
    <3>2. QED
      BY <2>2, <2>5, <2>9, <2>10, <3>1
  <2>11. CASE k \notin Mudadas(e)
    <3>1. k \in reinsere <=> destino[k] = Nada
      BY <2>7, <2>11
    <3> HIDE DEF reinsere
    <3>2. QED
      BY <2>2, <2>4, <2>9, <2>11, <3>1
  <2>12. QED BY <2>10, <2>11
<1>5. QED BY <1>2, <1>3, <1>4

-------------------------------------------------------------------------------
(* Steps that write no table. *)

(* The keys in transit are those of other writers.                            *)
LEMMA TransitoDosOutros ==
  ASSUME NEW p \in Escritores, NEW k
  PROVE  k \in EmTransito(p) <=>
           \E q \in Escritores \ {p} :
             esc[q].etapa = "gravado" /\ k \in DOMAIN esc[q].novos
BY DEF EmTransito

(* A writer goes to a stage that owes no hash, and no table changes.          *)
LEMMA SoEscritor ==
  ASSUME LInv, NEW p \in Escritores, NEW e \in Escritor,
         esc' = [esc EXCEPT ![p] = e], e.etapa # "gravado",
         UNCHANGED <<motor, origem, destino, hashes, atrasadas>>,
         usos' \in [{"mudancas", "imprevistos"} -> Nat],
         RepetidasEmDuvida(e), BuscaFiel(e), LoteFiel(e),
         e.etapa \in {"buscado", "lendo"} =>
           DOMAIN e.lote \cap EmTransito(p) \subseteq e.duvida
  PROVE  LInv'
<1>1. /\ esc \in [Escritores -> Escritor] /\ esc'[p] = e
      /\ \A q \in Escritores \ {p} : esc'[q] = esc[q]
  BY DEF LInv, TypeOK
<1>2. TypeOK'
  BY DEF LInv, TypeOK
<1>3. HashFiel' /\ HashTemLinha'
  BY DEF LInv, HashFiel, HashTemLinha
<1>4. \A q \in Escritores : EmTransito(q)' \subseteq EmTransito(q)
  BY <1>1 DEF EmTransito
<1>5. EscritaFiel(p)'
  BY <1>1, <1>4 DEF EscritaFiel, RepetidasEmDuvida, TransitoEmDuvida, BuscaFiel,
     GravacaoFiel, LoteFiel
<1>6. ASSUME NEW q \in Escritores \ {p}
      PROVE  EscritaFiel(q)'
  <2>1. EscritaFiel(q) /\ esc'[q] = esc[q]
    BY <1>1 DEF LInv
  <2>2. QED
    BY <1>4, <2>1 DEF EscritaFiel, RepetidasEmDuvida, TransitoEmDuvida, BuscaFiel,
       GravacaoFiel, LoteFiel
<1>7. QED
  BY <1>2, <1>3, <1>5, <1>6 DEF LInv

(* A writer at rest has nothing in hand.                                      *)
LEMMA ParadoTipo ==
  Parado \in Escritor /\ Parado.etapa = "parado" /\ DOMAIN Parado.lote = {}
<1>1. ASSUME NEW S PROVE Vazio \in Parcial(S)
  <2>1. Vazio \in [{} -> S]
    BY DEF Vazio
  <2>2. QED
    BY <2>1 DEF Parcial
<1>2. SemHashes \in [Chaves -> {Nada} \cup Versoes]
  BY DEF SemHashes
<1>3. DOMAIN Vazio = {}
  BY DEF Vazio
<1>4. "parado" \in Etapas
  BY DEF Etapas
<1>5. QED
  BY <1>1, <1>2, <1>3, <1>4 DEF Parado, Escritor

(* A run that ends, fails or dies.                                            *)
LEMMA PararPreserva ==
  ASSUME LInv, NEW p \in Escritores, Concluir(p) \/ Falhar(p)
  PROVE  LInv'
<1>1. Parado \in Escritor /\ Parado.etapa = "parado" /\ DOMAIN Parado.lote = {}
  BY ParadoTipo
<1>2. /\ esc' = [esc EXCEPT ![p] = Parado]
      /\ UNCHANGED <<motor, origem, destino, hashes, atrasadas>>
  BY DEF Concluir, Falhar
<1>3. usos' \in [{"mudancas", "imprevistos"} -> Nat]
  BY DEF Concluir, Falhar, Gastar, LInv, TypeOK
<1>4. RepetidasEmDuvida(Parado) /\ BuscaFiel(Parado) /\ LoteFiel(Parado)
  BY <1>1 DEF RepetidasEmDuvida, BuscaFiel, LoteFiel
<1>5. QED
  BY <1>1, <1>2, <1>3, <1>4, SoEscritor

(* A chunk is read.                                                           *)
LEMMA LerPreserva ==
  ASSUME LInv, NEW p \in Escritores, LerAlgum(p)
  PROVE  LInv'
<1>0. PICK D \in SUBSET Chaves : \E linhas \in [D -> Linhas] : LerLote(p, D, linhas)
  BY DEF LerAlgum
<1>1. PICK linhas \in [D -> Linhas] : LerLote(p, D, linhas)
  BY <1>0
<1> DEFINE rep == {k \in D : Len(linhas[k]) > 1}
           duvida == IF motor = "base" THEN {} ELSE rep
           e == [esc[p] EXCEPT !.etapa = "lido", !.restam = esc[p].restam \ D, !.lote = linhas,
                               !.duvida = duvida]
<1>2. esc[p] \in Escritor
  BY DEF LInv, TypeOK
<1>3. linhas \in Parcial(Linhas) /\ duvida \in SUBSET Chaves /\ "lido" \in Etapas
  BY DEF Parcial, Etapas
<1>4. /\ e \in Escritor /\ e.etapa = "lido" /\ e.lote = linhas
      /\ e.duvida = duvida
  <2> HIDE DEF duvida
  <2>1. QED BY <1>2, <1>3 DEF Escritor
<1>5. /\ esc' = [esc EXCEPT ![p] = e]
      /\ UNCHANGED <<motor, origem, destino, hashes, atrasadas>>
  BY <1>1 DEF LerLote
<1>6. usos' \in [{"mudancas", "imprevistos"} -> Nat]
  BY <1>1 DEF LerLote, Gastar, LInv, TypeOK
<1>7. RepetidasEmDuvida(e)
  <2>1. DOMAIN linhas = D
    OBVIOUS
  <2>2. QED
    BY <1>4, <2>1 DEF RepetidasEmDuvida
<1> HIDE DEF e
<1>8. BuscaFiel(e) /\ LoteFiel(e)
  BY <1>4 DEF BuscaFiel, LoteFiel
<1>9. QED
  BY <1>4, <1>5, <1>6, <1>7, <1>8, SoEscritor

(* The hashes of the chunk are looked up: what they say of a row that is not  *)
(* in doubt is true.                                                          *)
LEMMA BuscarPreserva ==
  ASSUME LInv, NEW p \in Escritores, Buscar(p)
  PROVE  LInv'
<1> DEFINE existentes == IF SemBusca(p) THEN SemHashes ELSE hashes
           e == [esc[p] EXCEPT !.etapa = "buscado", !.existentes = existentes,
                               !.duvida = esc[p].duvida \cup EmTransito(p)]
<1>1. esc \in [Escritores -> Escritor] /\ esc[p] \in Escritor
  BY DEF LInv, TypeOK
<1>2. EmTransito(p) \subseteq Chaves
  <2>1. ASSUME NEW k \in EmTransito(p) PROVE k \in Chaves
    <3>1. PICK q \in Escritores : k \in DOMAIN esc[q].novos
      BY TransitoDosOutros
    <3>2. QED
      BY <1>1, <3>1, EscritorTipo
  <2>2. QED BY <2>1
<1>3. existentes \in [Chaves -> {Nada} \cup Versoes] /\ "buscado" \in Etapas
  BY DEF LInv, TypeOK, SemHashes, Etapas
<1>4. /\ e \in Escritor /\ e.etapa = "buscado" /\ e.lote = esc[p].lote
      /\ e.duvida = esc[p].duvida \cup EmTransito(p)
      /\ e.existentes = existentes
  <2> HIDE DEF existentes
  <2>1. QED BY <1>1, <1>2, <1>3 DEF Escritor
<1>5. /\ esc' = [esc EXCEPT ![p] = e]
      /\ UNCHANGED <<motor, origem, destino, hashes, atrasadas, usos>>
  BY DEF Buscar
<1> HIDE DEF e
<1>6. RepetidasEmDuvida(e) /\ LoteFiel(e)
  <2>1. RepetidasEmDuvida(esc[p])
    BY DEF LInv, EscritaFiel
  <2>2. QED
    BY <1>4, <2>1 DEF RepetidasEmDuvida, LoteFiel
<1>7. BuscaFiel(e)
  <2>1. ASSUME NEW k \in DOMAIN e.lote
        PROVE  /\ motor = "base" /\ e.existentes[k] # Nada => destino[k] # Nada
               /\ k \notin atrasadas =>
                    e.existentes[k] = Nada \/ destino[k] \in {Nada, e.existentes[k]}
    <3>1. k \in Chaves
      BY <1>4, EscritorTipo
    <3>2. e.existentes[k] = Nada \/ e.existentes[k] = hashes[k]
      BY <1>4, <3>1 DEF SemHashes
    <3>3. QED
      BY <3>1, <3>2 DEF LInv, HashFiel, HashTemLinha
  <2>2. QED
    BY <2>1 DEF BuscaFiel
<1>8. QED
  BY <1>4, <1>5, <1>6, <1>7, SoEscritor DEF LInv, TypeOK

(* A chunk with nothing to write is already in the destination.               *)
LEMMA NadaPendentePreserva ==
  ASSUME LInv, NEW p \in Escritores, NadaPendente(p)
  PROVE  LInv'
<1> DEFINE e == [esc[p] EXCEPT !.etapa = "lendo", !.existentes = SemHashes]
<1>1. esc[p] \in Escritor /\ TypeOK
  BY DEF LInv, TypeOK
<1>2. SemHashes \in [Chaves -> {Nada} \cup Versoes] /\ "lendo" \in Etapas
  BY DEF SemHashes, Etapas
<1>3. /\ e \in Escritor /\ e.etapa = "lendo" /\ e.lote = esc[p].lote
      /\ e.duvida = esc[p].duvida
  BY <1>1, <1>2 DEF Escritor
<1>4. /\ esc' = [esc EXCEPT ![p] = e]
      /\ UNCHANGED <<motor, origem, destino, hashes, atrasadas, usos>>
      /\ esc[p].etapa = "buscado" /\ DOMAIN Decisao(esc[p]).objs = {}
  BY DEF NadaPendente
<1> HIDE DEF e
<1>5. RepetidasEmDuvida(esc[p]) /\ BuscaFiel(esc[p]) /\ TransitoEmDuvida(p)
  BY DEF LInv, EscritaFiel
<1>6. RepetidasEmDuvida(e) /\ BuscaFiel(e)
  BY <1>3, <1>5 DEF RepetidasEmDuvida, BuscaFiel
<1>7. LoteFiel(e)
  <2>1. ASSUME NEW k \in DOMAIN e.lote \ (atrasadas \cup e.duvida)
        PROVE  destino[k] = Ultima(e.lote[k])
    <3>1. k \in DOMAIN esc[p].lote /\ k \notin atrasadas \cup esc[p].duvida
      BY <1>3
    <3>2. /\ esc[p].existentes[k] = Ultima(esc[p].lote[k])
          /\ motor = "professores" => destino[k] # Nada
      BY <1>1, <1>4, <1>5, <3>1, DecisaoUltima
    <3>3. Ultima(esc[p].lote[k]) # Nada
      BY <1>1, <3>1, EscritorTipo, LinhaMedida, VersaoExiste
    <3>4. motor \in {"base", "professores"}
      BY <1>1, LoteAssumption DEF TypeOK
    <3>5. QED
      BY <1>3, <1>4, <1>5, <3>1, <3>2, <3>3, <3>4 DEF BuscaFiel
  <2>2. QED
    BY <2>1 DEF LoteFiel
<1>8. QED
  BY <1>3, <1>4, <1>5, <1>6, <1>7, SoEscritor DEF TransitoEmDuvida, LInv, TypeOK

-------------------------------------------------------------------------------
(* Steps that change a table. *)

(* The source changes, or a hash is deleted: no row is described wrongly.     *)
LEMMA ForaDosEscritores ==
  ASSUME LInv, NEW k \in Chaves,
         (\E v \in Versoes : MudarOrigem(k, v)) \/ ApagarHash(k)
  PROVE  LInv'
<1>1. UNCHANGED <<motor, destino, esc, atrasadas>>
  BY DEF MudarOrigem, ApagarHash
<1>2. TypeOK'
  <2>1. usos' \in [{"mudancas", "imprevistos"} -> Nat]
    BY DEF MudarOrigem, ApagarHash, Gastar, LInv, TypeOK
  <2>2. origem' \in [Chaves -> Versoes] /\ hashes' \in [Chaves -> {Nada} \cup Versoes]
    BY DEF MudarOrigem, ApagarHash, LInv, TypeOK
  <2>3. QED
    BY <1>1, <2>1, <2>2 DEF LInv, TypeOK
<1>3. \A j \in Chaves : hashes'[j] # Nada => hashes'[j] = hashes[j]
  BY DEF MudarOrigem, ApagarHash, LInv, TypeOK
<1>4. HashFiel' /\ HashTemLinha'
  BY <1>1, <1>3 DEF LInv, HashFiel, HashTemLinha
<1>5. \A p \in Escritores : EscritaFiel(p)'
  BY <1>1 DEF LInv, EscritaFiel, RepetidasEmDuvida, TransitoEmDuvida, EmTransito,
     BuscaFiel, GravacaoFiel, LoteFiel
<1>6. QED
  BY <1>2, <1>4, <1>5 DEF LInv

(* A run starts: if it empties the table, every key in hand is in doubt.      *)
LEMMA IniciarPreserva ==
  ASSUME LInv, NEW p \in Escritores, Iniciar(p)
  PROVE  LInv'
<1>1. PICK primeiro \in BOOLEAN, semHash \in BOOLEAN, apaga \in BOOLEAN :
       /\ apaga => motor = "professores"
       /\ destino' = IF apaga THEN [k \in Chaves |-> Nada] ELSE destino
       /\ esc' = [q \in Escritores |->
            IF q = p
            THEN [Parado EXCEPT !.etapa = "lendo", !.restam = Chaves,
                                !.primeiro = primeiro, !.semHash = semHash]
            ELSE IF apaga THEN [esc[q] EXCEPT !.duvida = DOMAIN esc[q].lote]
            ELSE esc[q]]
  BY DEF Iniciar
<1> DEFINE e == [Parado EXCEPT !.etapa = "lendo", !.restam = Chaves,
                               !.primeiro = primeiro, !.semHash = semHash]
<1>2. e \in Escritor /\ e.etapa = "lendo" /\ DOMAIN e.lote = {}
  <2>1. "lendo" \in Etapas /\ Chaves \in SUBSET Chaves
    BY DEF Etapas
  <2>2. QED
    BY <2>1, ParadoTipo DEF Escritor
<1>3. UNCHANGED <<motor, origem, hashes, atrasadas, usos>>
  BY DEF Iniciar
<1>4. /\ esc \in [Escritores -> Escritor]
      /\ destino \in [Chaves -> {Nada} \cup Versoes]
  BY DEF LInv, TypeOK
<1>5. esc'[p] = e
  BY <1>1
<1> HIDE DEF e
<1>6. ASSUME NEW q \in Escritores \ {p}
      PROVE  /\ esc'[q] \in Escritor
             /\ esc'[q].etapa = esc[q].etapa /\ esc'[q].lote = esc[q].lote
             /\ esc'[q].novos = esc[q].novos
             /\ esc'[q].existentes = esc[q].existentes
             /\ ~apaga => esc'[q] = esc[q]
             /\ apaga => esc'[q].duvida = DOMAIN esc[q].lote
  <2>1. esc[q] \in Escritor /\ DOMAIN esc[q].lote \subseteq Chaves
    BY <1>4, EscritorTipo
  <2>2. esc'[q] = IF apaga THEN [esc[q] EXCEPT !.duvida = DOMAIN esc[q].lote]
                  ELSE esc[q]
    BY <1>1
  <2>3. QED
    BY <2>1, <2>2 DEF Escritor
<1>7. TypeOK'
  <2>1. esc' \in [Escritores -> Escritor]
    <3>1. \A q \in Escritores : esc'[q] \in Escritor
      BY <1>2, <1>5, <1>6
    <3>2. DOMAIN esc' = Escritores /\ esc' = [q \in Escritores |-> esc'[q]]
      BY <1>1
    <3>3. QED BY <3>1, <3>2
  <2>2. destino' \in [Chaves -> {Nada} \cup Versoes]
    BY <1>1, <1>4
  <2>3. QED
    BY <1>3, <2>1, <2>2 DEF LInv, TypeOK
<1>8. HashFiel' /\ HashTemLinha'
  <2>1. CASE apaga
    <3>1. /\ motor = "professores"
          /\ \A k \in Chaves : destino'[k] = Nada
      BY <1>1, <2>1
    <3>2. QED
      BY <1>3, <3>1 DEF HashFiel, HashTemLinha
  <2>2. CASE ~apaga
    BY <1>1, <1>3, <2>2 DEF LInv, HashFiel, HashTemLinha
  <2>3. QED BY <2>1, <2>2
<1>9. \A q \in Escritores : EmTransito(q)' \subseteq EmTransito(q)
  <2>1. ASSUME NEW q \in Escritores, NEW r \in Escritores \ {q},
               esc'[r].etapa = "gravado"
        PROVE  esc[r].etapa = "gravado" /\ esc'[r].novos = esc[r].novos
    BY <1>2, <1>5, <1>6, <2>1
  <2>2. QED
    BY <2>1 DEF EmTransito
<1>10. EscritaFiel(p)'
  BY <1>2, <1>5 DEF EscritaFiel, RepetidasEmDuvida, TransitoEmDuvida, BuscaFiel,
     GravacaoFiel, LoteFiel
<1>11. ASSUME NEW q \in Escritores \ {p}
       PROVE  EscritaFiel(q)'
  <2>1. EscritaFiel(q)
    BY DEF LInv
  <2>2. CASE ~apaga
    <3>1. destino' = destino /\ esc'[q] = esc[q]
      BY <1>1, <1>6, <2>2
    <3>2. QED
      BY <1>3, <1>9, <2>1, <3>1 DEF EscritaFiel, RepetidasEmDuvida,
         TransitoEmDuvida, BuscaFiel, GravacaoFiel, LoteFiel
  <2>3. CASE apaga
    <3>1. motor = "professores" /\ motor # "base"
      BY <1>1, <2>3
    <3>2. /\ esc'[q].etapa = esc[q].etapa /\ esc'[q].lote = esc[q].lote
          /\ esc'[q].novos = esc[q].novos /\ motor' = motor
          /\ esc'[q].duvida = DOMAIN esc'[q].lote
      BY <1>3, <1>6, <2>3
    <3>3. GravacaoFiel(esc[q])
      BY <2>1 DEF EscritaFiel
    <3>4. QED
      BY <3>1, <3>2, <3>3 DEF EscritaFiel, RepetidasEmDuvida, TransitoEmDuvida,
         BuscaFiel, GravacaoFiel, LoteFiel
  <2>4. QED BY <2>2, <2>3
<1>12. QED
  BY <1>7, <1>8, <1>10, <1>11 DEF LInv

(* The rows are written and their hashes are owed: the writers that know what *)
(* the table held, or wrote it, doubt those keys.                             *)
LEMMA PersistirPreserva ==
  ASSUME LInv, NEW p \in Escritores, Persistir(p)
  PROVE  LInv'
<1> DEFINE o == esc[p]
           d == Decisao(o)
           K == DOMAIN d.objs
           e == [o EXCEPT !.etapa = "gravado", !.novos = d.novos,
                          !.existentes = SemHashes,
                          !.duvida = o.duvida \cup EmTransito(p)]
<1>1. /\ esc \in [Escritores -> Escritor] /\ o \in Escritor /\ TypeOK
      /\ destino \in [Chaves -> {Nada} \cup Versoes]
  BY DEF LInv, TypeOK
<1>2. /\ K \subseteq DOMAIN o.lote /\ DOMAIN o.lote \subseteq Chaves
      /\ \A k \in K : d.objs[k] \in Versoes /\ d.novos[k] \in Versoes
      /\ DOMAIN d.novos = K /\ d.novos \in Parcial(Versoes)
  <2>1. /\ K \subseteq DOMAIN o.lote /\ d.objs \in [K -> Versoes]
        /\ d.novos \in [K -> Versoes]
    BY <1>1, DecisaoTipo
  <2>2. DOMAIN o.lote \subseteq Chaves
    BY <1>1, EscritorTipo
  <2> HIDE DEF K, d, o
  <2>3. K \in SUBSET Chaves
    BY <2>1, <2>2
  <2>4. d.novos \in Parcial(Versoes)
    BY <2>1, <2>3 DEF Parcial
  <2>5. QED
    BY <2>1, <2>2, <2>4
<1>3. /\ o.etapa = "buscado"
      /\ destino' = Sobrepor(destino, d.objs)
      /\ atrasadas' = atrasadas \cup K
      /\ UNCHANGED <<motor, origem, hashes, usos>>
      /\ esc' = [q \in Escritores |->
           IF q = p THEN e
           ELSE IF esc[q].etapa = "lido" THEN esc[q]
           ELSE [esc[q] EXCEPT !.duvida = esc[q].duvida
                                            \cup (DOMAIN esc[q].lote \cap K)]]
  BY DEF Persistir
<1>4. \A k \in Chaves : destino'[k] = IF k \in K THEN d.objs[k] ELSE destino[k]
  BY <1>3 DEF Sobrepor
<1>5. ASSUME NEW q \in Escritores
      PROVE  EmTransito(q) \subseteq Chaves
  <2>1. ASSUME NEW k \in EmTransito(q) PROVE k \in Chaves
    <3>1. PICK r \in Escritores : k \in DOMAIN esc[r].novos
      BY TransitoDosOutros
    <3>2. QED
      BY <1>1, <3>1, EscritorTipo
  <2>2. QED BY <2>1
<1>6. /\ e \in Escritor /\ e.etapa = "gravado" /\ e.lote = o.lote
      /\ e.novos = d.novos /\ e.duvida = o.duvida \cup EmTransito(p)
  <2>1. SemHashes \in [Chaves -> {Nada} \cup Versoes] /\ "gravado" \in Etapas
    BY DEF SemHashes, Etapas
  <2> HIDE DEF K, d, o
  <2>2. QED
    BY <1>1, <1>2, <1>5, <2>1 DEF Escritor
<1> HIDE DEF e
<1>7. esc'[p] = e
  BY <1>3
<1>8. ASSUME NEW q \in Escritores \ {p}
      PROVE  /\ esc'[q] \in Escritor
             /\ esc'[q].etapa = esc[q].etapa /\ esc'[q].lote = esc[q].lote
             /\ esc'[q].novos = esc[q].novos
             /\ esc'[q].existentes = esc[q].existentes
             /\ esc[q].duvida \subseteq esc'[q].duvida
             /\ esc[q].etapa # "lido" =>
                  DOMAIN esc[q].lote \cap K \subseteq esc'[q].duvida
  <2>1. esc[q] \in Escritor /\ DOMAIN esc[q].lote \subseteq Chaves
    BY <1>1, EscritorTipo
  <2>2. esc'[q] = IF esc[q].etapa = "lido" THEN esc[q]
                  ELSE [esc[q] EXCEPT !.duvida = esc[q].duvida
                                            \cup (DOMAIN esc[q].lote \cap K)]
    BY <1>3
  <2> HIDE DEF K
  <2>3. QED
    BY <2>1, <2>2 DEF Escritor
<1> HIDE DEF K, d
<1>9. TypeOK'
  <2>1. esc' \in [Escritores -> Escritor]
    <3>1. \A q \in Escritores : esc'[q] \in Escritor
      BY <1>6, <1>7, <1>8
    <3>2. esc' = [q \in Escritores |-> esc'[q]]
      BY <1>3
    <3>3. QED BY <3>1, <3>2
  <2>2. destino' \in [Chaves -> {Nada} \cup Versoes]
    <3>1. destino' = [k \in Chaves |-> destino'[k]]
      BY <1>3 DEF Sobrepor
    <3>2. \A k \in Chaves : destino'[k] \in {Nada} \cup Versoes
      BY <1>1, <1>2, <1>4
    <3>3. QED BY <3>1, <3>2
  <2>3. atrasadas' \subseteq Chaves
    BY <1>1, <1>2, <1>3 DEF TypeOK
  <2>4. QED
    BY <1>1, <1>3, <2>1, <2>2, <2>3 DEF TypeOK
<1>10. \A k \in K : destino'[k] # Nada
  BY <1>2, <1>4, VersaoExiste
<1>11. HashFiel'
  <2>1. \A k \in Chaves \ atrasadas' : k \notin atrasadas /\ destino'[k] = destino[k]
    BY <1>3, <1>4
  <2>2. QED
    BY <1>3, <2>1 DEF LInv, HashFiel
<1>12. HashTemLinha'
  <2>1. \A k \in Chaves : destino[k] # Nada => destino'[k] # Nada
    BY <1>4, <1>10
  <2>2. QED
    BY <1>3, <2>1 DEF LInv, HashTemLinha
<1>13. EscritaFiel(p)
  BY DEF LInv
<1>14. EmTransito(p)' = EmTransito(p)
  BY <1>8 DEF EmTransito
<1>15. EscritaFiel(p)'
  <2>1. RepetidasEmDuvida(esc[p])'
    BY <1>3, <1>6, <1>7, <1>13 DEF EscritaFiel, RepetidasEmDuvida
  <2>2. TransitoEmDuvida(p)'
    BY <1>6, <1>7, <1>14 DEF TransitoEmDuvida
  <2>3. GravacaoFiel(esc[p])'
    <3>1. DOMAIN e.novos = K /\ K \subseteq DOMAIN e.lote
      BY <1>2, <1>6
    <3>2. ASSUME NEW k \in DOMAIN e.lote \ e.duvida
          PROVE  /\ k \in K => /\ destino'[k] = e.novos[k]
                               /\ destino'[k] = Ultima(e.lote[k])
                 /\ k \notin K \cup atrasadas' => destino'[k] = Ultima(e.lote[k])
      <4>1. k \in DOMAIN o.lote /\ k \notin o.duvida /\ k \in Chaves
        BY <1>2, <1>6
      <4>2. /\ k \in K => /\ d.objs[k] = Ultima(o.lote[k])
                          /\ d.novos[k] = Ultima(o.lote[k])
            /\ k \notin K => /\ o.existentes[k] = Ultima(o.lote[k])
                             /\ motor = "professores" => destino[k] # Nada
        BY <1>1, <1>13, <4>1, DecisaoUltima DEF EscritaFiel, K, d
      <4>3. CASE k \in K
        BY <1>4, <1>6, <4>1, <4>2, <4>3
      <4>4. CASE k \notin K /\ k \notin atrasadas
        <5>1. Ultima(o.lote[k]) # Nada
          BY <1>1, <4>1, EscritorTipo, LinhaMedida, VersaoExiste
        <5>2. motor \in {"base", "professores"}
          BY <1>1, LoteAssumption DEF TypeOK
        <5>3. destino[k] = Ultima(o.lote[k])
          BY <1>3, <1>13, <4>1, <4>2, <4>4, <5>1, <5>2 DEF EscritaFiel, BuscaFiel
        <5>4. QED
          BY <1>4, <1>6, <4>1, <4>4, <5>3
      <4>5. QED
        BY <1>3, <4>3, <4>4
    <3>3. QED
      BY <1>3, <1>7, <1>10, <3>1, <3>2 DEF GravacaoFiel
  <2>4. BuscaFiel(esc[p])' /\ LoteFiel(esc[p])'
    BY <1>6, <1>7 DEF BuscaFiel, LoteFiel
  <2>5. QED
    BY <2>1, <2>2, <2>3, <2>4 DEF EscritaFiel
<1>16. ASSUME NEW q \in Escritores \ {p}
       PROVE  EscritaFiel(q)'
  <2>1. /\ EscritaFiel(q)
        /\ esc'[q].etapa = esc[q].etapa /\ esc'[q].lote = esc[q].lote
        /\ esc'[q].novos = esc[q].novos
        /\ esc'[q].existentes = esc[q].existentes
        /\ esc[q].duvida \subseteq esc'[q].duvida
    BY <1>8 DEF LInv
  <2>2. DOMAIN esc[q].lote \subseteq Chaves /\ DOMAIN esc[q].novos \subseteq Chaves
    BY <1>1, EscritorTipo
  <2>3. RepetidasEmDuvida(esc[q])'
    BY <1>3, <2>1 DEF EscritaFiel, RepetidasEmDuvida
  <2>4. esc[q].etapa # "lido" =>
          \A k \in DOMAIN esc[q].lote \ esc'[q].duvida :
            k \notin K /\ k \notin esc[q].duvida /\ destino'[k] = destino[k]
    BY <1>4, <1>8, <2>2
  <2>5. EmTransito(q)' \subseteq EmTransito(q) \cup K
    <3>1. ASSUME NEW r \in Escritores \ {q}, esc'[r].etapa = "gravado"
          PROVE  \/ esc[r].etapa = "gravado" /\ esc'[r].novos = esc[r].novos
                 \/ DOMAIN esc'[r].novos = K
      BY <1>2, <1>6, <1>7, <1>8, <3>1
    <3>2. QED
      BY <3>1 DEF EmTransito
  <2>6. TransitoEmDuvida(q)'
    BY <1>8, <2>1, <2>5 DEF EscritaFiel, TransitoEmDuvida
  <2>7. BuscaFiel(esc[q])'
    <3>1. \A k \in DOMAIN esc[q].lote : destino[k] # Nada => destino'[k] # Nada
      BY <1>4, <1>10, <2>2
    <3>2. QED
      BY <1>3, <2>1, <2>4, <3>1 DEF EscritaFiel, BuscaFiel
  <2>8. GravacaoFiel(esc[q])'
    <3>1. \A k \in DOMAIN esc[q].novos : destino[k] # Nada => destino'[k] # Nada
      BY <1>4, <1>10, <2>2
    <3>2. QED
      BY <1>3, <2>1, <2>4, <3>1 DEF EscritaFiel, GravacaoFiel
  <2>9. LoteFiel(esc[q])'
    BY <1>3, <2>1, <2>4 DEF EscritaFiel, LoteFiel
  <2>10. QED
    BY <2>3, <2>6, <2>7, <2>8, <2>9 DEF EscritaFiel
<1>17. QED
  BY <1>9, <1>11, <1>12, <1>15, <1>16 DEF LInv

(* The hashes follow their rows, and only those of keys in doubt stay behind. *)
LEMMA GravarHashesPreserva ==
  ASSUME LInv, NEW p \in Escritores, GravarHashes(p)
  PROVE  LInv'
<1> DEFINE o == esc[p]
           K == DOMAIN o.novos
           e == [o EXCEPT !.etapa = "lendo", !.novos = Vazio]
<1>1. /\ esc \in [Escritores -> Escritor] /\ o \in Escritor /\ TypeOK
      /\ hashes \in [Chaves -> {Nada} \cup Versoes]
  BY DEF LInv, TypeOK
<1>2. /\ K \subseteq Chaves /\ \A k \in K : o.novos[k] \in Versoes
  BY <1>1, EscritorTipo
<1>3. /\ o.etapa = "gravado" /\ esc' = [esc EXCEPT ![p] = e]
      /\ UNCHANGED <<motor, origem, destino, usos>>
      /\ hashes' = IF o.semHash THEN hashes ELSE Sobrepor(hashes, o.novos)
      /\ atrasadas' = IF o.semHash THEN atrasadas
                      ELSE (atrasadas \ K) \cup (K \cap o.duvida)
  BY DEF GravarHashes
<1>4. /\ e \in Escritor /\ e.etapa = "lendo" /\ e.lote = o.lote
      /\ e.duvida = o.duvida
  <2>1. Vazio \in Parcial(Versoes) /\ "lendo" \in Etapas
    <3>1. Vazio \in [{} -> Versoes]
      BY DEF Vazio
    <3>2. QED
      BY <3>1 DEF Parcial, Etapas
  <2> HIDE DEF o
  <2>2. QED
    BY <1>1, <2>1 DEF Escritor
<1> HIDE DEF e
<1>5. esc'[p] = e /\ \A q \in Escritores \ {p} : esc'[q] = esc[q]
  BY <1>1, <1>3
<1>6. \A k \in Chaves :
        hashes'[k] = IF ~o.semHash /\ k \in K THEN o.novos[k] ELSE hashes[k]
  BY <1>3 DEF Sobrepor
<1>7. EscritaFiel(p)
  BY DEF LInv
<1>8. TypeOK'
  <2>1. esc' \in [Escritores -> Escritor]
    BY <1>1, <1>3, <1>4
  <2>2. hashes' \in [Chaves -> {Nada} \cup Versoes]
    <3>1. hashes' = [k \in Chaves |-> hashes'[k]]
      BY <1>1, <1>3 DEF Sobrepor
    <3>2. \A k \in Chaves : hashes'[k] \in {Nada} \cup Versoes
      BY <1>1, <1>2, <1>6
    <3>3. QED BY <3>1, <3>2
  <2>3. atrasadas' \subseteq Chaves
    BY <1>1, <1>2, <1>3 DEF TypeOK
  <2>4. QED
    BY <1>1, <1>3, <2>1, <2>2, <2>3 DEF TypeOK
<1>9. GravacaoFiel(o)
  BY <1>7 DEF EscritaFiel
<1>10. HashFiel'
  <2>1. ASSUME NEW k \in Chaves \ atrasadas', hashes'[k] # Nada, destino[k] # Nada
        PROVE  hashes'[k] = destino[k]
    <3>1. CASE ~o.semHash /\ k \in K
      <4>1. k \notin o.duvida
        BY <1>3, <3>1
      <4>2. k \in DOMAIN o.lote \ o.duvida
        BY <1>3, <1>9, <3>1, <4>1 DEF GravacaoFiel
      <4>3. destino[k] = o.novos[k]
        BY <1>3, <1>9, <3>1, <4>2 DEF GravacaoFiel
      <4>4. QED
        BY <1>6, <3>1, <4>3
    <3>2. CASE o.semHash \/ k \notin K
      <4>1. k \notin atrasadas /\ hashes'[k] = hashes[k]
        BY <1>3, <1>6, <3>2
      <4>2. QED
        BY <2>1, <4>1 DEF LInv, HashFiel
    <3>3. QED BY <3>1, <3>2
  <2>2. QED
    BY <1>3, <2>1 DEF HashFiel
<1>11. HashTemLinha'
  <2>1. motor = "base" => \A k \in K : destino[k] # Nada
    BY <1>3, <1>9 DEF GravacaoFiel
  <2>2. QED
    BY <1>3, <1>6, <2>1 DEF LInv, HashTemLinha
<1>12. \A q \in Escritores : EmTransito(q)' \subseteq EmTransito(q)
  BY <1>4, <1>5 DEF EmTransito
<1>13. \A k : k \notin atrasadas' => k \notin atrasadas \/ k \in K
  BY <1>3
<1>14. EscritaFiel(p)'
  <2>1. RepetidasEmDuvida(esc[p])' /\ BuscaFiel(esc[p])' /\ GravacaoFiel(esc[p])'
    BY <1>3, <1>4, <1>5, <1>7 DEF EscritaFiel, RepetidasEmDuvida, BuscaFiel,
       GravacaoFiel
  <2>2. TransitoEmDuvida(p)'
    BY <1>3, <1>4, <1>5, <1>7, <1>12 DEF EscritaFiel, TransitoEmDuvida
  <2>3. LoteFiel(esc[p])'
    BY <1>3, <1>4, <1>5, <1>9, <1>13 DEF GravacaoFiel, LoteFiel
  <2>4. QED
    BY <2>1, <2>2, <2>3 DEF EscritaFiel
<1>15. ASSUME NEW q \in Escritores \ {p}
       PROVE  EscritaFiel(q)'
  <2>1. EscritaFiel(q) /\ esc'[q] = esc[q]
    BY <1>5 DEF LInv
  <2>2. K \subseteq EmTransito(q)
    BY <1>3 DEF EmTransito
  <2>3. esc[q].etapa \in {"buscado", "gravado", "lendo"} =>
          \A k \in DOMAIN esc[q].lote \ esc[q].duvida :
            k \notin atrasadas' => k \notin atrasadas
    BY <1>13, <2>1, <2>2 DEF EscritaFiel, TransitoEmDuvida
  <2>4. RepetidasEmDuvida(esc[q])' /\ TransitoEmDuvida(q)'
    BY <1>3, <1>12, <2>1 DEF EscritaFiel, RepetidasEmDuvida, TransitoEmDuvida
  <2>5. BuscaFiel(esc[q])' /\ GravacaoFiel(esc[q])' /\ LoteFiel(esc[q])'
    BY <1>3, <2>1, <2>3 DEF EscritaFiel, BuscaFiel, GravacaoFiel, LoteFiel
  <2>6. QED
    BY <2>4, <2>5 DEF EscritaFiel
<1>16. QED
  BY <1>8, <1>10, <1>11, <1>14, <1>15 DEF LInv

-------------------------------------------------------------------------------
(* Nobody writes at the start. *)
LEMMA InitLInv == Init => LInv
<1> SUFFICES ASSUME Init PROVE LInv
  OBVIOUS
<1>1. TypeOK
  BY ParadoTipo DEF Init, TypeOK
<1>2. HashFiel /\ HashTemLinha
  BY DEF Init, HashFiel, HashTemLinha
<1>3. ASSUME NEW p \in Escritores PROVE EscritaFiel(p)
  <2>1. esc[p] = Parado
    BY DEF Init
  <2>2. QED
    BY <2>1, ParadoTipo DEF EscritaFiel, RepetidasEmDuvida, TransitoEmDuvida,
       BuscaFiel, GravacaoFiel, LoteFiel
<1>4. QED
  BY <1>1, <1>2, <1>3 DEF LInv

(* Every step keeps the invariant. *)
LEMMA NextLInv == LInv /\ [Next]_vars => LInv'
<1> SUFFICES ASSUME LInv, [Next]_vars PROVE LInv'
  OBVIOUS
<1>1. CASE UNCHANGED vars
  BY <1>1 DEF vars, LInv, TypeOK, HashFiel, HashTemLinha, EscritaFiel,
     RepetidasEmDuvida, TransitoEmDuvida, EmTransito, BuscaFiel, GravacaoFiel,
     LoteFiel
<1>2. ASSUME NEW p \in Escritores, Iniciar(p) \/ Avancar(p) \/ Falhar(p)
      PROVE  LInv'
  BY <1>2, IniciarPreserva, LerPreserva, BuscarPreserva, NadaPendentePreserva,
     PersistirPreserva, GravarHashesPreserva, PararPreserva DEF Avancar
<1>3. QED
  BY <1>1, <1>2, ForaDosEscritores DEF Next

(* LInv holds in every reachable state, for every table, every number of      *)
(* writers and whatever fails.                                                *)
THEOREM InvarianteDoLote == Spec => []LInv
<1>1. QED
  BY InitLInv, NextLInv, PTL DEF Spec

(* A hash of etl_auditoria_linha describes the row the destination holds,     *)
(* unless a writer wrote the row and not yet, or not alone, its hash: neither *)
(* upsert_bulk nor _upsert_incremental leaves a row to be skipped for ever.   *)
THEOREM HashSeguro == Spec => []HashFiel
<1>1. LInv => HashFiel
  BY DEF LInv
<1>2. QED
  BY <1>1, InvarianteDoLote, PTL

(* When a writer goes on to its next chunk, the destination holds every row   *)
(* of the one it leaves, written or skipped, except the ones in doubt.        *)
THEOREM LoteSeguro == Spec => []LoteSincronizado
<1>1. LInv => LoteSincronizado
  BY DEF LInv, EscritaFiel, LoteFiel, LoteSincronizado
<1>2. QED
  BY <1>1, InvarianteDoLote, PTL
================================================================================
