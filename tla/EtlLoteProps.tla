----------------------------- MODULE EtlLoteProps ------------------------------
(* What the incremental write guarantees. *)
EXTENDS EtlLote

(* Every variable has its type. *)
TypeOK ==
  /\ motor \in Motores
  /\ origem \in [Chaves -> Versoes]
  /\ destino \in [Chaves -> {Nada} \cup Versoes]
  /\ hashes \in [Chaves -> {Nada} \cup Versoes]
  /\ esc \in [Escritores -> Escritor]
  /\ atrasadas \subseteq Chaves
  /\ usos \in [{"mudancas", "imprevistos"} -> Nat]

(* A hash never describes a row the destination does not hold, so that no row *)
(* is skipped for ever: it is that of the row, unless the row is missing or   *)
(* was written without its hash (a failure between the two databases,         *)
(* --skip-audit-hash, two writers of the row at once).                        *)
HashFiel ==
  \A k \in Chaves \ atrasadas :
    hashes[k] # Nada /\ destino[k] # Nada => hashes[k] = destino[k]

(* When a chunk is done, the destination holds each of its rows as it was     *)
(* last read, whether it was written or skipped, unless its hash was behind.  *)
LoteSincronizado ==
  \A p \in Escritores :
    esc[p].etapa = "lendo" =>
      \A k \in DOMAIN esc[p].lote \ (atrasadas \cup esc[p].duvida) :
        destino[k] = Ultima(esc[p].lote[k])

(* Once the source and the failures stop, runs bring the destination to the   *)
(* source again and again, wherever the hash is not behind.                   *)
Converge ==
  []<>(\A k \in Chaves \ atrasadas : destino[k] = origem[k])

-------------------------------------------------------------------------------
(* The inductive invariant behind HashFiel and LoteSincronizado.              *)

(* The base engine never empties the table: a hash has its row.               *)
HashTemLinha ==
  motor = "base" => \A k \in Chaves : hashes[k] # Nada => destino[k] # Nada

(* professores vouches for no key that came twice.                            *)
RepetidasEmDuvida(e) ==
  motor = "professores" =>
    \A k \in DOMAIN e.lote : Len(e.lote[k]) > 1 => k \in e.duvida

(* Once it has looked the hashes up, a writer doubts every key of its chunk   *)
(* whose hash another one has still to write.                                 *)
TransitoEmDuvida(p) ==
  esc[p].etapa \in {"buscado", "gravado", "lendo"} =>
    DOMAIN esc[p].lote \cap EmTransito(p) \subseteq esc[p].duvida

(* What the look-up returned is still true of the rows not in doubt.          *)
BuscaFiel(e) ==
  e.etapa = "buscado" =>
    \A k \in DOMAIN e.lote :
      /\ motor = "base" /\ e.existentes[k] # Nada => destino[k] # Nada
      /\ k \notin atrasadas \cup e.duvida
           => e.existentes[k] = Nada \/ destino[k] \in {Nada, e.existentes[k]}

(* A writer that has still to write hashes has written their rows, and the    *)
(* others were up to date.                                                    *)
GravacaoFiel(e) ==
  e.etapa = "gravado" =>
    /\ DOMAIN e.novos \subseteq DOMAIN e.lote
    /\ motor = "base" => \A k \in DOMAIN e.novos : destino[k] # Nada
    /\ \A k \in DOMAIN e.lote \ e.duvida :
         /\ k \in DOMAIN e.novos
              => destino[k] = e.novos[k] /\ destino[k] = Ultima(e.lote[k])
         /\ k \notin DOMAIN e.novos \cup atrasadas
              => destino[k] = Ultima(e.lote[k])

LoteFiel(e) ==
  e.etapa = "lendo" =>
    \A k \in DOMAIN e.lote \ (atrasadas \cup e.duvida) :
      destino[k] = Ultima(e.lote[k])

EscritaFiel(p) ==
  /\ RepetidasEmDuvida(esc[p]) /\ TransitoEmDuvida(p)
  /\ BuscaFiel(esc[p]) /\ GravacaoFiel(esc[p]) /\ LoteFiel(esc[p])

LInv == TypeOK /\ HashFiel /\ HashTemLinha /\ \A p \in Escritores : EscritaFiel(p)
===============================================================================
