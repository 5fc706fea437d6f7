------------------------- MODULE EtlProfessoresProps ---------------------------
(* What the resumption of etl_professores guarantees, and what its comments   *)
(* say it guarantees and it does not.                                         *)
EXTENDS EtlProfessores

(* Every variable has its type; a run starts at one of the four phases        *)
(* whatever the checkpoint holds.                                             *)
TypeOK ==
  /\ checkpoint \in Checkpoint
  /\ run \in Run
  /\ execucao \in {"nenhuma", "em_execucao", "concluido", "erro"}
  /\ destino \in Destino
  /\ atual \in Cadeia /\ gravada \in Cadeia
  /\ falhas \in 0..MaxFalhas /\ quedas \in 0..MaxQuedas

(* Of a chain that was given --anos-letivos, the rows of those years count. *)
Completa(cadeia, t) ==
  \/ t \in cadeia.fora
  \/ 1..(IF cadeia.restrita THEN LotesDosAnos[t] ELSE Lotes[t])
       \subseteq cadeia.feito[t]

(* The checkpoint never promises more than its chain of runs did: the tables  *)
(* before the one it names, that table when it names no chunk, and without a  *)
(* name the phases up to its page (the last page means a new start).  Of      *)
(* professor, the only table a resumption continues inside, the chunks it     *)
(* counts, those in the first places of the query that the run which wrote    *)
(* them read, are in the destination.                                         *)
CheckpointCoberto ==
  LET i == checkpoint.indice
      c == gravada
  IN /\ i.tabela # 0 /\ i.lote = 0 => \A t \in 1..i.tabela : Completa(c, t)
     /\ i.tabela # 0 /\ i.lote > 0 => \A t \in 1..i.tabela - 1 : Completa(c, t)
     /\ i.tabela = 1 /\ i.lote > 0 /\ 1 \notin c.fora =>
          NoInicio(c.ordem, i.lote) \subseteq c.feito[1]
     /\ i.tabela = 0 /\ checkpoint.pagina \in 1..3 =>
          \A t \in 1..Ultima[checkpoint.pagina] : Completa(c, t)

(* When executar returns with something done, and so when the execution is    *)
(* concluded, every table was loaded completely by its chain of runs.  The    *)
(* exceptions are those fora names: professor, when a resumption skipped      *)
(* places whose chunks are not those the checkpoint counted, or when the      *)
(* connection was lost while it was read; administrador_escola, when its      *)
(* error was swallowed; a phase whose first table the index names by chunk.   *)
ConclusaoCompleta ==
  run.etapa \in {"retornou", "concluindo"} /\ run.alguma =>
    \A t \in Tabelas : Completa(atual, t)

(* A table holds a row twice only when its key does not identify rows and the *)
(* connection was lost during its last load: no failure, kill or resumption   *)
(* leaves copies.                                                             *)
RepeticaoSoPorQueda ==
  \A t \in destino.repetidas : Catalogo[t].chave # "unica" /\ t \in destino.caidas

(* A run with --anos-letivos takes rows of other years only from the tables   *)
(* of _TABELAS_FULL_REFRESH, which it empties and does not fill again.        *)
OutrosAnosFicam ==
  [][\A t \in Tabelas \ FullRefresh :
       run.restrita =>
         destino.lotes[t] \ (1..LotesDosAnos[t]) \subseteq destino'.lotes[t]]_vars

(* Whatever fails, once failures stop an execution concludes: no checkpoint   *)
(* makes every resumption fail.                                               *)
RetomadaConclui == execucao # "concluido" ~> execucao = "concluido"

(* "Itera chunks do EOL pulando lotes já salvos no checkpoint"                *)
(* (services.py:1322): the chunk that _iter_lotes is about to skip is in the  *)
(* destination.                                                               *)
SoPulaSalvos ==
  /\ Em("lendo") /\ run.prox <= Fim(run.tabela)
  /\ run.entregues < run.ignorados
  => NoLugar(run.prox) \in destino.lotes[run.tabela]

(* etl_professores.py:432-433: the resumption goes back to the phase of the   *)
(* table in the checkpoint so that the table to skip to is found.             *)
NenhumaTabelaPulada ==
  Em("fase") /\ run.tabela > Ultima[run.fase] => run.pular = 0
-------------------------------------------------------------------------------
(* The inductive invariant behind CheckpointCoberto and ConclusaoCompleta.    *)

(* The last of the tables that checkpoint c says are done. *)
Prometida(c) ==
  IF c.indice.tabela = 0
  THEN IF c.pagina \in 1..3 THEN Ultima[c.pagina] ELSE 0
  ELSE IF c.indice.lote = 0 THEN c.indice.tabela ELSE c.indice.tabela - 1

(* Tables 1 to n are done in the chain, and the chunks in the first n places  *)
(* of professor.                                                              *)
Feitas(cadeia, n) == \A t \in 1..n : Completa(cadeia, t)

Lidos(cadeia, n) ==
  \/ Rastreada \in cadeia.fora
  \/ NoInicio(cadeia.ordem, n) \subseteq cadeia.feito[Rastreada]

(* What the checkpoint promises is done.  An index belongs to the phase after *)
(* the page, so that of cargo, which has no macro phase, comes with page 0.   *)
CheckpointCumprido ==
  /\ Feitas(gravada, Prometida(checkpoint))
  /\ checkpoint.indice.tabela = 0 => checkpoint.indice.lote = 0
  /\ checkpoint.indice.tabela = Rastreada => Lidos(gravada, checkpoint.indice.lote)
  /\ checkpoint.indice.tabela = 2 => checkpoint.pagina = 0

PosicaoCerta ==
  /\ run.tabela \in Primeira[run.fase]..Ultima[run.fase] + 1
  /\ run.etapa \in {"consultando", "lendo", "gravado", "terminada"} =>
       run.tabela <= Ultima[run.fase]
  /\ run.etapa \in {"retornou", "concluindo"} => run.tabela = 22
  /\ run.etapa = "concluindo" => run.alguma
  /\ run.concluida # 0 => Ultima[run.concluida] < run.tabela
  /\ run.restrita => atual.restrita

(* The tables a run is past are done, but for those of the last phase when it *)
(* still skips.                                                               *)
PassadasFeitas ==
  \A t \in 1..run.tabela - 1 : (t > Ultima[3] /\ run.pular # 0) \/ Completa(atual, t)

(* A run that skips has done nothing, and the table it skips to is ahead and  *)
(* done; or it is behind, and the phase is among the exceptions.              *)
PuloCerto ==
  run.pular # 0 =>
    /\ ~run.alguma /\ run.salvo = SemIndice
    /\ run.etapa \in {"fase", "retornou", "falhando", "finalizando"}
    /\ \/ /\ run.tabela <= run.pular /\ run.pular <= Ultima[run.fase]
          /\ Feitas(atual, run.pular)
       \/ /\ run.pular < run.tabela /\ run.fase # 1
          /\ run.fase = 4 \/ run.tabela..Ultima[run.fase] \subseteq atual.fora

(* A table that starts is not promised by the checkpoint. *)
NadaPrometido ==
  run.etapa = "fase" =>
    \/ run.pular # 0 /\ Prometida(checkpoint) <= run.pular
    \/ run.pular = 0 /\ (run.tabela = 1 \/ Prometida(checkpoint) < run.tabela)

(* Only professor starts after its first chunk, and after chunks it has.      *)
LoteCerto ==
  run.loteRef # 0 =>
    /\ run.etapa \notin {"consultando", "lendo", "gravado", "terminada"}
    /\ run.etapa = "fase" /\ run.pular = 0 =>
         \/ run.tabela \in FullRefresh
         \/ run.tabela = Rastreada /\ Lidos(atual, run.loteRef)

(* What is read is written; of professor the counters say how much.           *)
LeituraCerta ==
  /\ run.etapa \in {"lendo", "gravado"} =>
       /\ run.prox > 0
       /\ run.tabela # Rastreada =>
            /\ run.ignorados = 0
            /\ \/ run.tabela \in atual.fora
               \/ 1..run.prox - 1 \subseteq atual.feito[run.tabela]
       /\ run.tabela = Rastreada /\ Rastreada \notin atual.fora =>
            /\ run.ordem = atual.ordem
            /\ Lidos(atual, run.prox - 1)
            /\ run.prox = run.entregues + 1
            /\ Lidos(atual, run.ignorados)
            /\ run.contador = IF run.entregues < run.ignorados
                              THEN run.ignorados ELSE run.entregues
  /\ run.etapa = "gravado" => run.contador > 0 /\ run.entregues > run.ignorados
  /\ run.etapa = "terminada" => Completa(atual, run.tabela)

(* The index a run saved last is that of the table it is in, or of the one    *)
(* before it; between two tables it counts no chunk.                          *)
SalvoCerto ==
  /\ run.salvo.tabela = 0 => run.salvo.lote = 0
  /\ run.etapa = "fase" => run.salvo.lote = 0
  /\ run.salvo.tabela # 0 =>
       run.tabela = IF run.salvo.lote = 0 THEN run.salvo.tabela + 1
                    ELSE run.salvo.tabela
  /\ run.salvo.tabela = Rastreada => Lidos(atual, run.salvo.lote)

RunCerto ==
  /\ PosicaoCerta /\ PassadasFeitas /\ PuloCerto /\ NadaPrometido
  /\ LoteCerto /\ LeituraCerta /\ SalvoCerto

PInv == TypeOK /\ CheckpointCumprido /\ (run.etapa # "parado" => RunCerto)

(* The inductive invariant behind RepeticaoSoPorQueda and OutrosAnosFicam:    *)
(* tables hold chunks of their query only, and what a table that is emptied   *)
(* is about to read is not in it unless the connection was lost.              *)
CopiasCertas ==
  /\ \A t \in Tabelas : destino.lotes[t] \subseteq 1..Lotes[t]
  /\ RepeticaoSoPorQueda
  /\ (/\ run.etapa \in {"lendo", "gravado"}
      /\ Catalogo[run.tabela].modo \in {"full_refresh", "substitui"}
      /\ run.tabela \notin destino.caidas) =>
        \A c \in run.prox..Fim(run.tabela) : c \notin destino.lotes[run.tabela]
===============================================================================
