-------------------------- MODULE EtlProfessoresProofs -------------------------
(***************************************************************************)
(* Proofs, for any chunks of the 21 tables, any orders in which the query  *)
(* of professor returns them and any number of failures, kills and lost    *)
(* connections, that the checkpoint of etl_professores never promises more *)
(* than its chain of runs did, and that an execution is concluded only     *)
(* when every table was loaded completely but for the exceptions of fora.  *)
(***************************************************************************)
EXTENDS EtlProfessoresProps, TLAPS

(* There are 21 tables; the first one is upserted, and read whole.            *)
LEMMA AsTabelas ==
  /\ Tabelas = 1..21
  /\ Rastreada \in Tabelas /\ Administrador \in Tabelas
  /\ Rastreada \notin Apagadas /\ Rastreada # Administrador
  /\ Rastreada \notin FullRefresh /\ Catalogo[Rastreada].regra # "anos"
<1>1. DOMAIN Catalogo = 1..21
  BY DEF Catalogo
<1>2. Catalogo[1].modo = "upsert" /\ Catalogo[1].regra = "tudo"
  BY DEF Catalogo, PopularProfessores, Tabela, SqlProfessores
<1>3. QED
  BY <1>1, <1>2 DEF Tabelas, Apagadas, Rastreada, Administrador, FullRefresh

(* A query of professor returns each chunk in one place.                      *)
LEMMA AsOrdens ==
  /\ Lotes[Rastreada] \in Nat /\ LotesDosAnos[Rastreada] = Lotes[Rastreada]
  /\ PrimeiraOrdem \in Ordens
  /\ \A o \in Ordens :
       /\ o \in [1..Lotes[Rastreada] -> 1..Lotes[Rastreada]]
       /\ \A c \in 1..Lotes[Rastreada] : \E n \in 1..Lotes[Rastreada] : o[n] = c
<1>1. Lotes[Rastreada] \in Nat /\ LotesDosAnos[Rastreada] = Lotes[Rastreada]
  BY AsTabelas, ProfessoresAssumption
<1>2. PrimeiraOrdem \in Ordens
  BY <1>1 DEF PrimeiraOrdem, Ordens, Bijection, Injection, Surjection, IsInjective
<1>3. QED
  BY <1>1, <1>2 DEF Ordens, Bijection, Injection, Surjection

(* The chunks in the first places: more places, more chunks; one place more,  *)
(* the chunk in it more; and in all the places, all the chunks.               *)
LEMMA OInicioDaOrdem ==
  ASSUME NEW o \in Ordens
  PROVE  /\ NoInicio(o, 0) = {}
         /\ \A m, n \in Nat : m <= n => NoInicio(o, m) \subseteq NoInicio(o, n)
         /\ \A n \in 1..Lotes[Rastreada] :
              NoInicio(o, n) = NoInicio(o, n - 1) \cup {o[n]}
         /\ \A n \in Nat : n >= Lotes[Rastreada] =>
              1..Lotes[Rastreada] \subseteq NoInicio(o, n)
<1> DEFINE L == Lotes[Rastreada]
<1>1. /\ L \in Nat /\ DOMAIN o = 1..L
      /\ \A c \in 1..L : \E n \in 1..L : o[n] = c
  BY AsOrdens
<1> HIDE DEF L
<1>2. NoInicio(o, 0) = {}
  BY <1>1 DEF NoInicio
<1>3. \A m, n \in Nat : m <= n => NoInicio(o, m) \subseteq NoInicio(o, n)
  BY <1>1 DEF NoInicio
<1>4. ASSUME NEW n \in 1..L
      PROVE  NoInicio(o, n) = NoInicio(o, n - 1) \cup {o[n]}
  <2>1. {j \in DOMAIN o : j <= n} = {j \in DOMAIN o : j <= n - 1} \cup {n}
    BY <1>1, <1>4
  <2>2. QED
    BY <2>1 DEF NoInicio
<1>5. ASSUME NEW n \in Nat, n >= L, NEW c \in 1..L
      PROVE  c \in NoInicio(o, n)
  <2>1. PICK i \in 1..L : o[i] = c
    BY <1>1
  <2>2. i \in {j \in DOMAIN o : j <= n}
    BY <1>1, <1>5
  <2>3. QED
    BY <2>1, <2>2 DEF NoInicio
<1>6. QED
  BY <1>2, <1>3, <1>4, <1>5 DEF L

(* Where each macro phase begins and ends.                                    *)
LEMMA AsFases ==
  /\ Fases = {1, 2, 3, 4}
  /\ Primeira[1] = 1 /\ Primeira[2] = 5 /\ Primeira[3] = 7 /\ Primeira[4] = 13
  /\ Ultima[1] = 4 /\ Ultima[2] = 6 /\ Ultima[3] = 12 /\ Ultima[4] = 21
BY DEF Fases, Primeira, Ultima

(* The phase of an index is the one whose tables it is among.                 *)
LEMMA FaseDaTabela ==
  ASSUME NEW t \in Tabelas, t # 2
  PROVE  /\ FaseMacro(t) \in Fases
         /\ Primeira[FaseMacro(t)] <= t /\ t <= Ultima[FaseMacro(t)]
<1>1. t \in 1..21
  BY AsTabelas
<1>2. \E f \in Fases : Primeira[f] <= t /\ t <= Ultima[f]
  BY <1>1, AsFases
<1>3. QED
  BY <1>2 DEF FaseMacro

(* What counts as done in a chain still does in one that did as much, has as  *)
(* many exceptions, or was asked for some years only.                         *)
LEMMA CompletaCresce ==
  ASSUME NEW c \in Cadeia, NEW d \in Cadeia, NEW t \in Tabelas,
         Completa(c, t), c.fora \subseteq d.fora,
         t \in d.fora \/ c.feito[t] \subseteq d.feito[t],
         c.restrita => d.restrita
  PROVE  Completa(d, t)
<1>1. LotesDosAnos[t] \in Nat /\ Lotes[t] \in Nat /\ LotesDosAnos[t] <= Lotes[t]
  BY ProfessoresAssumption
<1>2. 1..LotesDosAnos[t] \subseteq 1..Lotes[t]
  BY <1>1
<1>3. QED
  BY <1>2 DEF Completa

(* The same of the tables up to n.                                            *)
LEMMA FeitasCresce ==
  ASSUME NEW c \in Cadeia, NEW d \in Cadeia, NEW n \in 0..21,
         Feitas(c, n), c.fora \subseteq d.fora,
         \A t \in 1..n : t \in d.fora \/ c.feito[t] \subseteq d.feito[t],
         c.restrita => d.restrita
  PROVE  Feitas(d, n)
<1>1. 1..n \subseteq Tabelas
  BY AsTabelas
<1>2. QED
  BY <1>1, CompletaCresce DEF Feitas

(* A chain has read no place of professor at first.                           *)
LEMMA NadaLido ==
  ASSUME NEW c \in Cadeia
  PROVE  Lidos(c, 0)
BY OInicioDaOrdem DEF Lidos, Cadeia

(* The chunks in the places it has read stay done while the order holds.      *)
LEMMA LidosCresce ==
  ASSUME NEW c \in Cadeia, NEW d \in Cadeia, NEW n \in Nat,
         Lidos(c, n), c.fora \subseteq d.fora, d.ordem = c.ordem,
         c.feito[Rastreada] \subseteq d.feito[Rastreada]
  PROVE  Lidos(d, n)
BY DEF Lidos

(* What a checkpoint can promise.                                             *)
LEMMA PrometidaTipo ==
  ASSUME NEW c \in Checkpoint
  PROVE  Prometida(c) \in 0..21
<1>1. c.pagina \in 0..4 /\ c.indice.tabela \in 0..21 /\ c.indice.lote \in Nat
  BY AsTabelas DEF Checkpoint, Indice
<1>2. QED
  BY <1>1, AsFases DEF Prometida

-------------------------------------------------------------------------------
(* What the variables of a run hold.                                          *)
LEMMA TipoDoRun ==
  ASSUME NEW r \in Run
  PROVE  /\ r.etapa \in Etapas /\ r.fase \in {1, 2, 3, 4} /\ r.tabela \in 1..22
         /\ r.pular \in 0..21 /\ r.loteRef \in Nat /\ r.ignorados \in Nat
         /\ r.entregues \in Nat /\ r.contador \in Nat /\ r.prox \in Nat
         /\ r.ordem \in Ordens
         /\ r.salvo.tabela \in 0..21 /\ r.salvo.lote \in Nat
         /\ r.salvo \in Indice
         /\ r.concluida \in 0..4 /\ r.alguma \in BOOLEAN
         /\ r.restrita \in BOOLEAN
BY AsTabelas, AsFases DEF Run, Indice

(* A process at rest has no obligation.                                       *)
LEMMA PararPreserva ==
  ASSUME PInv, run' = [run EXCEPT !.etapa = "parado"],
         execucao' \in {"nenhuma", "em_execucao", "concluido", "erro"},
         UNCHANGED <<checkpoint, destino, atual, gravada, quedas>>,
         falhas' \in 0..MaxFalhas
  PROVE  PInv'
<1>1. run' \in Run /\ run'.etapa = "parado"
  BY DEF PInv, TypeOK, Run, Etapas
<1>2. QED
  BY <1>1 DEF PInv, TypeOK, CheckpointCumprido

(* A run fails: nothing is written yet.                                       *)
LEMMA FalharPreserva ==
  ASSUME PInv, run.etapa # "parado",
         run' = [run EXCEPT !.etapa = "falhando"],
         UNCHANGED <<checkpoint, execucao, destino, atual, gravada, quedas>>,
         falhas' \in 0..MaxFalhas
  PROVE  PInv'
<1> USE TipoDoRun
<1>1. run \in Run /\ RunCerto
  BY DEF PInv, TypeOK
<1>2. /\ run' \in Run /\ run'.etapa = "falhando"
      /\ run'.tabela = run.tabela /\ run'.fase = run.fase
      /\ run'.pular = run.pular /\ run'.salvo = run.salvo
      /\ run'.alguma = run.alguma /\ run'.concluida = run.concluida
      /\ run'.restrita = run.restrita
  BY <1>1 DEF Run, Etapas
<1>3. TypeOK' /\ CheckpointCumprido'
  BY <1>2 DEF PInv, TypeOK, CheckpointCumprido
<1>4. PosicaoCerta'
  BY <1>1, <1>2 DEF RunCerto, PosicaoCerta
<1>5. PassadasFeitas' /\ PuloCerto' /\ SalvoCerto'
  BY <1>1, <1>2 DEF RunCerto, PassadasFeitas, PuloCerto, SalvoCerto
<1>6. NadaPrometido' /\ LoteCerto' /\ LeituraCerta'
  BY <1>2 DEF NadaPrometido, LoteCerto, LeituraCerta
<1>7. QED
  BY <1>3, <1>4, <1>5, <1>6 DEF PInv, RunCerto

(* A table is skipped: it is done, or an exception.                           *)
LEMMA PularTabelaPreserva ==
  ASSUME PInv, PularTabela
  PROVE  PInv'
<1> USE TipoDoRun
<1>1. run \in Run /\ RunCerto /\ run.etapa = "fase" /\ run.pular # 0
  BY DEF PInv, TypeOK, PularTabela, Em
<1>2. /\ run.tabela <= Ultima[run.fase]
      /\ run.tabela \in Primeira[run.fase]..Ultima[run.fase]
      /\ run.tabela \in 1..21
  BY <1>1, AsFases DEF PularTabela, RunCerto, PosicaoCerta
<1>3. /\ run'.etapa = "fase" /\ run'.tabela = run.tabela + 1
      /\ run'.pular = (IF run.pular = run.tabela THEN 0 ELSE run.pular)
      /\ run'.loteRef = (IF run.pular = run.tabela THEN 0 ELSE run.loteRef)
      /\ run'.fase = run.fase /\ run'.salvo = run.salvo
      /\ run'.alguma = run.alguma /\ run'.concluida = run.concluida
      /\ run'.restrita = run.restrita
      /\ UNCHANGED <<checkpoint, execucao, destino, atual, gravada, falhas, quedas>>
  BY <1>1 DEF PularTabela, Run
<1>4. run' \in Run
  <2>1. run.tabela + 1 \in 1..22 /\ (IF run.pular = run.tabela THEN 0 ELSE run.pular) \in {0} \cup Tabelas
    BY <1>1, <1>2, AsTabelas
  <2>2. QED
    BY <1>1, <2>1 DEF PularTabela, Run
<1>5. TypeOK' /\ CheckpointCumprido'
  BY <1>3, <1>4 DEF PInv, TypeOK, CheckpointCumprido
<1>6. PosicaoCerta'
  BY <1>1, <1>2, <1>3, AsFases DEF RunCerto, PosicaoCerta
<1>7. PuloCerto
  BY <1>1 DEF RunCerto
<1>8. PassadasFeitas'
  <2> SUFFICES ASSUME NEW t \in 1..run.tabela,
                      ~(t > Ultima[3] /\ run'.pular # 0)
               PROVE  Completa(atual, t)
    BY <1>1, <1>3 DEF PassadasFeitas
  <2>1. CASE run.pular >= run.tabela
    BY <1>1, <1>2, <1>7, <2>1 DEF PuloCerto, Feitas
  <2>2. CASE run.pular < run.tabela
    <3>1. run'.pular # 0 /\ t <= 12 /\ run'.pular = run.pular
      BY <1>1, <1>2, <1>3, <2>2, AsFases
    <3>2. CASE t < run.tabela
      BY <1>1, <1>2, <3>1, <3>2, AsFases DEF RunCerto, PassadasFeitas
    <3>3. CASE t = run.tabela
      <4>1. run.fase # 4
        BY <1>2, <3>1, <3>3, AsFases
      <4>2. t \in atual.fora
        BY <1>1, <1>2, <1>7, <2>2, <3>3, <4>1 DEF PuloCerto
      <4>3. QED
        BY <4>2 DEF Completa
    <3>4. QED
      BY <1>2, <3>2, <3>3
  <2>3. QED
    BY <1>1, <2>1, <2>2
<1>9. PuloCerto'
  BY <1>1, <1>2, <1>3, <1>7, AsFases DEF PuloCerto, Feitas
<1>10. NadaPrometido' /\ LoteCerto'
  <2>1. Prometida(checkpoint) <= run.pular
    BY <1>1 DEF RunCerto, NadaPrometido
  <2>2. Prometida(checkpoint) \in 0..21
    BY PrometidaTipo DEF PInv, TypeOK
  <2>3. Prometida(checkpoint)' = Prometida(checkpoint)
    BY <1>3
  <2>4. QED
    BY <1>1, <1>2, <1>3, <2>1, <2>2, <2>3 DEF NadaPrometido, LoteCerto
<1>11. LeituraCerta' /\ SalvoCerto'
  <2>1. run.salvo = SemIndice
    BY <1>1, <1>7 DEF PuloCerto
  <2>2. QED
    BY <1>3, <2>1 DEF LeituraCerta, SalvoCerto, SemIndice, Rastreada
<1>12. QED
  BY <1>5, <1>6, <1>8, <1>9, <1>10, <1>11 DEF PInv, RunCerto

(* A chunk that the checkpoint counts is passed over.                         *)
LEMMA IgnorarLotePreserva ==
  ASSUME PInv, IgnorarLote
  PROVE  PInv'
<1> USE TipoDoRun
<1>1. run \in Run /\ RunCerto /\ run.etapa = "lendo"
  BY DEF PInv, TypeOK, IgnorarLote, Em
<1>2. /\ run' \in Run /\ run'.etapa = "lendo" /\ run'.tabela = run.tabela
      /\ run'.entregues = run.entregues + 1 /\ run'.prox = run.prox + 1
      /\ run'.ignorados = run.ignorados /\ run'.contador = run.contador
      /\ run'.pular = run.pular /\ run'.loteRef = run.loteRef
      /\ run'.fase = run.fase /\ run'.salvo = run.salvo
      /\ run'.alguma = run.alguma /\ run'.concluida = run.concluida
      /\ run'.restrita = run.restrita /\ run'.ordem = run.ordem
      /\ UNCHANGED <<checkpoint, execucao, destino, atual, gravada, falhas, quedas>>
  <2>1. run.entregues + 1 \in Nat /\ run.prox + 1 \in Nat
    BY <1>1
  <2>2. QED
    BY <1>1, <2>1 DEF IgnorarLote, Run
<1>3. TypeOK' /\ CheckpointCumprido'
  BY <1>2 DEF PInv, TypeOK, CheckpointCumprido
<1>4. PosicaoCerta'
  BY <1>1, <1>2 DEF RunCerto, PosicaoCerta
<1>5. PassadasFeitas' /\ PuloCerto' /\ SalvoCerto' /\ NadaPrometido' /\ LoteCerto'
  BY <1>1, <1>2 DEF RunCerto, PassadasFeitas, PuloCerto, SalvoCerto, NadaPrometido,
     LoteCerto
<1>6. LeituraCerta'
  <2>1. LeituraCerta /\ run.entregues < run.ignorados
    BY <1>1 DEF RunCerto, IgnorarLote
  <2>2. run.tabela = Rastreada
    BY <1>1, <2>1 DEF LeituraCerta
  <2>3. CASE Rastreada \in atual.fora
    BY <1>1, <1>2, <2>1, <2>2, <2>3 DEF LeituraCerta
  <2>4. CASE Rastreada \notin atual.fora
    <3>1. /\ run.prox = run.entregues + 1 /\ run.prox <= run.ignorados
          /\ NoInicio(atual.ordem, run.ignorados) \subseteq atual.feito[Rastreada]
          /\ atual.ordem = run.ordem
      BY <1>1, <2>1, <2>2, <2>4 DEF LeituraCerta, Lidos
    <3>2. Lidos(atual, run.prox)
      BY <1>1, <3>1, OInicioDaOrdem DEF Lidos
    <3>3. QED
      BY <1>1, <1>2, <2>1, <2>2, <2>4, <3>1, <3>2 DEF LeituraCerta
  <2>5. QED
    BY <2>3, <2>4
<1>7. QED
  BY <1>3, <1>4, <1>5, <1>6 DEF PInv, RunCerto

(* A table is read to its end.                                                *)
LEMMA TerminarLeituraPreserva ==
  ASSUME PInv, TerminarLeitura
  PROVE  PInv'
<1> USE TipoDoRun
<1>1. run \in Run /\ RunCerto /\ run.etapa = "lendo"
  BY DEF PInv, TypeOK, TerminarLeitura, Em
<1>2. /\ run' \in Run /\ run'.etapa = "terminada" /\ run'.tabela = run.tabela
      /\ run'.pular = run.pular /\ run'.loteRef = run.loteRef
      /\ run'.fase = run.fase /\ run'.salvo = run.salvo
      /\ run'.concluida = run.concluida /\ run'.restrita = run.restrita
      /\ UNCHANGED <<checkpoint, execucao, destino, atual, gravada, falhas, quedas>>
  BY <1>1 DEF TerminarLeitura, Run, Etapas
<1>3. TypeOK' /\ CheckpointCumprido'
  BY <1>2 DEF PInv, TypeOK, CheckpointCumprido
<1>4. PosicaoCerta'
  BY <1>1, <1>2 DEF RunCerto, PosicaoCerta
<1>5. PassadasFeitas' /\ PuloCerto' /\ SalvoCerto' /\ NadaPrometido' /\ LoteCerto'
  BY <1>1, <1>2 DEF RunCerto, PassadasFeitas, PuloCerto, SalvoCerto, NadaPrometido,
     LoteCerto
<1>6. Completa(atual, run.tabela)
  <2>1. run.tabela \in Tabelas
    BY <1>1, AsTabelas, AsFases DEF RunCerto, PosicaoCerta
  <2>2. /\ LotesDosAnos[run.tabela] \in Nat /\ Lotes[run.tabela] \in Nat
        /\ LotesDosAnos[run.tabela] <= Lotes[run.tabela]
    BY <2>1, ProfessoresAssumption
  <2>3. run.prox > Fim(run.tabela) /\ run.prox - 1 \in Nat
    BY <1>1, <2>2 DEF TerminarLeitura, Fim
  <2>4. \/ run.tabela \in atual.fora
        \/ 1..Fim(run.tabela) \subseteq atual.feito[run.tabela]
    <3>1. CASE run.tabela # Rastreada
      BY <1>1, <2>2, <2>3, <3>1 DEF RunCerto, LeituraCerta, Fim
    <3>2. CASE run.tabela = Rastreada /\ Rastreada \notin atual.fora
      <4>1. /\ NoInicio(atual.ordem, run.prox - 1) \subseteq atual.feito[Rastreada]
            /\ atual.ordem \in Ordens
        BY <1>1, <3>2 DEF RunCerto, LeituraCerta, Lidos
      <4>2. Fim(Rastreada) = Lotes[Rastreada]
        BY AsOrdens DEF Fim
      <4>3. 1..Lotes[Rastreada] \subseteq NoInicio(atual.ordem, run.prox - 1)
        BY <1>1, <2>2, <2>3, <3>2, <4>1, <4>2, OInicioDaOrdem
      <4>4. QED
        BY <3>2, <4>1, <4>2, <4>3
    <3>3. QED
      BY <3>1, <3>2
  <2>5. run.restrita => atual.restrita
    BY <1>1 DEF RunCerto, PosicaoCerta
  <2>6. 1..(IF atual.restrita THEN LotesDosAnos[run.tabela] ELSE Lotes[run.tabela])
          \subseteq 1..Fim(run.tabela)
    BY <1>1, <2>2, <2>5 DEF Fim
  <2>7. QED
    BY <2>4, <2>6 DEF Completa
<1>7. LeituraCerta'
  BY <1>2, <1>6 DEF LeituraCerta
<1>8. QED
  BY <1>3, <1>4, <1>5, <1>7 DEF PInv, RunCerto

(* A phase ends; whatever was still skipped stays behind.                     *)
LEMMA TerminarFasePreserva ==
  ASSUME PInv, TerminarFase
  PROVE  PInv'
<1> USE TipoDoRun
<1>1. run \in Run /\ RunCerto /\ run.etapa = "fase"
  BY DEF PInv, TypeOK, TerminarFase, Em
<1>2. run.tabela = Ultima[run.fase] + 1
  BY <1>1, AsFases DEF TerminarFase, RunCerto, PosicaoCerta
<1>3. /\ run'.etapa = (IF run.fase < 4 THEN "fase" ELSE "retornou")
      /\ run'.tabela = run.tabela /\ run'.concluida = run.fase
      /\ run'.pular = (IF run.fase <= 2 THEN 0 ELSE run.pular)
      /\ run'.fase = (IF run.fase < 4 THEN run.fase + 1 ELSE run.fase)
      /\ run'.loteRef = run.loteRef /\ run'.salvo = run.salvo
      /\ run'.alguma = run.alguma /\ run'.restrita = run.restrita
      /\ UNCHANGED <<checkpoint, execucao, destino, atual, gravada, falhas, quedas>>
  BY <1>1 DEF TerminarFase, Run
<1>4. run' \in Run
  <2>1. /\ (IF run.fase < 4 THEN run.fase + 1 ELSE run.fase) \in Fases
        /\ run.fase \in 0..4
        /\ (IF run.fase <= 2 THEN 0 ELSE run.pular) \in {0} \cup Tabelas
    BY <1>1, AsFases, AsTabelas
  <2>2. (IF run.fase < 4 THEN "fase" ELSE "retornou") \in Etapas
    BY DEF Etapas
  <2>3. ASSUME NEW e \in Etapas, NEW f \in Fases, NEW c \in 0..4,
               NEW p \in {0} \cup Tabelas
        PROVE  [run EXCEPT !.concluida = c, !.pular = p, !.fase = f,
                           !.etapa = e] \in Run
    BY <1>1 DEF Run
  <2>4. run' = [run EXCEPT !.concluida = run.fase,
                           !.pular = IF run.fase <= 2 THEN 0 ELSE run.pular,
                           !.fase = IF run.fase < 4 THEN run.fase + 1
                                    ELSE run.fase,
                           !.etapa = IF run.fase < 4 THEN "fase"
                                     ELSE "retornou"]
    BY <1>1 DEF TerminarFase, Run
  <2>5. QED
    BY <2>1, <2>2, <2>3, <2>4
<1>5. TypeOK' /\ CheckpointCumprido'
  BY <1>3, <1>4 DEF PInv, TypeOK, CheckpointCumprido
<1>6. PosicaoCerta'
  BY <1>1, <1>2, <1>3, AsFases DEF RunCerto, PosicaoCerta
<1>7. /\ run.pular # 0 => run.pular < run.tabela /\ run.fase # 1
      /\ PuloCerto
  BY <1>1, <1>2, AsFases DEF RunCerto, PuloCerto
<1>8. PassadasFeitas' /\ PuloCerto' /\ SalvoCerto' /\ LeituraCerta'
  <2>1. PassadasFeitas'
    BY <1>1, <1>2, <1>3, AsFases DEF RunCerto, PassadasFeitas
  <2>2. PuloCerto'
    BY <1>1, <1>2, <1>3, <1>7, AsFases DEF PuloCerto
  <2>3. SalvoCerto' /\ LeituraCerta'
    BY <1>1, <1>3 DEF RunCerto, SalvoCerto, LeituraCerta
  <2>4. QED
    BY <2>1, <2>2, <2>3
<1>9. NadaPrometido'
  <2>1. Prometida(checkpoint) \in 0..21
    BY PrometidaTipo DEF PInv, TypeOK
  <2>2. Prometida(checkpoint)' = Prometida(checkpoint)
    BY <1>3
  <2>3. QED
    BY <1>1, <1>3, <1>7, <2>1, <2>2 DEF RunCerto, NadaPrometido
<1>10. LoteCerto'
  <2>1. 7 \in FullRefresh
    BY DEF FullRefresh
  <2>2. QED
    BY <1>1, <1>2, <1>3, <1>7, <2>1, AsFases DEF RunCerto, LoteCerto
<1>11. QED
  BY <1>5, <1>6, <1>8, <1>9, <1>10 DEF PInv, RunCerto

-------------------------------------------------------------------------------
(* A checkpoint written now promises what the chain going on did.             *)
LEMMA SalvarCumpre ==
  ASSUME PInv, run.etapa # "parado", NEW indice \in Indice,
         checkpoint' = [pagina |-> run.concluida, indice |-> indice],
         gravada' = atual \/ gravada' = [atual EXCEPT !.ordem = PrimeiraOrdem],
         \/ indice.tabela = 0 /\ indice.lote = 0
         \/ /\ run.pular = 0 /\ indice.lote = 0
            /\ indice.tabela = run.tabela - 1
         \/ /\ run.pular = 0 /\ indice.lote = 0 /\ indice.tabela = run.tabela
            /\ Completa(atual, run.tabela)
         \/ /\ run.pular = 0 /\ indice.lote > 0 /\ indice.tabela = run.tabela,
         indice.tabela = Rastreada => Lidos(gravada', indice.lote)
  PROVE  checkpoint' \in Checkpoint /\ CheckpointCumprido'
<1> USE TipoDoRun
<1>1. run \in Run /\ RunCerto
  BY DEF PInv, TypeOK
<1>2. /\ checkpoint'.pagina = run.concluida /\ checkpoint'.indice = indice
      /\ gravada'.fora = atual.fora /\ gravada'.feito = atual.feito
      /\ gravada'.restrita = atual.restrita
  BY DEF PInv, TypeOK, Cadeia
<1>3. checkpoint' \in Checkpoint
  BY <1>1 DEF Checkpoint
<1>4. indice.tabela \in 0..21 /\ indice.lote \in Nat
  BY AsTabelas DEF Indice
<1>5. PassadasFeitas /\ (run.concluida # 0 => Ultima[run.concluida] < run.tabela)
  BY <1>1 DEF RunCerto, PosicaoCerta
<1>6. Feitas(gravada', Prometida(checkpoint'))
  <2> SUFFICES ASSUME NEW t \in 1..Prometida(checkpoint')
               PROVE  Completa(atual, t)
    BY <1>2 DEF Feitas, Completa
  <2>1. CASE indice.tabela = 0
    <3>1. /\ Prometida(checkpoint') <= 12
          /\ Prometida(checkpoint') < run.tabela
          /\ Prometida(checkpoint') \in 0..21
      BY <1>1, <1>2, <1>5, <2>1, AsFases DEF Prometida
    <3>2. QED
      BY <1>1, <1>5, <3>1, AsFases DEF PassadasFeitas
  <2>2. CASE indice.tabela # 0
    <3>1. /\ Prometida(checkpoint') = (IF indice.lote = 0 THEN indice.tabela
                                      ELSE indice.tabela - 1)
          /\ run.pular = 0
      BY <1>2, <2>2 DEF Prometida
    <3>2. \/ Prometida(checkpoint') = run.tabela - 1
          \/ Prometida(checkpoint') = run.tabela /\ Completa(atual, run.tabela)
      BY <1>1, <1>4, <2>2, <3>1
    <3>3. CASE Prometida(checkpoint') = run.tabela - 1
      BY <1>5, <3>1, <3>3 DEF PassadasFeitas
    <3>4. CASE Prometida(checkpoint') = run.tabela /\ Completa(atual, run.tabela)
      <4>1. t = run.tabela \/ t \in 1..run.tabela - 1
        BY <1>1, <3>4
      <4>2. QED
        BY <1>5, <3>1, <3>4, <4>1 DEF PassadasFeitas
    <3>5. QED
      BY <3>2, <3>3, <3>4
  <2>3. QED
    BY <2>1, <2>2
<1>7. /\ indice.tabela = 2 => run.concluida = 0
      /\ indice.tabela = 0 => indice.lote = 0
  BY <1>1, <1>4, <1>5, AsFases
<1>8. QED
  BY <1>2, <1>3, <1>6, <1>7 DEF CheckpointCumprido

(* on_lote: the chunks of professor that it counts are written.               *)
LEMMA SalvarLotePreserva ==
  ASSUME PInv, SalvarLote
  PROVE  PInv'
<1> USE TipoDoRun
<1> DEFINE indice == [tabela |-> run.tabela, lote |-> run.contador]
<1>1. run \in Run /\ RunCerto /\ run.etapa = "gravado"
  BY DEF PInv, TypeOK, SalvarLote, Em
<1>2. run.pular = 0 /\ run.contador > 0 /\ run.tabela \in Tabelas
  BY <1>1, AsFases, AsTabelas DEF RunCerto, PuloCerto, LeituraCerta, PosicaoCerta
<1>3. /\ run'.etapa = "lendo" /\ run'.salvo = indice
      /\ run'.tabela = run.tabela /\ run'.prox = run.prox
      /\ run'.entregues = run.entregues /\ run'.ignorados = run.ignorados
      /\ run'.contador = run.contador
      /\ run'.pular = run.pular /\ run'.loteRef = run.loteRef
      /\ run'.fase = run.fase
      /\ run'.alguma = run.alguma /\ run'.concluida = run.concluida
      /\ run'.restrita = run.restrita /\ run'.ordem = run.ordem
      /\ UNCHANGED <<execucao, destino, atual, falhas, quedas>>
      /\ checkpoint' = [pagina |-> run.concluida, indice |-> indice]
      /\ gravada' = atual
  BY <1>1 DEF SalvarLote, Salvar, Run
<1>4. indice \in Indice
  BY <1>1, <1>2 DEF Indice
<1>5. run' \in Run
  BY <1>1, <1>4 DEF SalvarLote, Run, Etapas
<1>6. run.tabela = Rastreada => Lidos(atual, run.contador)
  <2> SUFFICES ASSUME run.tabela = Rastreada, Rastreada \notin atual.fora
               PROVE  Lidos(atual, run.contador)
    BY DEF Lidos
  <2>1. /\ run.prox = run.entregues + 1 /\ run.contador = run.entregues
        /\ Lidos(atual, run.prox - 1)
    BY <1>1 DEF RunCerto, LeituraCerta
  <2>2. run.prox - 1 = run.contador
    BY <1>1, <2>1
  <2>3. QED
    BY <2>1, <2>2
<1>7. checkpoint' \in Checkpoint /\ CheckpointCumprido'
  BY <1>1, <1>2, <1>3, <1>4, <1>6, SalvarCumpre
<1>8. TypeOK'
  BY <1>3, <1>5, <1>7 DEF PInv, TypeOK
<1>9. PosicaoCerta' /\ PassadasFeitas' /\ PuloCerto' /\ NadaPrometido' /\ LoteCerto'
  BY <1>1, <1>2, <1>3 DEF RunCerto, PosicaoCerta, PassadasFeitas, PuloCerto,
     NadaPrometido, LoteCerto
<1>10. LeituraCerta' /\ SalvoCerto'
  BY <1>1, <1>2, <1>3, <1>6 DEF RunCerto, LeituraCerta, SalvoCerto
<1>11. QED
  BY <1>7, <1>8, <1>9, <1>10 DEF PInv, RunCerto

(* on_tabela_concluida.                                                       *)
LEMMA SalvarTabelaPreserva ==
  ASSUME PInv, SalvarTabela
  PROVE  PInv'
<1> USE TipoDoRun
<1> DEFINE indice == [tabela |-> run.tabela, lote |-> 0]
<1>1. run \in Run /\ RunCerto /\ run.etapa = "terminada"
  BY DEF PInv, TypeOK, SalvarTabela, Em
<1>2. /\ run.pular = 0 /\ run.loteRef = 0 /\ run.tabela \in Tabelas
      /\ run.tabela \in 1..21 /\ Completa(atual, run.tabela)
  BY <1>1, AsFases, AsTabelas DEF RunCerto, PuloCerto, LoteCerto, LeituraCerta,
     PosicaoCerta
<1>3. /\ run'.etapa = "fase" /\ run'.salvo = indice
      /\ run'.tabela = run.tabela + 1
      /\ run'.pular = run.pular /\ run'.loteRef = run.loteRef
      /\ run'.fase = run.fase
      /\ run'.concluida = run.concluida /\ run'.restrita = run.restrita
      /\ UNCHANGED <<execucao, destino, falhas, quedas>>
      /\ checkpoint' = [pagina |-> run.concluida, indice |-> indice]
      /\ atual' = [atual EXCEPT !.ordem = PrimeiraOrdem] /\ gravada' = atual'
  BY <1>1 DEF SalvarTabela, Run
<1>4. /\ indice \in Indice /\ atual' \in Cadeia
      /\ atual'.fora = atual.fora /\ atual'.feito = atual.feito
      /\ atual'.restrita = atual.restrita
  BY <1>2, <1>3, AsOrdens DEF Indice, PInv, TypeOK, Cadeia
<1>5. run' \in Run
  <2>1. run.tabela + 1 \in 1..22
    BY <1>2
  <2>2. QED
    BY <1>1, <1>4, <2>1, AsOrdens DEF SalvarTabela, Run, Etapas
<1>6. checkpoint' \in Checkpoint /\ CheckpointCumprido'
  <2>1. Lidos(gravada', 0)
    BY <1>3, <1>4, NadaLido
  <2>2. QED
    BY <1>1, <1>2, <1>3, <1>4, <2>1, SalvarCumpre
<1>7. TypeOK'
  BY <1>3, <1>4, <1>5, <1>6 DEF PInv, TypeOK
<1>8. PosicaoCerta'
  BY <1>1, <1>2, <1>3, <1>4, AsFases DEF RunCerto, PosicaoCerta
<1>9. PassadasFeitas'
  <2> SUFFICES ASSUME NEW t \in 1..run.tabela
               PROVE  Completa(atual, t)
    BY <1>2, <1>3, <1>4 DEF PassadasFeitas, Completa
  <2>1. t = run.tabela \/ t \in 1..run.tabela - 1
    BY <1>2
  <2>2. QED
    BY <1>1, <1>2, <2>1 DEF RunCerto, PassadasFeitas
<1>10. NadaPrometido'
  <2>1. Prometida(checkpoint') = run.tabela
    BY <1>2, <1>3 DEF Prometida
  <2>2. QED
    BY <1>2, <1>3, <2>1 DEF NadaPrometido
<1>11. PuloCerto' /\ LoteCerto' /\ LeituraCerta'
  BY <1>2, <1>3 DEF PuloCerto, LoteCerto, LeituraCerta
<1>12. SalvoCerto'
  BY <1>2, <1>3, <1>4, NadaLido DEF SalvoCerto
<1>13. QED
  BY <1>6, <1>7, <1>8, <1>9, <1>10, <1>11, <1>12 DEF PInv, RunCerto

(* The checkpoint of a run that is over, and the one of a run that failed.    *)
LEMMA GravarFimPreserva ==
  ASSUME PInv, GravarConclusao \/ GravarErro
  PROVE  PInv'
<1> USE TipoDoRun
<1> DEFINE indice == IF run.etapa = "retornou" THEN SemIndice ELSE run.salvo
           etapa == IF run.etapa = "retornou" THEN "concluindo" ELSE "finalizando"
<1>1. run \in Run /\ RunCerto /\ run.etapa \in {"retornou", "falhando"}
  BY DEF PInv, TypeOK, GravarConclusao, GravarErro, Em
<1>2. run.etapa = "retornou" => run.alguma
  BY DEF GravarConclusao, GravarErro, Em
<1>3. /\ run'.etapa = etapa /\ run' \in Run
      /\ run'.tabela = run.tabela /\ run'.salvo = run.salvo
      /\ run'.pular = run.pular /\ run'.loteRef = run.loteRef
      /\ run'.fase = run.fase
      /\ run'.alguma = run.alguma /\ run'.concluida = run.concluida
      /\ run'.restrita = run.restrita
      /\ UNCHANGED <<execucao, destino, atual, falhas, quedas>>
      /\ checkpoint' = [pagina |-> run.concluida, indice |-> indice]
      /\ gravada' = atual
  BY <1>1 DEF GravarConclusao, GravarErro, Salvar, Em, Run, Etapas
<1>4. indice \in Indice
  BY <1>1 DEF Indice, SemIndice
<1>5. checkpoint' \in Checkpoint /\ CheckpointCumprido'
  <2>1. CASE run.etapa = "retornou"
    BY <1>1, <1>3, <1>4, <2>1, SalvarCumpre DEF SemIndice, Rastreada
  <2>2. CASE run.etapa = "falhando"
    <3>1. SalvoCerto /\ (run.pular # 0 => run.salvo.tabela = 0)
      BY <1>1 DEF RunCerto, PuloCerto, SemIndice
    <3>2. \/ indice.tabela = 0 /\ indice.lote = 0
          \/ /\ run.pular = 0 /\ indice.lote = 0
             /\ indice.tabela = run.tabela - 1
          \/ /\ run.pular = 0 /\ indice.lote > 0 /\ indice.tabela = run.tabela
      BY <1>1, <2>2, <3>1 DEF SalvoCerto
    <3>3. indice.tabela = Rastreada => Lidos(atual, indice.lote)
      BY <2>2, <3>1 DEF SalvoCerto
    <3>4. QED
      BY <1>1, <1>3, <1>4, <3>2, <3>3, SalvarCumpre
  <2>3. QED
    BY <1>1, <2>1, <2>2
<1>6. TypeOK'
  BY <1>3, <1>5 DEF PInv, TypeOK
<1>7. PosicaoCerta' /\ PassadasFeitas' /\ PuloCerto' /\ SalvoCerto'
  BY <1>1, <1>2, <1>3 DEF RunCerto, PosicaoCerta, PassadasFeitas, PuloCerto, SalvoCerto
<1>8. NadaPrometido' /\ LoteCerto' /\ LeituraCerta'
  BY <1>3 DEF NadaPrometido, LoteCerto, LeituraCerta
<1>9. QED
  BY <1>5, <1>6, <1>7, <1>8 DEF PInv, RunCerto

-------------------------------------------------------------------------------
(* Chain d keeps what chain c did of the tables in S and of professor.        *)
Conserva(c, d, S) ==
  /\ c.fora \subseteq d.fora /\ d.restrita = c.restrita /\ d.ordem = c.ordem
  /\ \A t \in S : t \in d.fora \/ c.feito[t] \subseteq d.feito[t]
  /\ c.feito[Rastreada] \subseteq d.feito[Rastreada]

(* A chain that has more chunks of table t keeps what it did.                 *)
LEMMA ContarConserva ==
  ASSUME NEW c \in Cadeia, NEW t \in Tabelas, NEW lotes \in SUBSET Nat,
         NEW d, d = [c EXCEPT !.feito[t] = @ \cup lotes]
  PROVE  d \in Cadeia /\ Conserva(c, d, Tabelas)
<1>1. /\ c.feito \in [Tabelas -> SUBSET Nat]
      /\ d.feito = [c.feito EXCEPT ![t] = c.feito[t] \cup lotes]
      /\ d.fora = c.fora /\ d.restrita = c.restrita /\ d.ordem = c.ordem
  BY DEF Cadeia
<1>2. d \in Cadeia
  BY <1>1 DEF Cadeia
<1>3. \A s \in Tabelas : c.feito[s] \subseteq d.feito[s]
  BY <1>1
<1>4. QED
  BY <1>1, <1>2, <1>3, AsTabelas DEF Conserva

(* The checkpoint stays fulfilled by a chain that keeps what it promises.     *)
LEMMA GravadaConserva ==
  ASSUME PInv, checkpoint' = checkpoint, gravada' \in Cadeia,
         Conserva(gravada, gravada', 1..Prometida(checkpoint))
  PROVE  CheckpointCumprido'
<1>1. gravada \in Cadeia /\ checkpoint \in Checkpoint /\ CheckpointCumprido
  BY DEF PInv, TypeOK
<1>2. Prometida(checkpoint) \in 0..21 /\ checkpoint.indice.lote \in Nat
  BY <1>1, PrometidaTipo DEF Checkpoint, Indice
<1>3. Feitas(gravada', Prometida(checkpoint))
  BY <1>1, <1>2, FeitasCresce DEF CheckpointCumprido, Conserva
<1>4. checkpoint.indice.tabela = Rastreada => Lidos(gravada', checkpoint.indice.lote)
  BY <1>1, <1>2, LidosCresce DEF CheckpointCumprido, Conserva
<1>5. QED
  BY <1>1, <1>3, <1>4 DEF CheckpointCumprido

(* So do what a run is past, and the index it saved.                          *)
LEMMA AtualConserva ==
  ASSUME PInv, run.etapa # "parado", atual' \in Cadeia,
         Conserva(atual, atual', Tabelas \ {run.tabela}),
         run'.tabela = run.tabela, run'.pular = run.pular, run'.salvo = run.salvo,
         run'.etapa # "fase"
  PROVE  PassadasFeitas' /\ SalvoCerto'
<1> USE TipoDoRun
<1>1. run \in Run /\ RunCerto /\ atual \in Cadeia
  BY DEF PInv, TypeOK
<1>2. 1..run.tabela - 1 \subseteq Tabelas \ {run.tabela}
  BY <1>1, AsTabelas
<1>3. \A t \in 1..run.tabela - 1 : Completa(atual, t) => Completa(atual', t)
  BY <1>1, <1>2, CompletaCresce DEF Conserva
<1>4. Lidos(atual, run.salvo.lote) => Lidos(atual', run.salvo.lote)
  BY <1>1, LidosCresce DEF Conserva
<1>5. QED
  BY <1>1, <1>3, <1>4 DEF RunCerto, PassadasFeitas, SalvoCerto

(* The CoreSSO answers.                                                       *)
LEMMA ConsultarPreserva ==
  ASSUME PInv, Consultar
  PROVE  PInv'
<1> USE TipoDoRun
<1> DEFINE t == run.tabela
<1>1. run \in Run /\ RunCerto /\ run.etapa = "consultando"
  BY DEF PInv, TypeOK, Consultar, Em
<1>2. /\ atual \in Cadeia /\ gravada \in Cadeia /\ destino \in Destino
      /\ t \in Tabelas /\ run.pular = 0 /\ run.loteRef = 0
      /\ 1..Lotes[t] \in SUBSET Nat
  BY <1>1, AsFases, AsTabelas, ProfessoresAssumption
     DEF PInv, TypeOK, RunCerto, PosicaoCerta, PuloCerto, LoteCerto
<1>3. /\ run'.etapa = "terminada" /\ run' \in Run
      /\ run'.tabela = run.tabela /\ run'.salvo = run.salvo
      /\ run'.pular = run.pular /\ run'.loteRef = run.loteRef
      /\ run'.fase = run.fase
      /\ run'.concluida = run.concluida /\ run'.restrita = run.restrita
      /\ UNCHANGED <<checkpoint, execucao, falhas, quedas>>
      /\ atual' = [atual EXCEPT !.feito[t] = @ \cup (1..Lotes[t])]
      /\ gravada' = [gravada EXCEPT !.feito[t] = @ \cup (1..Lotes[t])]
      /\ destino' = [destino EXCEPT !.lotes[t] = 1..Lotes[t]]
  BY <1>1 DEF Consultar, Contar, Run, Etapas
<1>4. /\ atual' \in Cadeia /\ Conserva(atual, atual', Tabelas)
      /\ atual'.feito[t] = atual.feito[t] \cup (1..Lotes[t])
      /\ gravada' \in Cadeia /\ Conserva(gravada, gravada', Tabelas)
  <2>1. /\ atual \in Cadeia /\ t \in Tabelas /\ (1..Lotes[t]) \in SUBSET Nat
        /\ atual' = [atual EXCEPT !.feito[t] = @ \cup (1..Lotes[t])]
    BY <1>2, <1>3
  <2>2. /\ gravada \in Cadeia /\ t \in Tabelas /\ (1..Lotes[t]) \in SUBSET Nat
        /\ gravada' = [gravada EXCEPT !.feito[t] = @ \cup (1..Lotes[t])]
    BY <1>2, <1>3
  <2> HIDE DEF t
  <2>3. atual' \in Cadeia /\ Conserva(atual, atual', Tabelas)
    BY <2>1, ContarConserva
  <2>4. atual'.feito[t] = atual.feito[t] \cup (1..Lotes[t])
    BY <2>1 DEF Cadeia
  <2>5. gravada' \in Cadeia /\ Conserva(gravada, gravada', Tabelas)
    BY <2>2, ContarConserva
  <2>6. QED
    BY <2>3, <2>4, <2>5
<1>5. destino' \in Destino
  BY <1>2, <1>3 DEF Destino
<1>6. TypeOK'
  BY <1>3, <1>4, <1>5 DEF PInv, TypeOK
<1>7. CheckpointCumprido'
  <2>1. 1..Prometida(checkpoint) \subseteq Tabelas
    BY PrometidaTipo, AsTabelas DEF PInv, TypeOK
  <2>2. QED
    BY <1>3, <1>4, <2>1, GravadaConserva DEF Conserva
<1>8. PassadasFeitas' /\ SalvoCerto'
  <2>1. Conserva(atual, atual', Tabelas \ {run.tabela})
    BY <1>4 DEF Conserva
  <2>2. QED
    BY <1>1, <1>3, <1>4, <2>1, AtualConserva
<1>9. Completa(atual', t)
  <2>1. /\ LotesDosAnos[t] \in Nat /\ Lotes[t] \in Nat
        /\ LotesDosAnos[t] <= Lotes[t]
    BY <1>2, ProfessoresAssumption
  <2>2. QED
    BY <1>4, <2>1 DEF Completa
<1>10. PosicaoCerta'
  BY <1>1, <1>3, <1>4 DEF RunCerto, PosicaoCerta, Conserva
<1>11. PuloCerto' /\ NadaPrometido' /\ LoteCerto' /\ LeituraCerta'
  BY <1>2, <1>3, <1>9 DEF PuloCerto, NadaPrometido, LoteCerto, LeituraCerta
<1>12. QED
  BY <1>6, <1>7, <1>8, <1>10, <1>11 DEF PInv, RunCerto

(* A chunk is written.                                                        *)
LEMMA GravarLotePreserva ==
  ASSUME PInv, GravarLote
  PROVE  PInv'
<1> USE TipoDoRun
<1> DEFINE t == run.tabela
           lote == NoLugar(run.prox)
<1>1. /\ run \in Run /\ RunCerto /\ run.etapa = "lendo"
      /\ run.entregues >= run.ignorados
  BY DEF PInv, TypeOK, GravarLote, Em
<1>2. /\ atual \in Cadeia /\ gravada \in Cadeia /\ destino \in Destino
      /\ t \in Tabelas /\ run.pular = 0 /\ run.loteRef = 0
      /\ {lote} \in SUBSET Nat
  <2>1. t \in Tabelas /\ run.prox \in 1..Fim(t)
    BY <1>1, AsFases, AsTabelas DEF GravarLote, RunCerto, PosicaoCerta, LeituraCerta
  <2>2. lote \in Nat
    <3>1. CASE t = Rastreada
      <4>1. Fim(t) = Lotes[Rastreada]
        BY <3>1, AsOrdens DEF Fim
      <4>2. run.ordem[run.prox] \in 1..Lotes[Rastreada]
        BY <1>1, <2>1, <4>1, AsOrdens
      <4>3. QED
        BY <3>1, <4>2 DEF NoLugar
    <3>2. CASE t # Rastreada
      BY <1>1, <3>2 DEF NoLugar
    <3>3. QED
      BY <3>1, <3>2
  <2>3. QED
    BY <1>1, <2>1, <2>2 DEF PInv, TypeOK, RunCerto, PuloCerto, LoteCerto
<1>3. /\ run'.etapa = "gravado"
      /\ run'.entregues = run.entregues + 1 /\ run'.prox = run.prox + 1
      /\ run'.contador = run.contador + 1 /\ run'.ignorados = run.ignorados
      /\ run'.tabela = run.tabela /\ run'.salvo = run.salvo
      /\ run'.pular = run.pular /\ run'.loteRef = run.loteRef
      /\ run'.fase = run.fase
      /\ run'.concluida = run.concluida /\ run'.restrita = run.restrita
      /\ run'.ordem = run.ordem
      /\ UNCHANGED <<checkpoint, execucao, falhas, quedas>>
      /\ atual' = [atual EXCEPT !.feito[t] = @ \cup {lote}]
      /\ gravada' = [gravada EXCEPT !.feito[t] = @ \cup {lote}]
  BY <1>1 DEF GravarLote, Contar, Run
<1>4. run' \in Run
  <2>1. run.entregues + 1 \in Nat /\ run.prox + 1 \in Nat /\ run.contador + 1 \in Nat
    BY <1>1
  <2>2. QED
    BY <1>1, <2>1 DEF GravarLote, Run, Etapas
<1>5. /\ atual' \in Cadeia /\ Conserva(atual, atual', Tabelas)
      /\ atual'.feito[t] = atual.feito[t] \cup {lote} /\ atual'.fora = atual.fora
      /\ gravada' \in Cadeia /\ Conserva(gravada, gravada', Tabelas)
  <2>1. /\ atual \in Cadeia /\ t \in Tabelas /\ {lote} \in SUBSET Nat
        /\ atual' = [atual EXCEPT !.feito[t] = @ \cup {lote}]
    BY <1>2, <1>3
  <2>2. /\ gravada \in Cadeia /\ t \in Tabelas /\ {lote} \in SUBSET Nat
        /\ gravada' = [gravada EXCEPT !.feito[t] = @ \cup {lote}]
    BY <1>2, <1>3
  <2> HIDE DEF t, lote
  <2>3. atual' \in Cadeia /\ Conserva(atual, atual', Tabelas)
    BY <2>1, ContarConserva
  <2>4. atual'.feito[t] = atual.feito[t] \cup {lote} /\ atual'.fora = atual.fora
    BY <2>1 DEF Cadeia
  <2>5. gravada' \in Cadeia /\ Conserva(gravada, gravada', Tabelas)
    BY <2>2, ContarConserva
  <2>6. QED
    BY <2>3, <2>4, <2>5
<1>6. destino' \in Destino
  BY <1>1, <1>2 DEF GravarLote, Destino
<1>7. TypeOK'
  BY <1>3, <1>4, <1>5, <1>6 DEF PInv, TypeOK
<1>8. CheckpointCumprido'
  <2>1. 1..Prometida(checkpoint) \subseteq Tabelas
    BY PrometidaTipo, AsTabelas DEF PInv, TypeOK
  <2>2. QED
    BY <1>3, <1>5, <2>1, GravadaConserva DEF Conserva
<1>9. PassadasFeitas' /\ SalvoCerto'
  <2>1. Conserva(atual, atual', Tabelas \ {run.tabela})
    BY <1>5 DEF Conserva
  <2>2. QED
    BY <1>1, <1>3, <1>5, <2>1, AtualConserva
<1>10. PosicaoCerta'
  BY <1>1, <1>3, <1>5 DEF RunCerto, PosicaoCerta, Conserva
<1>11. PuloCerto' /\ NadaPrometido' /\ LoteCerto'
  BY <1>2, <1>3 DEF PuloCerto, NadaPrometido, LoteCerto
<1>12. LeituraCerta'
  <2>1. LeituraCerta
    BY <1>1 DEF RunCerto
  <2>2. t # Rastreada =>
          /\ run.ignorados = 0
          /\ t \in atual'.fora \/ 1..run.prox \subseteq atual'.feito[t]
    <3>1. 1..run.prox \subseteq (1..run.prox - 1) \cup {run.prox}
      BY <1>1
    <3>2. QED
      BY <1>1, <1>5, <2>1, <3>1 DEF LeituraCerta, NoLugar
  <2>3. t = Rastreada /\ Rastreada \notin atual'.fora =>
          /\ run.ordem = atual'.ordem
          /\ Lidos(atual', run.prox) /\ Lidos(atual', run.ignorados)
    <3> SUFFICES ASSUME t = Rastreada, Rastreada \notin atual'.fora
                 PROVE  /\ run.ordem = atual'.ordem
                        /\ Lidos(atual', run.prox)
                        /\ Lidos(atual', run.ignorados)
      OBVIOUS
    <3>1. /\ run.ordem = atual'.ordem /\ run.ordem = atual.ordem
          /\ NoInicio(run.ordem, run.prox - 1) \subseteq atual.feito[Rastreada]
          /\ Lidos(atual, run.ignorados)
      BY <1>1, <1>5, <2>1 DEF LeituraCerta, Lidos, Conserva
    <3>2. lote = run.ordem[run.prox] /\ run.prox \in 1..Lotes[Rastreada]
      BY <1>1, <2>1, AsOrdens DEF NoLugar, GravarLote, Fim, LeituraCerta
    <3>3. NoInicio(run.ordem, run.prox)
            = NoInicio(run.ordem, run.prox - 1) \cup {run.ordem[run.prox]}
      BY <1>1, <3>2, OInicioDaOrdem
    <3>4. Lidos(atual', run.prox)
      BY <1>5, <3>1, <3>2, <3>3 DEF Lidos
    <3>5. QED
      BY <1>1, <1>2, <1>5, <3>1, <3>4, LidosCresce DEF Conserva
  <2>4. run'.contador > 0 /\ run'.entregues > run'.ignorados
    BY <1>1, <1>3
  <2>5. run'.prox - 1 = run.prox /\ run'.prox > 0
    BY <1>1, <1>3
  <2>6. t = Rastreada /\ Rastreada \notin atual'.fora =>
          /\ run'.prox = run'.entregues + 1
          /\ run'.ordem = atual'.ordem /\ Lidos(atual', run'.prox - 1)
          /\ Lidos(atual', run'.ignorados)
          /\ run'.contador = run'.entregues
    BY <1>1, <1>3, <1>5, <2>1, <2>3, <2>5 DEF LeituraCerta
  <2>7. QED
    BY <1>1, <1>3, <2>1, <2>2, <2>4, <2>5, <2>6 DEF LeituraCerta
<1>13. QED
  BY <1>7, <1>8, <1>9, <1>10, <1>11, <1>12 DEF PInv, RunCerto

(* The connection is lost: professor becomes an exception.                    *)
LEMMA ReconectarPreserva ==
  ASSUME PInv, Reconectar
  PROVE  PInv'
<1> USE TipoDoRun
<1> DEFINE E == {run.tabela} \cap {Rastreada}
<1>1. run \in Run /\ RunCerto /\ run.etapa = "lendo"
  BY DEF PInv, TypeOK, Reconectar, Em
<1>2. /\ atual \in Cadeia /\ gravada \in Cadeia /\ destino \in Destino
      /\ run.tabela \in Tabelas /\ run.pular = 0 /\ E \subseteq Tabelas
  BY <1>1, AsFases, AsTabelas DEF PInv, TypeOK, RunCerto, PosicaoCerta, PuloCerto
<1>3. PICK inicio \in 1..run.prox - 1, o \in Ordens :
        run' = [run EXCEPT !.prox = inicio, !.ordem = o]
  BY <1>1 DEF Reconectar
<1>4. inicio \in Nat /\ inicio > 0 /\ 1..inicio - 1 \subseteq 1..run.prox - 1
  BY <1>1
<1>5. /\ run'.etapa = "lendo" /\ run' \in Run /\ run'.prox = inicio
      /\ run'.entregues = run.entregues /\ run'.contador = run.contador
      /\ run'.ignorados = run.ignorados
      /\ run'.tabela = run.tabela /\ run'.salvo = run.salvo
      /\ run'.pular = run.pular /\ run'.loteRef = run.loteRef
      /\ run'.fase = run.fase
      /\ run'.concluida = run.concluida /\ run'.restrita = run.restrita
  BY <1>1, <1>3, <1>4 DEF Run
<1>6. /\ UNCHANGED <<checkpoint, execucao, falhas>>
      /\ quedas' = quedas + 1 /\ quedas < MaxQuedas
      /\ destino' = [destino EXCEPT !.caidas = @ \cup {run.tabela}]
      /\ atual' = [atual EXCEPT !.fora = @ \cup E]
      /\ gravada' = [gravada EXCEPT !.fora = @ \cup E]
  BY DEF Reconectar
<1>7. /\ atual' \in Cadeia /\ Conserva(atual, atual', Tabelas)
      /\ atual'.feito = atual.feito /\ atual'.fora = atual.fora \cup E
  BY <1>2, <1>6 DEF Cadeia, Conserva
<1>8. gravada' \in Cadeia /\ Conserva(gravada, gravada', Tabelas)
  BY <1>2, <1>6 DEF Cadeia, Conserva
<1>9. TypeOK'
  <2>1. destino' \in Destino
    BY <1>2, <1>6 DEF Destino
  <2>2. quedas' \in 0..MaxQuedas
    BY <1>6, ProfessoresAssumption DEF PInv, TypeOK
  <2>3. QED
    BY <1>5, <1>6, <1>7, <1>8, <2>1, <2>2 DEF PInv, TypeOK
<1>10. CheckpointCumprido'
  <2>1. 1..Prometida(checkpoint) \subseteq Tabelas
    BY PrometidaTipo, AsTabelas DEF PInv, TypeOK
  <2>2. QED
    BY <1>6, <1>8, <2>1, GravadaConserva DEF Conserva
<1>11. PassadasFeitas' /\ SalvoCerto'
  <2>1. Conserva(atual, atual', Tabelas \ {run.tabela})
    BY <1>7 DEF Conserva
  <2>2. QED
    BY <1>1, <1>5, <1>7, <2>1, AtualConserva
<1>12. PosicaoCerta'
  BY <1>1, <1>5, <1>7 DEF RunCerto, PosicaoCerta, Conserva
<1>13. PuloCerto' /\ NadaPrometido' /\ LoteCerto'
  BY <1>1, <1>2, <1>5 DEF RunCerto, PuloCerto, NadaPrometido, LoteCerto
<1>14. LeituraCerta'
  <2>1. LeituraCerta
    BY <1>1 DEF RunCerto
  <2>2. run.tabela # Rastreada =>
          \/ run.tabela \in atual'.fora
          \/ 1..run'.prox - 1 \subseteq atual'.feito[run.tabela]
    BY <1>1, <1>4, <1>5, <1>7, <2>1 DEF LeituraCerta
  <2>3. run.tabela = Rastreada => Rastreada \in atual'.fora
    BY <1>7
  <2>4. QED
    BY <1>1, <1>4, <1>5, <2>1, <2>2, <2>3 DEF LeituraCerta
<1>15. QED
  BY <1>9, <1>10, <1>11, <1>12, <1>13, <1>14 DEF PInv, RunCerto

(* The administrators are not loaded: the table becomes an exception.         *)
LEMMA EngolirErroPreserva ==
  ASSUME PInv, EngolirErro
  PROVE  PInv'
<1> USE TipoDoRun
<1> DEFINE A == Administrador
<1>1. /\ run \in Run /\ RunCerto /\ run.etapa = "consultando" /\ run.tabela = A
  BY DEF PInv, TypeOK, EngolirErro, Em
<1>2. /\ atual \in Cadeia /\ gravada \in Cadeia /\ destino \in Destino
      /\ run.pular = 0 /\ run.loteRef = 0 /\ A \in Tabelas
  BY <1>1, AsTabelas DEF PInv, TypeOK, RunCerto, PuloCerto, LoteCerto
<1>3. /\ run'.etapa = "terminada" /\ run' \in Run
      /\ run'.tabela = run.tabela /\ run'.salvo = run.salvo
      /\ run'.pular = run.pular /\ run'.loteRef = run.loteRef
      /\ run'.fase = run.fase
      /\ run'.concluida = run.concluida /\ run'.restrita = run.restrita
      /\ UNCHANGED <<checkpoint, execucao, quedas>>
  BY <1>1 DEF EngolirErro, Run, Etapas
<1>4. PICK resto \in {{}, destino.lotes[A]} :
        /\ destino' = [destino EXCEPT !.lotes[A] = resto]
        /\ atual' = [atual EXCEPT !.feito[A] = @ \cap resto, !.fora = @ \cup {A}]
        /\ gravada' = [gravada EXCEPT !.feito[A] = @ \cap resto, !.fora = @ \cup {A}]
  BY DEF EngolirErro
<1>5. resto \in SUBSET Nat
  BY <1>2 DEF Destino
<1> HIDE DEF A
<1>6. ASSUME NEW c \in Cadeia, NEW d,
             d = [c EXCEPT !.feito[A] = @ \cap resto, !.fora = @ \cup {A}]
      PROVE  d \in Cadeia /\ Conserva(c, d, Tabelas) /\ A \in d.fora
  <2>1. /\ c.feito \in [Tabelas -> SUBSET Nat]
        /\ d.feito = [c.feito EXCEPT ![A] = c.feito[A] \cap resto]
        /\ d.fora = c.fora \cup {A} /\ d.restrita = c.restrita
        /\ d.ordem = c.ordem
    BY <1>6 DEF Cadeia
  <2>2. d \in Cadeia
    BY <1>2, <1>5, <1>6, <2>1 DEF Cadeia
  <2>3. \A s \in Tabelas : s \in d.fora \/ c.feito[s] \subseteq d.feito[s]
    BY <2>1
  <2>4. c.feito[Rastreada] \subseteq d.feito[Rastreada]
    BY <2>1, AsTabelas DEF A
  <2>5. QED
    BY <2>1, <2>2, <2>3, <2>4 DEF Conserva
<1>7. atual' \in Cadeia /\ Conserva(atual, atual', Tabelas) /\ A \in atual'.fora
  BY <1>2, <1>4, <1>6
<1>8. gravada' \in Cadeia /\ Conserva(gravada, gravada', Tabelas)
  BY <1>2, <1>4, <1>6
<1>9. TypeOK'
  <2>1. destino' \in Destino
    BY <1>2, <1>4, <1>5 DEF Destino
  <2>2. falhas' \in 0..MaxFalhas
    BY ProfessoresAssumption DEF EngolirErro, PInv, TypeOK
  <2>3. QED
    BY <1>3, <1>7, <1>8, <2>1, <2>2 DEF PInv, TypeOK
<1>10. CheckpointCumprido'
  <2>1. 1..Prometida(checkpoint) \subseteq Tabelas
    BY PrometidaTipo, AsTabelas DEF PInv, TypeOK
  <2>2. QED
    BY <1>3, <1>8, <2>1, GravadaConserva DEF Conserva
<1>11. PassadasFeitas' /\ SalvoCerto'
  <2>1. Conserva(atual, atual', Tabelas \ {run.tabela})
    BY <1>7 DEF Conserva
  <2>2. QED
    BY <1>1, <1>3, <1>7, <2>1, AtualConserva
<1>12. PosicaoCerta'
  BY <1>1, <1>3, <1>7 DEF RunCerto, PosicaoCerta, Conserva
<1>13. Completa(atual', run.tabela)
  BY <1>1, <1>7 DEF Completa, A
<1>14. PuloCerto' /\ NadaPrometido' /\ LoteCerto' /\ LeituraCerta'
  BY <1>2, <1>3, <1>13 DEF PuloCerto, NadaPrometido, LoteCerto, LeituraCerta
<1>15. QED
  BY <1>9, <1>10, <1>11, <1>12, <1>14 DEF PInv, RunCerto

(* The counters of a table that starts keep the type of run.                  *)
LEMMA RunDaTabela ==
  ASSUME NEW r \in Run, NEW e \in Etapas, NEW n \in Nat, NEW o \in Ordens
  PROVE  [r EXCEPT !.etapa = e, !.loteRef = 0, !.ignorados = n,
                   !.entregues = 0, !.contador = n, !.prox = 1,
                   !.ordem = o] \in Run
<1>1. 0 \in Nat /\ 1 \in Nat
  OBVIOUS
<1>2. QED
  BY <1>1 DEF Run

(* A table starts, and is emptied if it is one of those: no checkpoint        *)
(* promises it any more.                                                      *)
LEMMA IniciarTabelaPreserva ==
  ASSUME PInv, IniciarTabela
  PROVE  PInv'
<1> USE TipoDoRun
<1> DEFINE t == run.tabela
           ini == IF t \in FullRefresh THEN 0 ELSE run.loteRef
<1>1. /\ run \in Run /\ RunCerto /\ run.etapa = "fase" /\ run.pular = 0
      /\ t <= Ultima[run.fase]
  BY DEF PInv, TypeOK, IniciarTabela, Em
<1>2. /\ atual \in Cadeia /\ gravada \in Cadeia /\ destino \in Destino
      /\ t \in Tabelas /\ t \in 1..21 /\ ini \in Nat
  BY <1>1, AsFases, AsTabelas DEF PInv, TypeOK, RunCerto, PosicaoCerta
<1>0. PICK o \in IF t = Rastreada THEN Ordens ELSE {run.ordem} :
        /\ run' = [run EXCEPT !.etapa = IF t \in DoSSO THEN "consultando"
                                        ELSE "lendo",
                              !.loteRef = 0, !.ignorados = ini,
                              !.entregues = 0, !.contador = ini, !.prox = 1,
                              !.ordem = o]
        /\ IF t \in Apagadas \ DoSSO
           THEN Apagar(t, Restante(t))
           ELSE /\ atual' = IF t = Rastreada THEN Reler(atual, o, ini) ELSE atual
                /\ UNCHANGED <<destino, gravada>>
  BY DEF IniciarTabela
<1>3. /\ run'.etapa \in {"consultando", "lendo"} /\ run' \in Run
      /\ run'.tabela = run.tabela /\ run'.salvo = run.salvo
      /\ run'.pular = run.pular /\ run'.loteRef = 0
      /\ run'.ignorados = ini /\ run'.contador = ini
      /\ run'.entregues = 0 /\ run'.prox = 1
      /\ run'.fase = run.fase /\ run'.ordem = o /\ o \in Ordens
      /\ run'.concluida = run.concluida /\ run'.restrita = run.restrita
      /\ UNCHANGED <<checkpoint, execucao, falhas, quedas>>
  <2>1. o \in Ordens
    BY <1>0, <1>1
  <2>2. UNCHANGED <<checkpoint, execucao, falhas, quedas>>
    BY DEF IniciarTabela
  <2>3. (IF t \in DoSSO THEN "consultando" ELSE "lendo")
          \in {"consultando", "lendo"}
    OBVIOUS
  <2>4. ASSUME NEW e \in Etapas, NEW n \in Nat
        PROVE  [run EXCEPT !.etapa = e, !.loteRef = 0, !.ignorados = n,
                           !.entregues = 0, !.contador = n, !.prox = 1,
                           !.ordem = o] \in Run
    BY <1>1, <2>1, RunDaTabela
  <2>5. {"consultando", "lendo"} \subseteq Etapas
    BY DEF Etapas
  <2> HIDE DEF t, ini
  <2>6. run' \in Run
    BY <1>0, <1>2, <2>3, <2>4, <2>5
  <2>7. /\ run'.etapa = (IF t \in DoSSO THEN "consultando" ELSE "lendo")
        /\ run'.tabela = run.tabela /\ run'.salvo = run.salvo
        /\ run'.pular = run.pular /\ run'.loteRef = 0
        /\ run'.ignorados = ini /\ run'.contador = ini
    BY <1>0, <1>1 DEF Run
  <2>8. /\ run'.entregues = 0 /\ run'.prox = 1 /\ run'.fase = run.fase
        /\ run'.ordem = o
        /\ run'.concluida = run.concluida /\ run'.restrita = run.restrita
    BY <1>0, <1>1 DEF Run
  <2>9. QED
    BY <2>1, <2>2, <2>3, <2>6, <2>7, <2>8
<1>4. \/ t \in Apagadas \ DoSSO /\ Apagar(t, Restante(t))
      \/ t # Rastreada /\ UNCHANGED <<destino, atual, gravada>>
      \/ /\ t = Rastreada /\ atual' = Reler(atual, o, ini)
         /\ UNCHANGED <<destino, gravada>>
  BY <1>0
<1>5. Restante(t) \in SUBSET Nat
  BY <1>2 DEF Restante, Destino
<1>6. t # Rastreada => Prometida(checkpoint) < t
  BY <1>1 DEF RunCerto, NadaPrometido, Rastreada
<1>7. Prometida(checkpoint) \in 0..21
  BY PrometidaTipo DEF PInv, TypeOK
<1> HIDE DEF t, ini
<1>8. ASSUME NEW c \in Cadeia, NEW d, t # Rastreada,
             d = [c EXCEPT !.feito[t] = @ \cap Restante(t)]
      PROVE  d \in Cadeia /\ Conserva(c, d, Tabelas \ {t})
  <2>1. /\ c.feito \in [Tabelas -> SUBSET Nat]
        /\ d.feito = [c.feito EXCEPT ![t] = c.feito[t] \cap Restante(t)]
        /\ d.fora = c.fora /\ d.restrita = c.restrita /\ d.ordem = c.ordem
    BY <1>8 DEF Cadeia
  <2>2. d \in Cadeia
    BY <1>2, <1>8, <2>1 DEF Cadeia
  <2>3. \A s \in Tabelas \ {t} : c.feito[s] \subseteq d.feito[s]
    BY <2>1
  <2>4. QED
    BY <1>8, <2>1, <2>2, <2>3, AsTabelas DEF Conserva
<1>9. ASSUME NEW c \in Cadeia
      PROVE  Conserva(c, c, Tabelas \ {t}) /\ Conserva(c, c, Tabelas)
  BY DEF Conserva
<1>10. /\ atual' \in Cadeia /\ gravada' \in Cadeia /\ destino' \in Destino
       /\ t # Rastreada => Conserva(atual, atual', Tabelas \ {t})
       /\ Conserva(gravada, gravada', 1..Prometida(checkpoint))
       /\ atual'.restrita = atual.restrita
       /\ t = Rastreada =>
            /\ atual'.ordem = o /\ atual'.feito = atual.feito
            /\ Rastreada \notin atual'.fora =>
                 /\ Rastreada \notin atual.fora
                 /\ NoInicio(o, ini) \subseteq NoInicio(atual.ordem, ini)
  <2>1. CASE t \in Apagadas /\ Apagar(t, Restante(t))
    <3>1. t # Rastreada /\ 1..Prometida(checkpoint) \subseteq Tabelas \ {t}
      BY <1>2, <1>6, <1>7, <2>1, AsTabelas
    <3>2. /\ atual' = [atual EXCEPT !.feito[t] = @ \cap Restante(t)]
          /\ gravada' = [gravada EXCEPT !.feito[t] = @ \cap Restante(t)]
      BY <2>1 DEF Apagar
    <3>3. atual' \in Cadeia /\ Conserva(atual, atual', Tabelas \ {t})
      BY <1>2, <1>8, <3>1, <3>2
    <3>4. gravada' \in Cadeia /\ Conserva(gravada, gravada', Tabelas \ {t})
      BY <1>2, <1>8, <3>1, <3>2
    <3>5. destino' \in Destino
      BY <1>2, <1>5, <2>1 DEF Apagar, Destino
    <3>6. QED
      BY <3>1, <3>3, <3>4, <3>5 DEF Conserva
  <2>2. CASE t # Rastreada /\ UNCHANGED <<destino, atual, gravada>>
    <3>1. 1..Prometida(checkpoint) \subseteq Tabelas
      BY <1>7, AsTabelas
    <3>2. QED
      BY <1>2, <1>9, <2>2, <3>1 DEF Conserva
  <2>3. CASE /\ t = Rastreada /\ atual' = Reler(atual, o, ini)
             /\ UNCHANGED <<destino, gravada>>
    <3> DEFINE F == IF NoInicio(o, ini) \subseteq NoInicio(atual.ordem, ini)
                    THEN atual.fora ELSE atual.fora \cup {Rastreada}
    <3>1. /\ F \subseteq Tabelas
          /\ Rastreada \notin F =>
               /\ Rastreada \notin atual.fora
               /\ NoInicio(o, ini) \subseteq NoInicio(atual.ordem, ini)
      BY <1>2, AsTabelas DEF Cadeia
    <3>2. atual' = [atual EXCEPT !.ordem = o, !.fora = F]
      BY <2>3 DEF Reler
    <3> HIDE DEF F
    <3>3. /\ atual' \in Cadeia /\ atual'.ordem = o /\ atual'.fora = F
          /\ atual'.feito = atual.feito /\ atual'.restrita = atual.restrita
      BY <1>2, <1>3, <3>1, <3>2 DEF Cadeia
    <3>4. 1..Prometida(checkpoint) \subseteq Tabelas
      BY <1>7, AsTabelas
    <3>5. QED
      BY <1>2, <1>9, <2>3, <3>1, <3>3, <3>4 DEF Conserva
  <2>4. QED
    BY <1>4, <2>1, <2>2, <2>3
<1>11. TypeOK'
  BY <1>3, <1>10 DEF PInv, TypeOK
<1>12. CheckpointCumprido'
  BY <1>3, <1>10, GravadaConserva
<1>13. PassadasFeitas' /\ SalvoCerto'
  <2>1. CASE t # Rastreada
    BY <1>1, <1>3, <1>10, <2>1, AtualConserva DEF t
  <2>2. CASE t = Rastreada
    <3>1. run.tabela = 1 /\ run.salvo.lote = 0 /\ SalvoCerto
      BY <1>1, <2>2 DEF RunCerto, SalvoCerto, t, Rastreada
    <3>2. Lidos(atual', 0)
      BY <1>10, NadaLido
    <3>3. QED
      BY <1>1, <1>3, <3>1, <3>2 DEF PassadasFeitas, SalvoCerto
  <2>3. QED
    BY <2>1, <2>2
<1>14. PosicaoCerta'
  BY <1>1, <1>3, <1>10 DEF RunCerto, PosicaoCerta, Conserva, t
<1>15. PuloCerto' /\ NadaPrometido' /\ LoteCerto'
  BY <1>1, <1>3 DEF PuloCerto, NadaPrometido, LoteCerto
<1>16. LeituraCerta'
  <2>1. run'.tabela # Rastreada => run'.ignorados = 0
    BY <1>1, <1>3 DEF RunCerto, LoteCerto, ini, t
  <2>2. run'.tabela = Rastreada /\ Rastreada \notin atual'.fora =>
          /\ run'.ordem = atual'.ordem
          /\ Lidos(atual', run'.prox - 1) /\ Lidos(atual', run'.ignorados)
    <3> SUFFICES ASSUME t = Rastreada, Rastreada \notin atual'.fora
                 PROVE  /\ run'.ordem = atual'.ordem
                        /\ Lidos(atual', run'.prox - 1)
                        /\ Lidos(atual', run'.ignorados)
      BY <1>3 DEF t
    <3>1. Lidos(atual', 0) /\ run'.prox - 1 = 0 /\ run'.ordem = atual'.ordem
      BY <1>3, <1>10, NadaLido
    <3>2. CASE run.loteRef = 0
      BY <1>3, <3>1, <3>2 DEF ini
    <3>3. CASE run.loteRef # 0
      <4>1. Lidos(atual, run.loteRef) /\ ini = run.loteRef
        BY <1>1, <3>3, AsTabelas DEF RunCerto, LoteCerto, ini, t
      <4>2. QED
        BY <1>3, <1>10, <3>1, <4>1 DEF Lidos
    <3>4. QED
      BY <3>2, <3>3
  <2>3. 1..run'.prox - 1 = {} /\ run'.prox = run'.entregues + 1 /\ run'.prox > 0
    BY <1>3
  <2>4. run'.contador = (IF run'.entregues < run'.ignorados THEN run'.ignorados
                         ELSE run'.entregues)
    BY <1>2, <1>3
  <2>5. QED
    BY <1>3, <2>1, <2>2, <2>3, <2>4 DEF LeituraCerta
<1>17. QED
  BY <1>11, <1>12, <1>13, <1>14, <1>15, <1>16 DEF PInv, RunCerto

-------------------------------------------------------------------------------
(* Where a run starts: at the first phase, or at one that the tables the      *)
(* checkpoint promises reach.                                                 *)
LEMMA OInicio ==
  ASSUME NEW c \in Checkpoint, c.indice.tabela = 2 => c.pagina = 0,
         c.indice.tabela = 0 => c.indice.lote = 0
  PROVE  /\ FaseInicial(c) \in Fases /\ PularAte(c) \in 0..21
         /\ LoteInicial(c) \in Nat
         /\ FaseInicial(c) # 1 => Primeira[FaseInicial(c)] - 1 <= Prometida(c)
         /\ PularAte(c) = 0 =>
              \/ FaseInicial(c) = 1
              \/ Prometida(c) = Primeira[FaseInicial(c)] - 1 /\ LoteInicial(c) = 0
         /\ PularAte(c) # 0 =>
              /\ PularAte(c) = Prometida(c)
              /\ PularAte(c) <= Ultima[FaseInicial(c)]
              /\ \/ Primeira[FaseInicial(c)] <= PularAte(c)
                 \/ FaseInicial(c) # 1 /\ PuloPerdido(c)
         /\ PularAte(c) = 0 /\ LoteInicial(c) # 0 =>
              c.indice.tabela = Rastreada /\ LoteInicial(c) = c.indice.lote
<1> DEFINE i == c.indice.tabela
           n == c.indice.lote
<1>1. c.pagina \in 0..4 /\ i \in 0..21 /\ n \in Nat
  BY AsTabelas DEF Checkpoint, Indice
<1>2. /\ LoteInicial(c) \in {0, n}
      /\ PularAte(c) = (IF n = 0 THEN i ELSE i - 1)
      /\ Prometida(c) = (IF i = 0 THEN IF c.pagina \in 1..3 THEN Ultima[c.pagina] ELSE 0
                         ELSE PularAte(c))
  BY DEF LoteInicial, PularAte, Prometida
<1>3. CASE i = 0
  <2>1. FaseInicial(c) = (IF c.pagina < 4 THEN c.pagina + 1 ELSE 1)
    BY <1>3 DEF FaseInicial
  <2>2. FaseInicial(c) \in Fases
    BY <1>1, <2>1, AsFases
  <2>3. QED
    BY <1>1, <1>2, <1>3, <2>1, <2>2, AsFases
<1>4. CASE i = 2
  <2>1. FaseInicial(c) = 1
    BY <1>1, <1>4 DEF FaseInicial, FaseMacro
  <2>2. QED
    BY <1>1, <1>2, <1>4, <2>1, AsFases
<1>5. CASE i # 0 /\ i # 2
  <2>1. i \in Tabelas
    BY <1>1, <1>5, AsTabelas
  <2>2. /\ FaseMacro(i) \in Fases
        /\ Primeira[FaseMacro(i)] <= i /\ i <= Ultima[FaseMacro(i)]
    BY <1>5, <2>1, FaseDaTabela
  <2>3. FaseInicial(c) = FaseMacro(i)
    BY <1>5, <2>2, AsFases DEF FaseInicial
  <2>4. i = 1 => LoteInicial(c) = n
    BY DEF LoteInicial, FullRefresh
  <2>5. QED
    BY <1>1, <1>2, <1>5, <2>2, <2>3, <2>4, AsFases DEF PuloPerdido, Rastreada
<1>6. QED
  BY <1>3, <1>4, <1>5

(* A run starts, from the checkpoint or from the beginning.                   *)
LEMMA IniciarPreserva ==
  ASSUME PInv, NEW continuar \in BOOLEAN, NEW restrita \in BOOLEAN,
         Iniciar(continuar, restrita)
  PROVE  PInv'
<1> USE TipoDoRun
<1> DEFINE c == IF continuar THEN checkpoint
                ELSE [pagina |-> 0, indice |-> SemIndice]
           f == FaseInicial(c)
           p == PularAte(c)
           l == LoteInicial(c)
<1>1. /\ checkpoint \in Checkpoint /\ CheckpointCumprido
      /\ atual \in Cadeia /\ gravada \in Cadeia
  BY DEF PInv, TypeOK
<1>2. /\ c \in Checkpoint /\ (c.indice.tabela = 2 => c.pagina = 0)
      /\ (c.indice.tabela = 0 => c.indice.lote = 0)
      /\ Feitas(gravada, Prometida(c))
      /\ (c.indice.tabela = Rastreada => Lidos(gravada, c.indice.lote))
      /\ c = checkpoint \/ (f = 1 /\ p = 0 /\ l = 0)
  <2>1. CASE continuar
    BY <1>1, <2>1 DEF CheckpointCumprido
  <2>2. CASE ~continuar
    <3>1. c = [pagina |-> 0, indice |-> [tabela |-> 0, lote |-> 0]]
      BY <2>2 DEF SemIndice
    <3>2. c.pagina = 0 /\ c.indice.tabela = 0 /\ c.indice.lote = 0
      BY <3>1
    <3>3. c \in Checkpoint
      BY <3>1 DEF Checkpoint, Indice
    <3>4. Prometida(c) = 0 /\ FaseInicial(c) = 1 /\ PularAte(c) = 0 /\ LoteInicial(c) = 0
      BY <3>2 DEF Prometida, FaseInicial, PularAte, LoteInicial
    <3>5. QED
      BY <3>2, <3>3, <3>4 DEF Feitas, Rastreada
  <2>3. QED
    BY <2>1, <2>2
<1>3. /\ f \in Fases /\ p \in 0..21 /\ l \in Nat
      /\ f # 1 => Primeira[f] - 1 <= Prometida(c)
      /\ p = 0 => f = 1 \/ (Prometida(c) = Primeira[f] - 1 /\ l = 0)
      /\ p # 0 => /\ p = Prometida(c) /\ p <= Ultima[f]
                  /\ Primeira[f] <= p \/ (f # 1 /\ PuloPerdido(c))
      /\ p = 0 /\ l # 0 => c.indice.tabela = Rastreada /\ l = c.indice.lote
  <2>1. /\ c \in Checkpoint /\ (c.indice.tabela = 2 => c.pagina = 0)
        /\ (c.indice.tabela = 0 => c.indice.lote = 0)
    BY <1>2
  <2> HIDE DEF c
  <2>2. f \in Fases /\ p \in 0..21 /\ l \in Nat
    BY <2>1, OInicio
  <2>3. f # 1 => Primeira[f] - 1 <= Prometida(c)
    BY <2>1, OInicio
  <2>4. p = 0 => f = 1 \/ (Prometida(c) = Primeira[f] - 1 /\ l = 0)
    BY <2>1, OInicio
  <2>5. p # 0 => /\ p = Prometida(c) /\ p <= Ultima[f]
                 /\ Primeira[f] <= p \/ (f # 1 /\ PuloPerdido(c))
    BY <2>1, OInicio
  <2>6. p = 0 /\ l # 0 => c.indice.tabela = Rastreada /\ l = c.indice.lote
    BY <2>1, OInicio
  <2>7. QED
    BY <2>2, <2>3, <2>4, <2>5, <2>6
<1>4. Prometida(c) \in 0..21
  BY <1>2, PrometidaTipo
<1>5. /\ run'.etapa = "fase" /\ run'.fase = f /\ run'.tabela = Primeira[f]
      /\ run'.pular = p /\ run'.loteRef = l /\ run'.salvo = SemIndice
      /\ run'.concluida = 0 /\ run'.alguma = FALSE /\ run'.restrita = restrita
      /\ UNCHANGED <<checkpoint, destino, gravada, falhas, quedas>>
      /\ execucao' = "em_execucao" /\ atual' = Encadear(c, restrita)
  BY DEF Iniciar
<1>6. run' \in Run
  <2>1. f \in Fases /\ Primeira[f] \in 1..22 /\ p \in {0} \cup Tabelas /\ l \in Nat
    BY <1>3, AsFases, AsTabelas
  <2>2. SemIndice \in Indice
    BY DEF SemIndice, Indice
  <2> HIDE DEF f, p, l
  <2>3. run' = [etapa |-> "fase", fase |-> f, tabela |-> Primeira[f],
                pular |-> p, loteRef |-> l,
                ignorados |-> 0, entregues |-> 0, contador |-> 0,
                prox |-> 1, ordem |-> PrimeiraOrdem, salvo |-> SemIndice,
                concluida |-> 0, alguma |-> FALSE, restrita |-> restrita]
    BY DEF Iniciar, f, p, l, c
  <2>4. QED
    BY <2>1, <2>2, <2>3, AsOrdens DEF Run, Etapas
<1>7. /\ atual' \in Cadeia /\ (restrita => atual'.restrita)
      /\ \/ f = 1 /\ p = 0 /\ l = 0
         \/ /\ gravada.fora \subseteq atual'.fora /\ atual'.feito = gravada.feito
            /\ atual'.ordem = gravada.ordem
            /\ gravada.restrita => atual'.restrita
            /\ PuloPerdido(c) => Primeira[f]..Ultima[f] \subseteq atual'.fora
  <2>1. CASE f = 1 /\ p = 0 /\ l = 0
    <3>1. atual' = [CadeiaNova EXCEPT !.restrita = restrita]
      BY <1>5, <2>1 DEF Encadear
    <3>2. QED
      BY <2>1, <3>1, AsOrdens DEF CadeiaNova, Cadeia
  <2>2. CASE ~(f = 1 /\ p = 0 /\ l = 0)
    <3>1. Primeira[f]..Ultima[f] \subseteq Tabelas
      BY <1>3, AsFases, AsTabelas
    <3> DEFINE G == IF PuloPerdido(c)
                    THEN gravada.fora \cup (Primeira[f]..Ultima[f])
                    ELSE gravada.fora
    <3>2. atual' = [gravada EXCEPT !.restrita = gravada.restrita \/ restrita, !.fora = G]
      BY <1>5, <2>2 DEF Encadear
    <3>3. G \subseteq Tabelas /\ gravada.fora \subseteq G
          /\ (PuloPerdido(c) => Primeira[f]..Ultima[f] \subseteq G)
      BY <1>1, <3>1 DEF Cadeia
    <3>4. (gravada.restrita \/ restrita) \in BOOLEAN
      BY <1>1 DEF Cadeia
    <3> HIDE DEF G, f, p, l
    <3>5. /\ atual' \in Cadeia /\ atual'.fora = G /\ atual'.feito = gravada.feito
          /\ atual'.restrita = (gravada.restrita \/ restrita)
          /\ atual'.ordem = gravada.ordem
      BY <1>1, <3>2, <3>3, <3>4 DEF Cadeia
    <3>6. QED
      BY <3>3, <3>5
  <2>3. QED
    BY <2>1, <2>2
<1> HIDE DEF c, f, p, l
<1>8. (f = 1 /\ p = 0 /\ l = 0) \/ Feitas(atual', Prometida(c))
  <2>1. CASE gravada.fora \subseteq atual'.fora /\ atual'.feito = gravada.feito
             /\ (gravada.restrita => atual'.restrita)
    BY <1>1, <1>2, <1>4, <1>7, <2>1, FeitasCresce
  <2>2. QED
    BY <1>7, <2>1
<1>9. (f = 1 /\ p = 0 /\ l = 0)
      \/ (c.indice.tabela = Rastreada => Lidos(atual', c.indice.lote))
  BY <1>2, <1>7 DEF Lidos
<1>10. TypeOK'
  BY <1>5, <1>6, <1>7 DEF PInv, TypeOK
<1>11. CheckpointCumprido'
  BY <1>1, <1>5 DEF CheckpointCumprido
<1>12. PosicaoCerta'
  BY <1>3, <1>5, <1>7, AsFases DEF PosicaoCerta
<1>13. PassadasFeitas'
  <2>1. CASE f = 1
    BY <1>5, <2>1, AsFases DEF PassadasFeitas
  <2>2. CASE f # 1
    <3>1. 1..Primeira[f] - 1 \subseteq 1..Prometida(c)
      BY <1>3, <1>4, <2>2, AsFases
    <3>2. QED
      BY <1>5, <1>8, <2>2, <3>1 DEF PassadasFeitas, Feitas
  <2>3. QED
    BY <2>1, <2>2
<1>14. PuloCerto'
  <2> SUFFICES ASSUME p # 0
               PROVE  PuloCerto'
    BY <1>5 DEF PuloCerto
  <2>1. p = Prometida(c) /\ p <= Ultima[f] /\ Feitas(atual', p)
    BY <1>3, <1>8
  <2>2. CASE Primeira[f] <= p
    BY <1>5, <2>1, <2>2 DEF PuloCerto
  <2>3. CASE ~(Primeira[f] <= p)
    <3>1. f # 1 /\ PuloPerdido(c) /\ p < Primeira[f]
      BY <1>3, <2>3, AsFases
    <3>2. Primeira[f]..Ultima[f] \subseteq atual'.fora
      BY <1>7, <3>1
    <3>3. QED
      BY <1>5, <3>1, <3>2 DEF PuloCerto
  <2>4. QED
    BY <2>2, <2>3
<1>15. NadaPrometido'
  <2>1. Prometida(checkpoint') = Prometida(checkpoint)
    BY <1>5
  <2>2. CASE c = checkpoint
    BY <1>3, <1>4, <1>5, <2>1, <2>2, AsFases DEF NadaPrometido
  <2>3. CASE f = 1 /\ p = 0 /\ l = 0
    BY <1>5, <2>3, AsFases DEF NadaPrometido
  <2>4. QED
    BY <1>2, <2>2, <2>3
<1>16. LoteCerto'
  BY <1>3, <1>5, <1>9, AsFases DEF LoteCerto, Rastreada
<1>17. LeituraCerta' /\ SalvoCerto'
  BY <1>5 DEF LeituraCerta, SalvoCerto, SemIndice, Rastreada
<1>18. QED
  BY <1>10, <1>11, <1>12, <1>13, <1>14, <1>15, <1>16, <1>17 DEF PInv, RunCerto

-------------------------------------------------------------------------------
(* Nothing is promised at first.                                              *)
LEMMA InitPInv == Init => PInv
<1> SUFFICES ASSUME Init
             PROVE  PInv
  OBVIOUS
<1>1. checkpoint.indice.tabela = 0 /\ checkpoint.pagina = 0 /\ checkpoint.indice.lote = 0
  BY DEF Init, SemIndice
<1>2. CheckpointCumprido
  BY <1>1 DEF CheckpointCumprido, Prometida, Feitas, Rastreada
<1>3. run \in Run
  BY AsTabelas, AsFases, AsOrdens DEF Init, Run, Etapas, Indice, SemIndice
<1>4. checkpoint \in Checkpoint /\ destino \in Destino /\ atual \in Cadeia /\ gravada \in Cadeia
  BY AsOrdens DEF Init, Checkpoint, Indice, SemIndice, Destino, Cadeia, CadeiaNova
<1>5. TypeOK
  BY <1>3, <1>4, ProfessoresAssumption DEF Init, TypeOK
<1>6. run.etapa = "parado"
  BY DEF Init
<1>7. QED
  BY <1>2, <1>5, <1>6 DEF PInv

(* Every step preserves the invariant.                                        *)
LEMMA NextPInv == PInv /\ [Next]_vars => PInv'
<1> SUFFICES ASSUME PInv, [Next]_vars
             PROVE  PInv'
  OBVIOUS
<1>0. /\ execucao \in {"nenhuma", "em_execucao", "concluido", "erro"}
      /\ falhas \in 0..MaxFalhas /\ MaxFalhas \in Nat
      /\ falhas < MaxFalhas => falhas + 1 \in 0..MaxFalhas
  BY ProfessoresAssumption DEF PInv, TypeOK
<1>1. ASSUME NEW continuar \in BOOLEAN, NEW restrita \in BOOLEAN,
             Iniciar(continuar, restrita)
      PROVE  PInv'
  BY <1>1, IniciarPreserva
<1>2. CASE PularTabela \/ IniciarTabela \/ TerminarFase
  BY <1>2, PularTabelaPreserva, IniciarTabelaPreserva, TerminarFasePreserva
<1>3. CASE Consultar \/ IgnorarLote \/ GravarLote
  BY <1>3, ConsultarPreserva, IgnorarLotePreserva, GravarLotePreserva
<1>4. CASE SalvarLote \/ TerminarLeitura \/ SalvarTabela
  BY <1>4, SalvarLotePreserva, TerminarLeituraPreserva, SalvarTabelaPreserva
<1>5. CASE GravarConclusao \/ GravarErro
  BY <1>5, GravarFimPreserva
<1>6. CASE RecusarLote \/ NadaExecutado \/ Falhar
  BY <1>0, <1>6, FalharPreserva DEF RecusarLote, NadaExecutado, Falhar, Em
<1>7. CASE Concluir \/ FinalizarErro \/ Morrer
  BY <1>0, <1>7, PararPreserva DEF Concluir, FinalizarErro, Morrer
<1>8. CASE EngolirErro \/ Reconectar
  BY <1>8, EngolirErroPreserva, ReconectarPreserva
<1>9. CASE UNCHANGED vars
  BY <1>9 DEF vars, PInv, TypeOK, CheckpointCumprido, RunCerto, PosicaoCerta,
     PassadasFeitas, PuloCerto, NadaPrometido, LoteCerto, LeituraCerta, SalvoCerto
<1>10. QED
  BY <1>1, <1>2, <1>3, <1>4, <1>5, <1>6, <1>7, <1>8, <1>9 DEF Next, Avancar

(* What each run, checkpoint and chain of runs stands for was done, after any *)
(* failures, kills, lost connections and resumptions of etl_professores.      *)
THEOREM InvarianteDaRetomada == Spec => []PInv
<1>1. QED
  BY InitPInv, NextPInv, PTL DEF Spec

(* The variables of etl_professores keep their types; in particular a run is  *)
(* within the 21 tables, and a checkpoint names a table that exists.          *)
THEOREM TiposDaRetomada == Spec => []TypeOK
<1>1. PInv => TypeOK
  BY DEF PInv
<1>2. QED
  BY <1>1, InvarianteDaRetomada, PTL

(* A resumed run never skips a table that its chain did not load completely,  *)
(* and the chunks of professor that the checkpoint counts, in the order they  *)
(* were read, are there (etl_professores.handle).                             *)
THEOREM CheckpointDaRetomada == Spec => []CheckpointCoberto
<1>1. PInv => CheckpointCoberto
  <2> SUFFICES ASSUME PInv
               PROVE  CheckpointCoberto
    OBVIOUS
  <2>1. /\ Feitas(gravada, Prometida(checkpoint))
        /\ checkpoint.indice.tabela = Rastreada => Lidos(gravada, checkpoint.indice.lote)
        /\ checkpoint.indice.lote \in Nat
    BY DEF PInv, TypeOK, CheckpointCumprido, Checkpoint, Indice
  <2>2. QED
    BY <2>1 DEF CheckpointCoberto, Prometida, Feitas, Lidos, Rastreada
<1>2. QED
  BY <1>1, InvarianteDaRetomada, PTL

(* An execution of professores is concluded only when its chain of runs       *)
(* loaded every table completely, whatever the order of each query of         *)
(* professor, but for the exceptions that fora names; of professor, a lost    *)
(* connection or a query that put other chunks in the places a resumption     *)
(* skips.                                                                     *)
THEOREM ConclusaoDaRetomada == Spec => []ConclusaoCompleta
<1>1. PInv => ConclusaoCompleta
  <2> SUFFICES ASSUME PInv, run.etapa \in {"retornou", "concluindo"}, run.alguma,
                      NEW t \in Tabelas
               PROVE  Completa(atual, t)
    BY DEF ConclusaoCompleta
  <2>1. RunCerto /\ t \in 1..21
    BY AsTabelas DEF PInv
  <2>2. run.tabela = 22 /\ run.pular = 0
    BY <2>1 DEF RunCerto, PosicaoCerta, PuloCerto
  <2>3. QED
    BY <2>1, <2>2 DEF RunCerto, PassadasFeitas
<1>2. QED
  BY <1>1, InvarianteDaRetomada, PTL

-------------------------------------------------------------------------------
(* Copies of rows, and the rows of other years.                               *)

(* How many chunks there are.                                                 *)
LEMMA FimTipo ==
  ASSUME NEW t \in Tabelas
  PROVE  /\ Lotes[t] \in Nat /\ LotesDosAnos[t] \in Nat
         /\ LotesDosAnos[t] <= Lotes[t] /\ Fim(t) \in Nat /\ Fim(t) <= Lotes[t]
BY ProfessoresAssumption DEF Fim

(* A step that leaves the tables alone and does not go back in the one that   *)
(* is read makes no copies.                                                   *)
LEMMA CopiasFicam ==
  ASSUME CopiasCertas, UNCHANGED destino, run \in Run,
         \/ run'.etapa \notin {"lendo", "gravado"}
         \/ /\ run.etapa \in {"lendo", "gravado"}
            /\ run.tabela \in Tabelas
            /\ run'.tabela = run.tabela /\ run'.restrita = run.restrita
            /\ run'.prox \in {run.prox, run.prox + 1}
  PROVE  CopiasCertas'
<1>1. RepeticaoSoPorQueda'
  BY DEF CopiasCertas, RepeticaoSoPorQueda
<1>2. (\A t \in Tabelas : destino.lotes[t] \subseteq 1..Lotes[t])'
  BY DEF CopiasCertas
<1>3. CASE run'.etapa \notin {"lendo", "gravado"}
  BY <1>1, <1>2, <1>3 DEF CopiasCertas
<1>4. CASE run'.etapa \in {"lendo", "gravado"}
  <2>1. Fim(run.tabela)' = Fim(run.tabela) /\ Fim(run.tabela) \in Nat
    BY <1>4, FimTipo DEF Fim
  <2>2. run'.prox..Fim(run.tabela)' \subseteq run.prox..Fim(run.tabela)
    BY <1>4, <2>1, TipoDoRun
  <2>3. QED
    BY <1>1, <1>2, <1>4, <2>1, <2>2 DEF CopiasCertas
<1>5. QED
  BY <1>3, <1>4

(* A table that starts is emptied of what it will read.                       *)
LEMMA IniciarTabelaCopias ==
  ASSUME PInv, CopiasCertas, IniciarTabela
  PROVE  CopiasCertas'
<1> DEFINE t == run.tabela
<1>1. /\ run \in Run /\ destino \in Destino /\ t \in Tabelas
      /\ RunCerto /\ run.etapa = "fase"
  BY AsFases, AsTabelas, TipoDoRun
     DEF PInv, TypeOK, IniciarTabela, Em, RunCerto, PosicaoCerta
<1>2. /\ run'.tabela = t /\ run'.restrita = run.restrita /\ run'.prox = 1
      /\ run'.etapa = (IF t \in DoSSO THEN "consultando" ELSE "lendo")
  BY <1>1 DEF IniciarTabela, Run
<1>3. CASE t \in Apagadas \ DoSSO
  <2> DEFINE resto == Restante(t)
  <2>1. /\ destino'.lotes = [destino.lotes EXCEPT ![t] = resto]
        /\ destino'.repetidas = (IF resto = {} THEN destino.repetidas \ {t}
                                 ELSE destino.repetidas)
        /\ destino'.caidas = (IF resto = {} THEN destino.caidas \ {t}
                              ELSE destino.caidas)
    BY <1>3 DEF IniciarTabela, Apagar
  <2>2. /\ resto \subseteq destino.lotes[t]
        /\ \A c \in 1..Fim(t) : c \notin resto
    BY FimTipo, <1>1 DEF Restante, Fim, CopiasCertas
  <2>3. Fim(run.tabela)' = Fim(t)
    BY <1>2 DEF Fim
  <2>4. destino.lotes \in [Tabelas -> SUBSET Nat]
    BY <1>1 DEF Destino
  <2> HIDE DEF t, resto
  <2>5. (\A s \in Tabelas : destino.lotes[s] \subseteq 1..Lotes[s])'
    BY <2>1, <2>2, <2>4 DEF CopiasCertas
  <2>6. RepeticaoSoPorQueda'
    BY <2>1 DEF CopiasCertas, RepeticaoSoPorQueda
  <2>7. \A c \in run'.prox..Fim(run.tabela)' : c \notin destino'.lotes[run'.tabela]
    BY <1>1, <1>2, <2>1, <2>2, <2>3, <2>4
  <2>8. QED
    BY <1>2, <2>5, <2>6, <2>7 DEF CopiasCertas
<1>4. CASE t \notin Apagadas \/ t \in DoSSO
  <2>1. UNCHANGED destino
    BY <1>4 DEF IniciarTabela
  <2>2. /\ (\A s \in Tabelas : destino.lotes[s] \subseteq 1..Lotes[s])'
        /\ RepeticaoSoPorQueda'
    BY <2>1 DEF CopiasCertas, RepeticaoSoPorQueda
  <2>3. \/ run'.etapa = "consultando"
        \/ Catalogo[run'.tabela].modo = "upsert"
    BY <1>1, <1>2, <1>4 DEF Apagadas
  <2>4. QED
    BY <2>2, <2>3 DEF CopiasCertas
<1>5. QED
  BY <1>3, <1>4

(* What is written is counted, and copied only if it was read before.         *)
LEMMA GravarLoteCopias ==
  ASSUME PInv, CopiasCertas, GravarLote
  PROVE  CopiasCertas'
<1> DEFINE t == run.tabela
           lote == NoLugar(run.prox)
<1>1. /\ run \in Run /\ destino \in Destino /\ t \in Tabelas
      /\ RunCerto /\ run.etapa = "lendo" /\ run.prox \in Nat
      /\ run.prox > 0 /\ run.prox <= Fim(t) /\ run.ordem \in Ordens
  BY AsFases, AsTabelas, TipoDoRun
     DEF PInv, TypeOK, GravarLote, Em, RunCerto, PosicaoCerta, LeituraCerta
<1>2. /\ run'.tabela = t /\ run'.restrita = run.restrita
      /\ run'.prox = run.prox + 1 /\ run'.etapa = "gravado"
  BY <1>1 DEF GravarLote, Run
<1>3. /\ destino'.lotes = [destino.lotes EXCEPT
                             ![t] = destino.lotes[t] \cup {lote}]
      /\ destino'.repetidas = (IF /\ Repetido(t, lote)
                                  /\ Catalogo[t].chave # "unica"
                               THEN destino.repetidas \cup {t}
                               ELSE destino.repetidas)
      /\ destino'.caidas = destino.caidas
  BY <1>1 DEF GravarLote, Destino
<1>4. /\ Fim(run.tabela)' = Fim(t) /\ Fim(t) \in Nat
      /\ t # Rastreada => lote = run.prox
  BY <1>1, <1>2, FimTipo DEF Fim, NoLugar
<1>5. lote \in 1..Lotes[t]
  <2>1. run.prox \in 1..Lotes[t]
    BY <1>1, FimTipo
  <2>2. CASE t = Rastreada
    <3>1. /\ run.prox \in 1..Lotes[Rastreada]
          /\ run.ordem \in [1..Lotes[Rastreada] -> 1..Lotes[Rastreada]]
      BY <1>1, <2>1, <2>2, AsOrdens
    <3>2. run.ordem[run.prox] \in 1..Lotes[Rastreada]
      BY <3>1
    <3>3. QED
      BY <2>2, <3>2 DEF NoLugar
  <2>3. QED
    BY <1>4, <2>1, <2>2
<1>6. destino.lotes \in [Tabelas -> SUBSET Nat]
  BY <1>1 DEF Destino
<1>7. Catalogo[Rastreada].modo \notin {"full_refresh", "substitui"}
  BY AsTabelas DEF Apagadas
<1> HIDE DEF t, lote
<1>8. (\A s \in Tabelas : destino.lotes[s] \subseteq 1..Lotes[s])'
  BY <1>3, <1>5, <1>6 DEF CopiasCertas
<1>9. Repetido(t, lote) => t \in destino.caidas
  <2> SUFFICES ASSUME Repetido(t, lote)
               PROVE  t \in destino.caidas
    OBVIOUS
  <2>1. run.prox \in run.prox..Fim(t)
    BY <1>1, <1>4
  <2>2. /\ Catalogo[t].modo \in {"full_refresh", "substitui"}
        /\ lote \in destino.lotes[t]
    BY DEF Repetido
  <2>3. lote = run.prox
    BY <1>4, <1>7, <2>2
  <2>4. QED
    BY <1>1, <2>1, <2>2, <2>3 DEF CopiasCertas, t
<1>10. RepeticaoSoPorQueda'
  BY <1>3, <1>9 DEF CopiasCertas, RepeticaoSoPorQueda
<1>11. ASSUME Catalogo[t].modo \in {"full_refresh", "substitui"},
             t \notin destino.caidas, NEW c \in run.prox + 1..Fim(t)
      PROVE  c \notin destino'.lotes[t]
  <2>1. c \in run.prox..Fim(t) /\ c # run.prox
    BY <1>1, <1>4
  <2>2. c \notin destino.lotes[t]
    BY <1>1, <1>11, <2>1 DEF CopiasCertas, t
  <2>3. QED
    BY <1>1, <1>3, <1>4, <1>6, <1>7, <1>11, <2>1, <2>2
<1>12. QED
  BY <1>2, <1>3, <1>4, <1>8, <1>10, <1>11 DEF CopiasCertas

(* The other steps write at most one table, whole or not at all, and only a   *)
(* lost connection goes back, which counts as such.                           *)
LEMMA ConsultarCopias ==
  ASSUME PInv, CopiasCertas, Consultar \/ EngolirErro \/ Reconectar
  PROVE  CopiasCertas'
<1> DEFINE t == run.tabela
<1>1. /\ run \in Run /\ destino \in Destino /\ t \in Tabelas
      /\ Administrador \in Tabelas
  <2>1. RunCerto /\ run.etapa \in {"consultando", "lendo"}
    BY DEF PInv, Consultar, EngolirErro, Reconectar, Em
  <2>2. QED
    BY <2>1, AsFases, AsTabelas, TipoDoRun DEF PInv, TypeOK, RunCerto, PosicaoCerta
<1>2. destino.lotes \in [Tabelas -> SUBSET Nat]
  BY <1>1 DEF Destino
<1>3. CASE Consultar
  <2>1. /\ destino'.lotes = [destino.lotes EXCEPT ![t] = 1..Lotes[t]]
        /\ destino'.repetidas = destino.repetidas
        /\ destino'.caidas = destino.caidas /\ run'.etapa = "terminada"
    BY <1>1, <1>3 DEF Consultar, Destino, Run
  <2>2. QED
    BY <1>2, <2>1 DEF CopiasCertas, RepeticaoSoPorQueda
<1>4. CASE EngolirErro
  <2>1. PICK resto \in {{}, destino.lotes[Administrador]} :
          destino' = [destino EXCEPT !.lotes[Administrador] = resto]
    BY <1>4 DEF EngolirErro
  <2>2. /\ destino'.lotes = [destino.lotes EXCEPT ![Administrador] = resto]
        /\ destino'.repetidas = destino.repetidas
        /\ destino'.caidas = destino.caidas
    BY <1>1, <2>1 DEF Destino
  <2>3. run'.etapa = "terminada"
    BY <1>1, <1>4 DEF EngolirErro, Run
  <2>4. resto \subseteq destino.lotes[Administrador]
    OBVIOUS
  <2>5. QED
    BY <1>1, <1>2, <2>2, <2>3, <2>4 DEF CopiasCertas, RepeticaoSoPorQueda
<1>5. CASE Reconectar
  <2>1. /\ destino'.lotes = destino.lotes
        /\ destino'.repetidas = destino.repetidas
        /\ destino'.caidas = destino.caidas \cup {t}
    BY <1>1, <1>5 DEF Reconectar, Destino
  <2>2. run'.tabela = t
    BY <1>1, <1>5 DEF Reconectar, Run
  <2>3. QED
    BY <2>1, <2>2 DEF CopiasCertas, RepeticaoSoPorQueda
<1>6. QED
  BY <1>3, <1>4, <1>5

(* Every step preserves the invariant of the copies.                          *)
LEMMA NextCopias == PInv /\ CopiasCertas /\ [Next]_vars => CopiasCertas'
<1> SUFFICES ASSUME PInv, CopiasCertas, [Next]_vars
             PROVE  CopiasCertas'
  OBVIOUS
<1>0. run \in Run
  BY DEF PInv, TypeOK
<1>1. ASSUME NEW continuar \in BOOLEAN, NEW restrita \in BOOLEAN,
             Iniciar(continuar, restrita)
      PROVE  CopiasCertas'
  BY <1>0, <1>1, CopiasFicam DEF Iniciar
<1>2. CASE IniciarTabela \/ GravarLote
  BY <1>2, IniciarTabelaCopias, GravarLoteCopias
<1>3. CASE Consultar \/ EngolirErro \/ Reconectar
  BY <1>3, ConsultarCopias
<1>4. CASE IgnorarLote \/ SalvarLote
  <2>1. /\ run.etapa \in {"lendo", "gravado"} /\ UNCHANGED destino
        /\ run'.tabela = run.tabela /\ run'.restrita = run.restrita
        /\ run'.prox \in {run.prox, run.prox + 1}
    BY <1>0, <1>4 DEF IgnorarLote, SalvarLote, Em, Run
  <2>2. run.tabela \in Tabelas
    BY <1>0, <2>1, AsFases, AsTabelas, TipoDoRun DEF PInv, RunCerto, PosicaoCerta
  <2>3. QED
    BY <1>0, <2>1, <2>2, CopiasFicam
<1>5. CASE PularTabela \/ TerminarFase \/ TerminarLeitura \/ SalvarTabela
  <2>1. UNCHANGED destino /\ run'.etapa \in {"fase", "retornou", "terminada"}
    BY <1>0, <1>5 DEF PularTabela, TerminarFase, TerminarLeitura, SalvarTabela,
       Em, Run
  <2>2. QED
    BY <1>0, <2>1, CopiasFicam
<1>6. CASE \/ GravarConclusao \/ Concluir \/ NadaExecutado \/ GravarErro
           \/ FinalizarErro \/ RecusarLote \/ Falhar \/ Morrer
  <2>1. /\ UNCHANGED destino
        /\ run'.etapa \in {"concluindo", "parado", "falhando", "finalizando"}
    BY <1>0, <1>6 DEF GravarConclusao, Concluir, NadaExecutado, GravarErro,
       FinalizarErro, RecusarLote, Falhar, Morrer, Run
  <2>2. QED
    BY <1>0, <2>1, CopiasFicam
<1>7. CASE UNCHANGED vars
  BY <1>7 DEF vars, CopiasCertas, RepeticaoSoPorQueda, Fim
<1>8. QED
  BY <1>1, <1>2, <1>3, <1>4, <1>5, <1>6, <1>7 DEF Next, Avancar

(* Only a lost connection, and only where the key does not identify rows,     *)
(* leaves a row twice in a table of professores.                              *)
THEOREM RepeticaoDaRetomada == Spec => []RepeticaoSoPorQueda
<1>1. Init => CopiasCertas
  BY DEF Init, CopiasCertas, RepeticaoSoPorQueda
<1>2. CopiasCertas => RepeticaoSoPorQueda
  BY DEF CopiasCertas
<1>3. QED
  BY <1>1, <1>2, NextCopias, InvarianteDaRetomada, PTL DEF Spec

(* Of the tables whose query depends on the years, those that are not in      *)
(* _TABELAS_FULL_REFRESH and are not upserted replace the years read.         *)
LEMMA AsSubstituidas ==
  ASSUME NEW t \in Tabelas \ FullRefresh, Catalogo[t].regra = "anos"
  PROVE  Catalogo[t].modo \in {"upsert", "substitui"}
<1>1. t \in {1, 3, 5, 6, 11, 12, 13, 18, 21}
  BY AsTabelas DEF FullRefresh
<1>2. CASE t \in {1, 3, 5, 6, 11, 12, 18}
  BY <1>2 DEF Catalogo, Tabela, PopularProfessores, PopularPessoas,
     PopularCargosBase, PopularContratosExternos, PopularAtribuicoesAula,
     PopularAtribuicoesExterno, PopularSistemaPerfil
<1>3. CASE t = 13
  BY <1>3 DEF Catalogo, Tabela, PopularFuncionarios, SqlFuncionariosUe
<1>4. CASE t = 21
  BY <1>4 DEF Catalogo, Tabela, PopularProfessoresEscolaAno
<1>5. QED
  BY <1>1, <1>2, <1>3, <1>4

(* A run with --anos-letivos leaves the rows of other years in the tables     *)
(* that etl_professores does not empty whole.                                 *)
THEOREM AnosDaRetomada == Spec => OutrosAnosFicam
<1> DEFINE Ficam == \A t \in Tabelas \ FullRefresh :
                      run.restrita =>
                        destino.lotes[t] \ (1..LotesDosAnos[t])
                          \subseteq destino'.lotes[t]
<1>1. PInv /\ CopiasCertas /\ [Next]_vars => [Ficam]_vars
  <2> SUFFICES ASSUME PInv, CopiasCertas, Next,
                      NEW t \in Tabelas \ FullRefresh, run.restrita
               PROVE  destino.lotes[t] \ (1..LotesDosAnos[t])
                        \subseteq destino'.lotes[t]
    OBVIOUS
  <2>1. /\ run \in Run /\ destino \in Destino
        /\ destino.lotes \in [Tabelas -> SUBSET Nat]
        /\ destino.lotes[t] \subseteq 1..Lotes[t]
    BY DEF PInv, TypeOK, Destino, CopiasCertas
  <2>2. CASE Catalogo[t].regra # "anos"
    BY <2>1, <2>2, ProfessoresAssumption
  <2>3. CASE Catalogo[t].regra = "anos"
    <3>0. t # Administrador
      BY DEF Administrador, FullRefresh
    <3>1. CASE UNCHANGED destino
      BY <3>1
    <3>2. CASE IniciarTabela
      <4>1. CASE run.tabela = t /\ t \in Apagadas
        <5>1. Catalogo[t].modo = "substitui"
          BY <2>3, <4>1, AsSubstituidas DEF Apagadas
        <5>2. Restante(t) = destino.lotes[t] \ (1..LotesDosAnos[t])
          BY <5>1 DEF Restante
        <5>3. \/ UNCHANGED destino
              \/ destino'.lotes = [destino.lotes EXCEPT ![t] = Restante(t)]
          BY <3>2, <4>1 DEF IniciarTabela, Apagar
        <5>4. QED
          BY <2>1, <5>2, <5>3
      <4>2. CASE run.tabela # t
        <5>1. \/ UNCHANGED destino
              \/ destino'.lotes = [destino.lotes EXCEPT
                                     ![run.tabela] = Restante(run.tabela)]
          BY <3>2 DEF IniciarTabela, Apagar
        <5>2. QED
          BY <2>1, <4>2, <5>1
      <4>3. CASE run.tabela = t /\ t \notin Apagadas
        BY <3>2, <4>3 DEF IniciarTabela
      <4>4. QED
        BY <4>1, <4>2, <4>3
    <3>3. CASE Consultar
      <4>1. destino'.lotes = [destino.lotes EXCEPT
                                ![run.tabela] = 1..Lotes[run.tabela]]
        BY <2>1, <3>3 DEF Consultar, Destino
      <4>2. QED
        BY <2>1, <4>1
    <3>4. CASE EngolirErro
      <4>1. PICK resto \in {{}, destino.lotes[Administrador]} :
              destino' = [destino EXCEPT !.lotes[Administrador] = resto]
        BY <3>4 DEF EngolirErro
      <4>2. QED
        BY <2>1, <3>0, <4>1 DEF Destino
    <3>5. CASE GravarLote
      <4>1. destino'.lotes = [destino.lotes EXCEPT
               ![run.tabela] = destino.lotes[run.tabela]
                                 \cup {NoLugar(run.prox)}]
        BY <2>1, <3>5 DEF GravarLote, Destino
      <4>2. QED
        BY <2>1, <4>1
    <3>6. CASE Reconectar
      <4>1. destino'.lotes = destino.lotes
        BY <2>1, <3>6 DEF Reconectar, Destino
      <4>2. QED
        BY <4>1
    <3>7. Next => \/ UNCHANGED destino \/ IniciarTabela \/ Consultar
                  \/ EngolirErro \/ GravarLote \/ Reconectar
      BY DEF Next, Avancar, Iniciar, PularTabela, TerminarFase, IgnorarLote,
         RecusarLote, SalvarLote, TerminarLeitura, SalvarTabela,
         GravarConclusao, Concluir, NadaExecutado, GravarErro, FinalizarErro,
         Falhar, Morrer
    <3>8. QED
      BY <3>1, <3>2, <3>3, <3>4, <3>5, <3>6, <3>7
  <2>4. QED
    BY <2>2, <2>3
<1>2. Init => CopiasCertas
  BY DEF Init, CopiasCertas, RepeticaoSoPorQueda
<1>3. QED
  BY <1>1, <1>2, NextCopias, InvarianteDaRetomada, PTL DEF Spec, OutrosAnosFicam
===============================================================================
