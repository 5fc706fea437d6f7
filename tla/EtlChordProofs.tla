---------------------------- MODULE EtlChordProofs -----------------------------
(***************************************************************************)
(* Proofs, for every number of phases, chunks, executions, failures and    *)
(* duplicated callbacks, that a chain of chords launches its phases in     *)
(* order and that neither the checkpoint nor a concluded execution claims  *)
(* a chunk that was not written.                                           *)
(***************************************************************************)
EXTENDS EtlChordProps, TLAPS

(* The limits are numbers. *)
LEMMA Limites ==
  /\ NumFases \in Nat /\ NumFases > 0 /\ MaxExecucoes \in Nat
  /\ MaxRetries \in Nat /\ MaxDuplicatas \in Nat /\ MaxFalhas \in Nat
  /\ 1 \in Fases /\ NumFases \in Fases
BY ChordAssumption DEF Fases

(* The first state has the invariant: nothing was launched. *)
LEMMA InicioChord == Init => ChordInv
<1>1. SUFFICES ASSUME Init PROVE ChordInv
  OBVIOUS
<1>2. TypeOK
  <2>1. comando \in [Ids -> Comando]
    BY <1>1, Limites DEF Init, Comando
  <2>2. checkpoint \in Checkpoint
    BY <1>1, Limites DEF Init, Checkpoint
  <2>3. \A k \in Elos : chord[k] \in Chord
    <3>1. [c \in Chunks |-> 0] \in [Chunks -> 0..MaxRetries]
      BY Limites
    <3>2. QED
      BY <1>1, <3>1 DEF Init, Chord
  <2>4. chord \in [Elos -> Chord]
    BY <1>1, <2>3 DEF Init
  <2>5. QED
    BY <1>1, <2>1, <2>2, <2>4 DEF Init, TypeOK
<1>3. ElosCertos
  BY <1>1 DEF Init, ElosCertos, EloCerto
<1>4. InicioCoberto /\ SituacaoIniciada /\ ConcluidoCompleto
  BY <1>1 DEF Init, InicioCoberto, SituacaoIniciada, ConcluidoCompleto
<1>5. CheckpointLancado /\ CheckpointCoberto
  BY <1>1 DEF Init, CheckpointLancado, CheckpointCoberto
<1>6. QED
  BY <1>2, <1>3, <1>4, <1>5 DEF ChordInv

-------------------------------------------------------------------------------
(* What stays when commands that began keep their lineage and starting phase, *)
(* and what was written stays written.                                        *)

Guardado ==
  /\ \A e \in Ids : comando[e].etapa # "ausente" =>
       /\ comando'[e].etapa # "ausente"
       /\ comando[e].etapa = "lancado" => comando'[e].etapa = "lancado"
       /\ comando'[e].linhagem = comando[e].linhagem
       /\ comando'[e].inicio = comando[e].inicio
  /\ escrito \subseteq escrito'

(* A step that leaves the commands alone and only writes. *)
LEMMA GuardaTudo ==
  ASSUME UNCHANGED comando, escrito \subseteq escrito'
  PROVE  Guardado
BY DEF Guardado

(* A chord that a step leaves alone keeps its part of the invariant. *)
LEMMA EloGuardado ==
  ASSUME ChordInv, Guardado, NEW k \in Elos, chord'[k] = chord[k]
  PROVE  EloCerto(k)'
<1>1. SUFFICES ASSUME chord[k].etapa # "ausente" PROVE EloCerto(k)'
  BY DEF EloCerto
<1>2. k[1] \in Ids
  BY DEF Elos
<1>3. EloCerto(k)
  BY DEF ChordInv, ElosCertos
<1>4. comando'[k[1]].etapa = "lancado" /\ Linhagem(k)' = Linhagem(k)
  BY <1>1, <1>2, <1>3 DEF Guardado, EloCerto, Linhagem
<1>5. \A f \in 1..k[2] - 1 : FaseEscrita(Linhagem(k), f)'
  BY <1>1, <1>3, <1>4 DEF Guardado, EloCerto, FaseEscrita
<1>6. QED
  BY <1>1, <1>3, <1>4, <1>5 DEF Guardado, EloCerto

(* So a step need only account for the chords it changes. *)
LEMMA ElosGuardados ==
  ASSUME ChordInv, Guardado,
         \A k \in Elos : chord'[k] = chord[k] \/ EloCerto(k)'
  PROVE  ElosCertos'
BY EloGuardado DEF ElosCertos

(* A step that does not move the checkpoint to another page or execution. *)
LEMMA CheckpointGuardado ==
  ASSUME ChordInv, Guardado, checkpoint'.exec = checkpoint.exec,
         checkpoint'.pagina = checkpoint.pagina
  PROVE  CheckpointLancado' /\ CheckpointCoberto'
<1>1. checkpoint.pagina \in Nat
  BY Limites DEF ChordInv, TypeOK, Checkpoint
<1>2. CheckpointLancado'
  BY DEF ChordInv, CheckpointLancado, Guardado
<1>3. CASE checkpoint.pagina > 0
  <2>1. comando'[checkpoint.exec].linhagem = comando[checkpoint.exec].linhagem
    BY <1>3 DEF ChordInv, CheckpointLancado, Guardado
  <2>2. QED
    BY <1>2, <2>1 DEF ChordInv, CheckpointCoberto, Guardado, FaseEscrita
<1>4. CASE ~(checkpoint.pagina > 0)
  <2>1. 1..checkpoint'.pagina = {}
    BY <1>1, <1>4
  <2>2. QED
    BY <1>2, <2>1 DEF CheckpointCoberto
<1>5. QED BY <1>3, <1>4

(* A step that starts no command. *)
LEMMA InicioGuardado ==
  ASSUME ChordInv, Guardado,
         \A e \in Ids : comando'[e].etapa # "ausente"
                          => comando[e].etapa # "ausente"
  PROVE  InicioCoberto'
<1>1. SUFFICES ASSUME NEW e \in Ids, comando'[e].etapa # "ausente",
                      NEW f \in 1..comando'[e].inicio - 1
               PROVE  FaseEscrita(comando[e].linhagem, f)'
  BY DEF InicioCoberto, FaseEscrita
<1>2. /\ comando[e].etapa # "ausente"
      /\ comando'[e].inicio = comando[e].inicio
      /\ comando'[e].linhagem = comando[e].linhagem
  BY <1>1 DEF Guardado
<1>3. FaseEscrita(comando[e].linhagem, f)
  BY <1>1, <1>2 DEF ChordInv, InicioCoberto
<1>4. QED
  BY <1>2, <1>3 DEF Guardado, FaseEscrita

(* A step that concludes no execution, and starts none but of a command. *)
LEMMA SituacaoGuardada ==
  ASSUME ChordInv, Guardado,
         \A e \in Ids : situacao'[e] # "inexistente"
                          => comando[e].etapa # "ausente",
         \A e \in Ids : situacao'[e] = "concluido" => situacao[e] = "concluido"
  PROVE  SituacaoIniciada' /\ ConcluidoCompleto'
<1>1. SituacaoIniciada'
  BY DEF SituacaoIniciada, Guardado
<1>2. SUFFICES ASSUME NEW e \in Ids, situacao'[e] = "concluido", NEW f \in Fases
               PROVE  FaseEscrita(comando[e].linhagem, f)'
  BY <1>1 DEF ConcluidoCompleto, FaseEscrita
<1>3. situacao[e] = "concluido" /\ FaseEscrita(comando[e].linhagem, f)
  BY <1>2 DEF ChordInv, ConcluidoCompleto
<1>4. comando'[e].linhagem = comando[e].linhagem
  BY <1>3 DEF ChordInv, SituacaoIniciada, Guardado
<1>5. QED
  BY <1>3, <1>4 DEF Guardado, FaseEscrita

(* A step that changes chords and what was written, and nothing else. *)
LEMMA SoChord ==
  ASSUME ChordInv, UNCHANGED <<comando, situacao, checkpoint>>,
         escrito \subseteq escrito', TypeOK',
         \A k \in Elos : chord'[k] = chord[k] \/ EloCerto(k)'
  PROVE  ChordInv'
<1>1. Guardado
  BY GuardaTudo
<1>2. ElosCertos'
  BY <1>1, ElosGuardados
<1>3. CheckpointLancado' /\ CheckpointCoberto'
  BY <1>1, CheckpointGuardado
<1>4. InicioCoberto'
  BY <1>1, InicioGuardado
<1>5. SituacaoIniciada' /\ ConcluidoCompleto'
  <2>1. \A e \in Ids : situacao'[e] # "inexistente" => comando[e].etapa # "ausente"
    BY DEF ChordInv, SituacaoIniciada
  <2>2. QED
    BY <1>1, <2>1, SituacaoGuardada
<1>6. QED
  BY <1>2, <1>3, <1>4, <1>5 DEF ChordInv

-------------------------------------------------------------------------------
(* Chords. *)

(* A chord to publish. *)
LEMMA TipoNovo ==
  ASSUME NEW f \in Fases
  PROVE  /\ Novo(f) \in Chord
         /\ Novo(f).etapa \in {"callback", "rodando"}
         /\ \A c \in ChunksDaFase[f] : Novo(f).chunk[c] = "pendente"
         /\ Novo(f).etapa = "callback" =>
              \A c \in Chunks : Novo(f).chunk[c] = "feito"
<1>1. ChunksDaFase[f] \subseteq Chunks
  BY ChordAssumption
<1>2. [c \in Chunks |-> 0] \in [Chunks -> 0..MaxRetries]
  BY Limites
<1>3. QED
  BY <1>1, <1>2 DEF Novo, Chord

(* A chord whose callback moves on. *)
LEMMA TipoEtapa ==
  ASSUME NEW r \in Chord, NEW x \in {"ausente", "rodando", "callback", "gravado",
                                     "encerrado", "falhou"}
  PROVE  /\ [r EXCEPT !.etapa = x] \in Chord
         /\ [r EXCEPT !.etapa = x].etapa = x
         /\ [r EXCEPT !.etapa = x].chunk = r.chunk
BY DEF Chord

(* A chord one of whose tasks moves on. *)
LEMMA TipoMarcado ==
  ASSUME NEW k \in Elos, chord[k] \in Chord, NEW c \in Chunks,
         NEW x \in {"pendente", "escrito", "feito", "falhou"}
  PROVE  /\ Marcado(k, c, x) \in Chord
         /\ Marcado(k, c, x).etapa = chord[k].etapa
         /\ Marcado(k, c, x).tent = chord[k].tent
         /\ Marcado(k, c, x).chunk[c] = x
         /\ \A d \in Chunks \ {c} : Marcado(k, c, x).chunk[d] = chord[k].chunk[d]
BY DEF Chord, Marcado

(* A chord of the table is a chord, of a command and of a phase. *)
LEMMA TipoElo ==
  ASSUME TypeOK, NEW k \in Elos
  PROVE  /\ chord[k] \in Chord /\ k[1] \in Ids /\ k[2] \in Fases
         /\ ChunksDaFase[k[2]] \subseteq Chunks
         /\ comando[k[1]] \in Comando
BY ChordAssumption DEF TypeOK, Elos

(* The use of a bound. *)
LEMMA TipoUsos ==
  ASSUME TypeOK, NEW uso \in {"falhas", "duplicatas"}, NEW n \in Nat,
         Gastar(uso, n)
  PROVE  usos' \in [{"falhas", "duplicatas"} -> Nat]
BY DEF TypeOK, Gastar

(* When its callback runs, every phase up to that of the chord was written. *)
LEMMA FasesFeitas ==
  ASSUME ChordInv, NEW k \in Elos,
         chord[k].etapa \in {"callback", "gravado", "encerrado"}
  PROVE  /\ comando[k[1]].etapa = "lancado"
         /\ \A f \in 1..k[2] : FaseEscrita(Linhagem(k), f)
<1>1. EloCerto(k)
  BY DEF ChordInv, ElosCertos
<1>2. k[2] \in Fases /\ ChunksDaFase[k[2]] \subseteq Chunks
  BY TipoElo DEF ChordInv
<1>3. FaseEscrita(Linhagem(k), k[2])
  BY <1>1, <1>2 DEF EloCerto, FaseEscrita
<1>4. \A f \in 1..k[2] - 1 : FaseEscrita(Linhagem(k), f)
  BY <1>1 DEF EloCerto
<1>5. \A f \in 1..k[2] : f \in 1..k[2] - 1 \/ f = k[2]
  BY <1>2 DEF Fases
<1>6. QED
  BY <1>1, <1>3, <1>4, <1>5 DEF EloCerto

(* A task or a callback moves on: chord k becomes r, of which the invariant   *)
(* must be shown.                                                             *)
LEMMA UmElo ==
  ASSUME ChordInv, UNCHANGED <<comando, situacao, checkpoint>>,
         escrito \subseteq escrito', escrito' \subseteq Ids \X Fases \X Chunks,
         usos' \in [{"falhas", "duplicatas"} -> Nat],
         NEW k \in Elos, NEW r \in Chord, chord' = [chord EXCEPT ![k] = r],
         chord[k].etapa # "ausente",
         \A c \in ChunksDaFase[k[2]] :
           r.chunk[c] \in {"escrito", "feito"}
             => <<Linhagem(k), k[2], c>> \in escrito',
         r.etapa \in {"callback", "gravado", "encerrado"} =>
           \A c \in Chunks : r.chunk[c] = "feito"
  PROVE  ChordInv'
<1>1. chord \in [Elos -> Chord]
  BY DEF ChordInv, TypeOK
<1>2. chord' \in [Elos -> Chord] /\ chord'[k] = r
  BY <1>1
<1>3. \A j \in Elos \ {k} : chord'[j] = chord[j]
  BY <1>1
<1>4. TypeOK'
  BY <1>2 DEF ChordInv, TypeOK
<1>5. EloCerto(k)'
  <2>1. EloCerto(k)
    BY DEF ChordInv, ElosCertos
  <2>2. Linhagem(k)' = Linhagem(k)
    BY DEF Linhagem
  <2>3. \A f \in 1..k[2] - 1 : FaseEscrita(Linhagem(k), f)'
    BY <2>1, <2>2 DEF EloCerto, FaseEscrita
  <2>4. QED
    BY <1>2, <2>1, <2>2, <2>3 DEF EloCerto
<1>6. \A j \in Elos : chord'[j] = chord[j] \/ EloCerto(j)'
  BY <1>3, <1>5
<1>7. QED
  BY <1>4, <1>6, SoChord

-------------------------------------------------------------------------------
(* processar_chunk *)

(* A chunk is written. *)
LEMMA EscreverPreserva ==
  ASSUME ChordInv, NEW k \in Elos, NEW c \in Chunks, Escrever(k, c)
  PROVE  ChordInv'
<1> DEFINE r == Marcado(k, c, "escrito")
<1>1. /\ chord[k] \in Chord /\ k[1] \in Ids /\ k[2] \in Fases
      /\ comando[k[1]] \in Comando /\ ChunksDaFase[k[2]] \subseteq Chunks
  BY TipoElo DEF ChordInv
<1>2. /\ r \in Chord /\ r.etapa = chord[k].etapa
      /\ \A d \in Chunks \ {c} : r.chunk[d] = chord[k].chunk[d]
  BY <1>1, TipoMarcado
<1>3. EloCerto(k) /\ chord[k].etapa \in {"rodando", "falhou"}
  BY DEF ChordInv, ElosCertos, Escrever
<1>4. escrito' = escrito \cup {<<Linhagem(k), k[2], c>>}
  BY DEF Escrever, Linhagem, Fase
<1>5. escrito' \subseteq Ids \X Fases \X Chunks
  BY <1>1, <1>4 DEF ChordInv, TypeOK, Comando, Linhagem
<1>6. \A d \in ChunksDaFase[k[2]] :
        r.chunk[d] \in {"escrito", "feito"}
          => <<Linhagem(k), k[2], d>> \in escrito'
  BY <1>1, <1>2, <1>3, <1>4 DEF EloCerto
<1>7. usos' \in [{"falhas", "duplicatas"} -> Nat]
  BY DEF ChordInv, TypeOK, Escrever
<1>8. QED
  <2>1. UNCHANGED <<comando, situacao, checkpoint>>
    BY DEF Escrever
  <2>2. chord' = [chord EXCEPT ![k] = r]
    BY DEF Escrever
  <2> HIDE DEF r
  <2>3. QED
    BY <2>1, <2>2, <1>2, <1>3, <1>4, <1>5, <1>6, <1>7, UmElo

(* A task returns: the last one fires the callback. *)
LEMMA TerminarPreserva ==
  ASSUME ChordInv, NEW k \in Elos, NEW c \in Chunks, Terminar(k, c)
  PROVE  ChordInv'
<1> DEFINE m == Marcado(k, c, "feito")
           x == IF m.etapa = "rodando"
                   /\ \A d \in Chunks \ {c} : chord[k].chunk[d] = "feito"
                THEN "callback" ELSE m.etapa
           r == [m EXCEPT !.etapa = x]
<1>1. chord[k] \in Chord /\ ChunksDaFase[k[2]] \subseteq Chunks
  BY TipoElo DEF ChordInv
<1>2. /\ m \in Chord /\ m.etapa = chord[k].etapa /\ m.chunk[c] = "feito"
      /\ \A d \in Chunks \ {c} : m.chunk[d] = chord[k].chunk[d]
  BY <1>1, TipoMarcado
<1>3. /\ EloCerto(k) /\ chord[k].etapa \in {"rodando", "falhou"}
      /\ chord[k].chunk[c] = "escrito"
  BY DEF ChordInv, ElosCertos, Terminar
<1> HIDE DEF m
<1>4. x \in {"callback", "rodando", "falhou"}
  BY <1>2, <1>3
<1>5. /\ x = "callback" => \A d \in Chunks \ {c} : m.chunk[d] = "feito"
  BY <1>2, <1>3
<1> HIDE DEF x
<1>6. r \in Chord /\ r.etapa = x /\ r.chunk = m.chunk
  BY <1>2, <1>4 DEF Chord, r
<1>7. r.etapa \in {"callback", "gravado", "encerrado"} =>
        \A d \in Chunks : r.chunk[d] = "feito"
  BY <1>2, <1>4, <1>5, <1>6
<1>8. \A d \in ChunksDaFase[k[2]] :
        r.chunk[d] \in {"escrito", "feito"}
          => <<Linhagem(k), k[2], d>> \in escrito
  BY <1>1, <1>2, <1>3, <1>6 DEF EloCerto
<1>9. QED
  <2>1. UNCHANGED <<comando, situacao, checkpoint, escrito, usos>>
    BY DEF Terminar
  <2>2. chord' = [chord EXCEPT ![k] = r]
    BY DEF Terminar, Contado, r, x, m
  <2>3. /\ escrito' \subseteq Ids \X Fases \X Chunks
        /\ usos' \in [{"falhas", "duplicatas"} -> Nat]
    BY <2>1 DEF ChordInv, TypeOK
  <2> HIDE DEF r
  <2>4. QED
    BY <2>1, <2>2, <2>3, <1>3, <1>6, <1>7, <1>8, UmElo

(* A task that fails is run again or fails its chord. *)
LEMMA FalharChunkPreserva ==
  ASSUME ChordInv, NEW k \in Elos, NEW c \in Chunks, FalharChunk(k, c)
  PROVE  ChordInv'
<1> DEFINE m == Marcado(k, c, "pendente")
           n == Marcado(k, c, "falhou")
           r == IF chord[k].tent[c] < MaxRetries
                THEN [m EXCEPT !.tent[c] = chord[k].tent[c] + 1]
                ELSE [n EXCEPT !.etapa = "falhou"]
<1>1. chord[k] \in Chord /\ ChunksDaFase[k[2]] \subseteq Chunks
  BY TipoElo DEF ChordInv
<1>2. EloCerto(k) /\ chord[k].etapa \in {"rodando", "falhou"}
  BY DEF ChordInv, ElosCertos, FalharChunk
<1>3. /\ m \in Chord /\ m.etapa = chord[k].etapa /\ m.tent = chord[k].tent
      /\ m.chunk[c] = "pendente"
      /\ \A d \in Chunks \ {c} : m.chunk[d] = chord[k].chunk[d]
  BY <1>1, TipoMarcado
<1>4. /\ n \in Chord /\ n.chunk[c] = "falhou"
      /\ \A d \in Chunks \ {c} : n.chunk[d] = chord[k].chunk[d]
  BY <1>1, TipoMarcado
<1> HIDE DEF m, n
<1>5. /\ r \in Chord /\ r.etapa \in {"rodando", "falhou"}
      /\ r.chunk[c] \in {"pendente", "falhou"}
      /\ \A d \in Chunks \ {c} : r.chunk[d] = chord[k].chunk[d]
  <2>1. CASE chord[k].tent[c] < MaxRetries
    BY <2>1, <1>2, <1>3, Limites DEF Chord, r
  <2>2. CASE ~(chord[k].tent[c] < MaxRetries)
    BY <2>2, <1>4 DEF Chord, r
  <2>3. QED BY <2>1, <2>2
<1>6. chord' = [chord EXCEPT ![k] = r]
  BY DEF FalharChunk, r, m, n
<1> HIDE DEF r
<1>7. \A d \in ChunksDaFase[k[2]] :
        r.chunk[d] \in {"escrito", "feito"}
          => <<Linhagem(k), k[2], d>> \in escrito
  BY <1>1, <1>2, <1>5 DEF EloCerto
<1>8. QED
  <2>1. UNCHANGED <<comando, situacao, checkpoint, escrito>>
    BY DEF FalharChunk
  <2>2. usos' \in [{"falhas", "duplicatas"} -> Nat]
    BY Limites, TipoUsos DEF ChordInv, FalharChunk
  <2>3. escrito' \subseteq Ids \X Fases \X Chunks
    BY <2>1 DEF ChordInv, TypeOK
  <2>4. QED
    BY <2>1, <2>2, <2>3, <1>2, <1>5, <1>6, <1>7, UmElo

(* A task that was written is delivered again. *)
LEMMA PerderWorkerPreserva ==
  ASSUME ChordInv, NEW k \in Elos, NEW c \in Chunks, PerderWorker(k, c)
  PROVE  ChordInv'
<1> DEFINE r == Marcado(k, c, "pendente")
<1>1. chord[k] \in Chord /\ ChunksDaFase[k[2]] \subseteq Chunks
  BY TipoElo DEF ChordInv
<1>2. EloCerto(k) /\ chord[k].etapa \in {"rodando", "falhou"}
  BY DEF ChordInv, ElosCertos, PerderWorker
<1>3. /\ r \in Chord /\ r.etapa = chord[k].etapa /\ r.chunk[c] = "pendente"
      /\ \A d \in Chunks \ {c} : r.chunk[d] = chord[k].chunk[d]
  BY <1>1, TipoMarcado
<1>4. chord' = [chord EXCEPT ![k] = r]
  BY DEF PerderWorker
<1> HIDE DEF r
<1>5. \A d \in ChunksDaFase[k[2]] :
        r.chunk[d] \in {"escrito", "feito"}
          => <<Linhagem(k), k[2], d>> \in escrito
  BY <1>1, <1>2, <1>3 DEF EloCerto
<1>6. QED
  <2>1. UNCHANGED <<comando, situacao, checkpoint, escrito>>
    BY DEF PerderWorker
  <2>2. usos' \in [{"falhas", "duplicatas"} -> Nat]
    BY Limites, TipoUsos DEF ChordInv, PerderWorker
  <2>3. escrito' \subseteq Ids \X Fases \X Chunks
    BY <2>1 DEF ChordInv, TypeOK
  <2>4. QED
    BY <2>1, <2>2, <2>3, <1>2, <1>3, <1>4, <1>5, UmElo

-------------------------------------------------------------------------------
(* finalizar_fase *)

(* The callback writes the checkpoint of its phase. *)
LEMMA GravarCheckpointPreserva ==
  ASSUME ChordInv, NEW k \in Elos, GravarCheckpoint(k)
  PROVE  ChordInv'
<1> DEFINE r == [chord[k] EXCEPT !.etapa = "gravado"]
<1>1. /\ chord[k] \in Chord /\ k[1] \in Ids /\ k[2] \in Fases
      /\ chord[k].etapa = "callback" /\ EloCerto(k)
  BY TipoElo DEF ChordInv, ElosCertos, GravarCheckpoint
<1>2. r \in Chord /\ r.etapa = "gravado" /\ r.chunk = chord[k].chunk
  BY <1>1, TipoEtapa
<1>3. /\ chord' = [chord EXCEPT ![k] = r]
      /\ UNCHANGED <<comando, situacao, escrito, usos>>
      /\ checkpoint'.exec = k[1] /\ checkpoint'.pagina = k[2]
  BY DEF GravarCheckpoint, Fase
<1> HIDE DEF r
<1>4. chord \in [Elos -> Chord]
  BY DEF ChordInv, TypeOK
<1>5. /\ chord' \in [Elos -> Chord] /\ chord'[k] = r
      /\ \A j \in Elos \ {k} : chord'[j] = chord[j]
  BY <1>2, <1>3, <1>4
<1>6. checkpoint' \in Checkpoint
  BY <1>1, Limites DEF GravarCheckpoint, Fase, Checkpoint, Ids, Fases
<1>7. TypeOK'
  BY <1>3, <1>5, <1>6 DEF ChordInv, TypeOK
<1>8. Guardado
  BY <1>3, GuardaTudo
<1>9. ElosCertos'
  <2>1. EloCerto(k)'
    BY <1>1, <1>2, <1>3, <1>5 DEF EloCerto, Linhagem, FaseEscrita
  <2>2. QED
    BY <1>5, <1>8, <2>1, ElosGuardados
<1>10. CheckpointLancado' /\ CheckpointCoberto'
  <2>1. /\ comando[k[1]].etapa = "lancado"
        /\ \A f \in 1..k[2] : FaseEscrita(Linhagem(k), f)
    BY <1>1, FasesFeitas
  <2>2. CheckpointLancado'
    BY <1>1, <1>3, <2>1 DEF CheckpointLancado
  <2>3. CheckpointCoberto'
    BY <1>3, <2>1 DEF CheckpointCoberto, Linhagem, FaseEscrita
  <2>4. QED BY <2>2, <2>3
<1>11. InicioCoberto'
  BY <1>3, <1>8, InicioGuardado
<1>12. SituacaoIniciada' /\ ConcluidoCompleto'
  BY <1>3, <1>8, SituacaoGuardada DEF ChordInv, SituacaoIniciada
<1>13. QED
  BY <1>7, <1>9, <1>10, <1>11, <1>12 DEF ChordInv

(* The callback publishes the chord of the next phase. *)
LEMMA LancarSeguintePreserva ==
  ASSUME ChordInv, NEW k \in Elos, LancarSeguinte(k)
  PROVE  ChordInv'
<1> DEFINE s == <<k[1], k[2] + 1, k[3]>>
           n == Novo(k[2] + 1)
           r == [chord[k] EXCEPT !.etapa = "encerrado"]
<1>1. /\ chord[k] \in Chord /\ k[1] \in Ids /\ k[2] \in Fases
      /\ k = <<k[1], k[2], k[3]>> /\ k[3] \in Copias
      /\ chord[k].etapa = "gravado" /\ k[2] < NumFases /\ EloCerto(k)
  BY TipoElo DEF ChordInv, ElosCertos, LancarSeguinte, Elos, Fase
<1>2. k[2] \in Nat /\ k[2] + 1 \in Fases /\ k[2] + 1 - 1 = k[2]
  BY <1>1, Limites DEF Fases
<1>3. s \in Elos /\ s # k /\ s[1] = k[1] /\ s[2] = k[2] + 1
  BY <1>1, <1>2 DEF Elos
<1>4. r \in Chord /\ r.etapa = "encerrado" /\ r.chunk = chord[k].chunk
  BY <1>1, TipoEtapa
<1>5. /\ n \in Chord /\ n.etapa \in {"callback", "rodando"}
      /\ \A c \in ChunksDaFase[k[2] + 1] : n.chunk[c] = "pendente"
      /\ n.etapa = "callback" => \A c \in Chunks : n.chunk[c] = "feito"
  BY <1>2, TipoNovo
<1>6. /\ chord' = [[chord EXCEPT ![k] = r] EXCEPT ![s] = n]
      /\ UNCHANGED <<comando, situacao, checkpoint, escrito, usos>>
  BY <1>1, <1>3 DEF LancarSeguinte, Fase
<1>7. chord \in [Elos -> Chord]
  BY DEF ChordInv, TypeOK
<1>8. \A f \in 1..k[2] : FaseEscrita(Linhagem(k), f)
  BY <1>1, FasesFeitas
<1> HIDE DEF s, n, r
<1>9. /\ chord' \in [Elos -> Chord] /\ chord'[k] = r /\ chord'[s] = n
      /\ \A j \in Elos \ {k, s} : chord'[j] = chord[j]
  BY <1>3, <1>4, <1>5, <1>6, <1>7
<1>10. EloCerto(k)'
  BY <1>1, <1>4, <1>6, <1>9 DEF EloCerto, Linhagem, FaseEscrita
<1>11. EloCerto(s)'
  <2>1. Linhagem(s)' = Linhagem(k)
    BY <1>3, <1>6 DEF Linhagem
  <2>2. comando'[s[1]].etapa = "lancado"
    BY <1>1, <1>3, <1>6 DEF EloCerto
  <2>3. \A f \in 1..s[2] - 1 : FaseEscrita(Linhagem(s), f)'
    BY <1>2, <1>3, <1>6, <1>8, <2>1 DEF FaseEscrita
  <2>4. QED
    BY <1>3, <1>5, <1>9, <2>2, <2>3 DEF EloCerto
<1>12. TypeOK'
  BY <1>6, <1>9 DEF ChordInv, TypeOK
<1>13. QED
  BY <1>6, <1>9, <1>10, <1>11, <1>12, SoChord

(* The callback of the last phase finishes the execution. *)
LEMMA FinalizarPreserva ==
  ASSUME ChordInv, NEW k \in Elos, Finalizar(k)
  PROVE  ChordInv'
<1> DEFINE r == [chord[k] EXCEPT !.etapa = "encerrado"]
<1>1. /\ chord[k] \in Chord /\ k[1] \in Ids
      /\ chord[k].etapa = "gravado" /\ k[2] = NumFases /\ EloCerto(k)
  BY TipoElo DEF ChordInv, ElosCertos, Finalizar, Fase
<1>2. r \in Chord /\ r.etapa = "encerrado" /\ r.chunk = chord[k].chunk
  BY <1>1, TipoEtapa
<1>3. /\ chord' = [chord EXCEPT ![k] = r]
      /\ situacao' = [situacao EXCEPT ![k[1]] = "concluido"]
      /\ UNCHANGED <<comando, checkpoint, escrito, usos>>
  BY DEF Finalizar
<1> HIDE DEF r
<1>4. /\ chord \in [Elos -> Chord]
      /\ situacao \in [Ids -> {"inexistente", "em_execucao", "concluido",
                               "interrompido"}]
  BY DEF ChordInv, TypeOK
<1>5. /\ chord' \in [Elos -> Chord] /\ chord'[k] = r
      /\ \A j \in Elos \ {k} : chord'[j] = chord[j]
  BY <1>2, <1>3, <1>4
<1>6. TypeOK'
  BY <1>1, <1>3, <1>4, <1>5 DEF ChordInv, TypeOK
<1>7. Guardado
  BY <1>3, GuardaTudo
<1>8. ElosCertos'
  <2>1. EloCerto(k)'
    BY <1>1, <1>2, <1>3, <1>5 DEF EloCerto, Linhagem, FaseEscrita
  <2>2. QED
    BY <1>5, <1>7, <2>1, ElosGuardados
<1>9. CheckpointLancado' /\ CheckpointCoberto' /\ InicioCoberto'
  BY <1>3, <1>7, CheckpointGuardado, InicioGuardado
<1>10. /\ comando[k[1]].etapa = "lancado"
       /\ \A f \in Fases : FaseEscrita(Linhagem(k), f)
  BY <1>1, FasesFeitas DEF Fases
<1>11. SituacaoIniciada'
  BY <1>1, <1>3, <1>4, <1>10 DEF ChordInv, SituacaoIniciada
<1>12. ConcluidoCompleto'
  <2>1. SUFFICES ASSUME NEW e \in Ids, situacao'[e] = "concluido", NEW f \in Fases
                 PROVE  FaseEscrita(comando[e].linhagem, f)'
    BY DEF ConcluidoCompleto
  <2>2. CASE e = k[1]
    BY <1>3, <1>10, <2>2 DEF FaseEscrita, Linhagem
  <2>3. CASE e # k[1]
    BY <1>3, <1>4, <2>1, <2>3 DEF ChordInv, ConcluidoCompleto, FaseEscrita
  <2>4. QED BY <2>2, <2>3
<1>13. QED
  BY <1>6, <1>8, <1>9, <1>11, <1>12 DEF ChordInv

(* The callback is lost. *)
LEMMA FalharCallbackPreserva ==
  ASSUME ChordInv, NEW k \in Elos, FalharCallback(k)
  PROVE  ChordInv'
<1> DEFINE r == [chord[k] EXCEPT !.etapa = "falhou"]
<1>1. /\ chord[k] \in Chord /\ chord[k].etapa # "ausente" /\ EloCerto(k)
  BY TipoElo DEF ChordInv, ElosCertos, FalharCallback
<1>2. r \in Chord /\ r.etapa = "falhou" /\ r.chunk = chord[k].chunk
  BY <1>1, TipoEtapa
<1>3. /\ chord' = [chord EXCEPT ![k] = r]
      /\ UNCHANGED <<comando, situacao, checkpoint, escrito>>
  BY DEF FalharCallback
<1> HIDE DEF r
<1>4. /\ usos' \in [{"falhas", "duplicatas"} -> Nat]
      /\ escrito' \subseteq Ids \X Fases \X Chunks
  BY <1>3, Limites, TipoUsos DEF ChordInv, TypeOK, FalharCallback
<1>5. \A c \in ChunksDaFase[k[2]] :
        r.chunk[c] \in {"escrito", "feito"}
          => <<Linhagem(k), k[2], c>> \in escrito
  BY <1>1, <1>2 DEF EloCerto
<1>6. QED
  BY <1>1, <1>2, <1>3, <1>4, <1>5, UmElo

(* The broker delivers a callback again. *)
LEMMA DuplicarPreserva ==
  ASSUME ChordInv, NEW k \in Elos, Duplicar(k)
  PROVE  ChordInv'
<1> DEFINE r == [chord[k] EXCEPT !.etapa = "callback"]
<1>1. /\ chord[k] \in Chord /\ k[1] \in Ids /\ k[2] \in Fases /\ EloCerto(k)
      /\ chord[k].etapa \in {"callback", "gravado", "encerrado"}
  BY TipoElo DEF ChordInv, ElosCertos, Duplicar
<1>2. usos.duplicatas + 1 \in Copias
  BY Limites DEF ChordInv, TypeOK, Duplicar, Gastar, Copias
<1>3. PICK s \in Elos : s = <<k[1], k[2], usos.duplicatas + 1>>
  BY <1>1, <1>2 DEF Elos
<1>4. r \in Chord /\ r.etapa = "callback" /\ r.chunk = chord[k].chunk
  BY <1>1, TipoEtapa
<1>5. /\ chord' = [chord EXCEPT ![s] = r]
      /\ UNCHANGED <<comando, situacao, checkpoint, escrito>>
  BY <1>3 DEF Duplicar, Fase
<1>6. chord \in [Elos -> Chord]
  BY DEF ChordInv, TypeOK
<1> HIDE DEF r
<1>7. /\ chord' \in [Elos -> Chord] /\ chord'[s] = r
      /\ \A j \in Elos \ {s} : chord'[j] = chord[j]
  BY <1>3, <1>4, <1>5, <1>6
<1>8. EloCerto(s)'
  <2>1. Linhagem(s)' = Linhagem(k)
    BY <1>3, <1>5 DEF Linhagem
  <2>2. QED
    BY <1>1, <1>3, <1>4, <1>5, <1>7, <2>1 DEF EloCerto, FaseEscrita
<1>9. usos' \in [{"falhas", "duplicatas"} -> Nat]
  BY Limites, TipoUsos DEF ChordInv, Duplicar
<1>10. TypeOK'
  BY <1>5, <1>7, <1>9 DEF ChordInv, TypeOK
<1>11. QED
  BY <1>5, <1>7, <1>8, <1>10, SoChord

-------------------------------------------------------------------------------
(* The command and the clean-up. *)

(* A command starts: the phases it skips were written for the lineage it      *)
(* takes from the checkpoint.                                                 *)
LEMMA IniciarPreserva ==
  ASSUME ChordInv, NEW e \in Ids, NEW continuar \in BOOLEAN, Iniciar(e, continuar)
  PROVE  ChordInv'
<1> DEFINE p == IF continuar THEN PontoDoCheckpoint ELSE 1
           l == IF p > 1 THEN comando[checkpoint.exec].linhagem ELSE e
<1>1. /\ comando \in [Ids -> Comando] /\ comando[e].etapa = "ausente"
      /\ checkpoint \in Checkpoint
  BY DEF ChordInv, TypeOK, Iniciar
<1>2. p \in Fases /\ (p > 1 => p = checkpoint.pagina)
  BY <1>1, Limites DEF PontoDoCheckpoint, Checkpoint, Fases
<1>3. p > 1 => /\ checkpoint.exec \in Ids
               /\ \A f \in 1..p - 1 :
                    FaseEscrita(comando[checkpoint.exec].linhagem, f)
  <2>1. SUFFICES ASSUME p > 1
                 PROVE  /\ checkpoint.exec \in Ids
                        /\ \A f \in 1..p - 1 :
                             FaseEscrita(comando[checkpoint.exec].linhagem, f)
    OBVIOUS
  <2>2. p = checkpoint.pagina /\ checkpoint.pagina \in Nat
    BY <1>1, <1>2, <2>1, Limites DEF Checkpoint
  <2> HIDE DEF p
  <2>3. checkpoint.exec \in Ids
    BY <2>1, <2>2 DEF ChordInv, CheckpointLancado
  <2>4. 1..p - 1 \subseteq 1..checkpoint.pagina
    BY <2>2
  <2>5. QED
    BY <2>3, <2>4 DEF ChordInv, CheckpointCoberto
<1>4. /\ comando' = [comando EXCEPT ![e] = [etapa |-> "iniciando", inicio |-> p,
                                            linhagem |-> l]]
      /\ UNCHANGED <<situacao, checkpoint, chord, escrito, usos>>
  BY DEF Iniciar
<1> HIDE DEF p
<1>5. l \in Ids
  BY <1>1, <1>3 DEF Comando
<1>6. \A f \in 1..p - 1 : FaseEscrita(l, f)
  <2>1. CASE p > 1
    BY <1>3, <2>1
  <2>2. CASE ~(p > 1)
    BY <1>2, <2>2 DEF Fases
  <2>3. QED BY <2>1, <2>2
<1>7. PICK ll \in Ids : ll = l
  BY <1>5
<1>8. PICK pp \in Fases : pp = p
  BY <1>2
<1> HIDE DEF l
<1>9. /\ comando'[e] = [etapa |-> "iniciando", inicio |-> pp, linhagem |-> ll]
      /\ \A d \in Ids \ {e} : comando'[d] = comando[d]
      /\ comando' \in [Ids -> Comando]
  BY <1>1, <1>4, <1>7, <1>8 DEF Comando
<1>10. TypeOK'
  BY <1>4, <1>9 DEF ChordInv, TypeOK
<1>11. Guardado
  BY <1>1, <1>4, <1>9 DEF Guardado
<1>12. ElosCertos'
  BY <1>4, <1>11, ElosGuardados
<1>13. CheckpointLancado' /\ CheckpointCoberto'
  BY <1>4, <1>11, CheckpointGuardado
<1>14. SituacaoIniciada' /\ ConcluidoCompleto'
  BY <1>4, <1>11, SituacaoGuardada DEF ChordInv, SituacaoIniciada
<1>15. InicioCoberto'
  <2>1. SUFFICES ASSUME NEW d \in Ids, comando'[d].etapa # "ausente",
                        NEW f \in 1..comando'[d].inicio - 1
                 PROVE  FaseEscrita(comando[d].linhagem, f)'
    BY DEF InicioCoberto
  <2>2. CASE d = e
    <3>1. f \in 1..p - 1 /\ comando'[d].linhagem = ll
      BY <1>8, <1>9, <2>1, <2>2
    <3>2. FaseEscrita(ll, f)
      BY <1>6, <1>7, <3>1
    <3>3. QED
      BY <1>4, <3>1, <3>2 DEF FaseEscrita
  <2>3. CASE d # e
    BY <1>4, <1>9, <2>1, <2>3 DEF ChordInv, InicioCoberto, FaseEscrita
  <2>4. QED BY <2>2, <2>3
<1>16. QED
  BY <1>10, <1>12, <1>13, <1>14, <1>15 DEF ChordInv

(* The step of a command after it began: its stage becomes x. *)
LEMMA PassoDoComando ==
  ASSUME ChordInv, NEW e \in Ids, comando[e].etapa # "ausente",
         comando[e].etapa # "lancado",
         NEW x \in {"lancando", "lancado", "falhou"},
         comando' = [comando EXCEPT ![e].etapa = x],
         escrito' = escrito
  PROVE  /\ comando' \in [Ids -> Comando] /\ comando'[e].etapa = x
         /\ Guardado /\ InicioCoberto'
<1>1. comando \in [Ids -> Comando]
  BY DEF ChordInv, TypeOK
<1>2. /\ comando'[e] = [comando[e] EXCEPT !.etapa = x]
      /\ \A d \in Ids \ {e} : comando'[d] = comando[d]
  BY <1>1
<1>3. /\ comando'[e].etapa = x /\ comando'[e].linhagem = comando[e].linhagem
      /\ comando'[e].inicio = comando[e].inicio /\ comando'[e] \in Comando
  BY <1>1, <1>2 DEF Comando
<1>4. comando' \in [Ids -> Comando]
  BY <1>1, <1>3
<1>5. Guardado
  BY <1>2, <1>3 DEF Guardado
<1>6. \A d \in Ids : comando'[d].etapa # "ausente" => comando[d].etapa # "ausente"
  BY <1>2
<1>7. QED
  BY <1>3, <1>4, <1>5, <1>6, InicioGuardado

(* The execution is registered. *)
LEMMA RegistrarPreserva ==
  ASSUME ChordInv, NEW e \in Ids, Registrar(e)
  PROVE  ChordInv'
<1>1. /\ comando[e].etapa = "iniciando"
      /\ comando' = [comando EXCEPT ![e].etapa = "lancando"]
      /\ situacao' = [situacao EXCEPT ![e] = "em_execucao"]
      /\ UNCHANGED <<checkpoint, chord, escrito, usos>>
  BY DEF Registrar
<1>2. comando' \in [Ids -> Comando] /\ Guardado /\ InicioCoberto'
  BY <1>1, PassoDoComando
<1>3. TypeOK'
  BY <1>1, <1>2 DEF ChordInv, TypeOK
<1>4. ElosCertos'
  BY <1>1, <1>2, ElosGuardados
<1>5. CheckpointLancado' /\ CheckpointCoberto'
  BY <1>1, <1>2, CheckpointGuardado
<1>6. SituacaoIniciada' /\ ConcluidoCompleto'
  <2>1. situacao \in [Ids -> {"inexistente", "em_execucao", "concluido",
                              "interrompido"}]
    BY DEF ChordInv, TypeOK
  <2>2. /\ \A d \in Ids : situacao'[d] # "inexistente"
                            => comando[d].etapa # "ausente"
        /\ \A d \in Ids : situacao'[d] = "concluido" => situacao[d] = "concluido"
    BY <1>1, <2>1 DEF ChordInv, SituacaoIniciada
  <2>3. QED
    BY <1>2, <2>2, SituacaoGuardada
<1>7. QED
  BY <1>2, <1>3, <1>4, <1>5, <1>6 DEF ChordInv

(* A command that launches nothing: what is left of the invariant.            *)
LEMMA RestoDoComando ==
  ASSUME ChordInv, Guardado, UNCHANGED <<situacao, checkpoint>>
  PROVE  /\ CheckpointLancado' /\ CheckpointCoberto'
         /\ SituacaoIniciada' /\ ConcluidoCompleto'
<1>1. CheckpointLancado' /\ CheckpointCoberto'
  BY CheckpointGuardado
<1>2. SituacaoIniciada' /\ ConcluidoCompleto'
  <2>1. \A e \in Ids : situacao'[e] # "inexistente" => comando[e].etapa # "ausente"
    BY DEF ChordInv, SituacaoIniciada
  <2>2. QED
    BY <2>1, SituacaoGuardada
<1>3. QED BY <1>1, <1>2

(* The first chord is published. *)
LEMMA LancarPreserva ==
  ASSUME ChordInv, NEW e \in Ids, Lancar(e)
  PROVE  ChordInv'
<1>1. PICK p \in Fases : p = comando[e].inicio
  BY DEF ChordInv, TypeOK, Comando
<1> DEFINE s == <<e, p, 0>>
           n == Novo(p)
<1>2. /\ comando[e].etapa = "lancando"
      /\ comando' = [comando EXCEPT ![e].etapa = "lancado"]
      /\ chord' = [chord EXCEPT ![s] = n]
      /\ UNCHANGED <<situacao, checkpoint, escrito, usos>>
  BY <1>1 DEF Lancar
<1>3. /\ comando' \in [Ids -> Comando] /\ comando'[e].etapa = "lancado"
      /\ Guardado /\ InicioCoberto'
  BY <1>2, PassoDoComando
<1>4. s \in Elos /\ s[1] = e /\ s[2] = p
  BY Limites DEF Elos, Copias
<1>5. /\ n \in Chord /\ n.etapa \in {"callback", "rodando"}
      /\ \A c \in ChunksDaFase[p] : n.chunk[c] = "pendente"
      /\ n.etapa = "callback" => \A c \in Chunks : n.chunk[c] = "feito"
  BY TipoNovo
<1> HIDE DEF s, n
<1>6. chord \in [Elos -> Chord]
  BY DEF ChordInv, TypeOK
<1>7. /\ chord' \in [Elos -> Chord] /\ chord'[s] = n
      /\ \A j \in Elos \ {s} : chord'[j] = chord[j]
  BY <1>2, <1>4, <1>5, <1>6
<1>8. TypeOK'
  BY <1>2, <1>3, <1>7 DEF ChordInv, TypeOK
<1>9. ElosCertos'
  <2>1. comando'[e].inicio = p
    BY <1>1, <1>2, <1>3 DEF Guardado
  <2>2. \A f \in 1..s[2] - 1 : FaseEscrita(Linhagem(s), f)'
    BY <1>3, <1>4, <2>1 DEF InicioCoberto, Linhagem
  <2>3. EloCerto(s)'
    BY <1>3, <1>4, <1>5, <1>7, <2>2 DEF EloCerto
  <2>4. QED
    BY <1>3, <1>7, <2>3, ElosGuardados
<1>10. QED
  BY <1>2, <1>3, <1>8, <1>9, RestoDoComando DEF ChordInv

(* A launch is lost. *)
LEMMA FalharLancamentoPreserva ==
  ASSUME ChordInv, NEW e \in Ids, FalharLancamento(e)
  PROVE  ChordInv'
<1>1. /\ comando[e].etapa \in {"iniciando", "lancando"}
      /\ comando' = [comando EXCEPT ![e].etapa = "falhou"]
      /\ UNCHANGED <<situacao, checkpoint, chord, escrito>>
  BY DEF FalharLancamento
<1>2. comando' \in [Ids -> Comando] /\ Guardado /\ InicioCoberto'
  BY <1>1, PassoDoComando
<1>3. usos' \in [{"falhas", "duplicatas"} -> Nat]
  BY Limites, TipoUsos DEF ChordInv, FalharLancamento
<1>4. TypeOK'
  BY <1>1, <1>2, <1>3 DEF ChordInv, TypeOK
<1>5. ElosCertos'
  BY <1>1, <1>2, ElosGuardados
<1>6. QED
  BY <1>1, <1>2, <1>4, <1>5, RestoDoComando DEF ChordInv

(* limpar-orfas interrupts an execution and perhaps the checkpoint. *)
LEMMA LimparOrfaPreserva ==
  ASSUME ChordInv, NEW e \in Ids, LimparOrfa(e)
  PROVE  ChordInv'
<1>1. /\ situacao[e] = "em_execucao"
      /\ situacao' = [situacao EXCEPT ![e] = "interrompido"]
      /\ UNCHANGED <<comando, chord, escrito, usos>>
  BY DEF LimparOrfa
<1>2. /\ checkpoint' \in Checkpoint
      /\ checkpoint'.exec = checkpoint.exec
      /\ checkpoint'.pagina = checkpoint.pagina
  BY DEF LimparOrfa, ChordInv, TypeOK, Checkpoint
<1>3. situacao \in [Ids -> {"inexistente", "em_execucao", "concluido",
                            "interrompido"}]
  BY DEF ChordInv, TypeOK
<1>4. TypeOK'
  BY <1>1, <1>2, <1>3 DEF ChordInv, TypeOK
<1>5. Guardado
  BY <1>1, GuardaTudo
<1>6. ElosCertos' /\ InicioCoberto'
  BY <1>1, <1>5, ElosGuardados, InicioGuardado
<1>7. CheckpointLancado' /\ CheckpointCoberto'
  BY <1>2, <1>5, CheckpointGuardado
<1>8. SituacaoIniciada' /\ ConcluidoCompleto'
  <2>1. /\ \A d \in Ids : situacao'[d] # "inexistente"
                            => comando[d].etapa # "ausente"
        /\ \A d \in Ids : situacao'[d] = "concluido" => situacao[d] = "concluido"
    BY <1>1, <1>3 DEF ChordInv, SituacaoIniciada
  <2>2. QED
    BY <1>5, <2>1, SituacaoGuardada
<1>9. QED
  BY <1>4, <1>6, <1>7, <1>8 DEF ChordInv

-------------------------------------------------------------------------------
(* Theorems. *)

(* Every step keeps the invariant. *)
LEMMA ChordPreserva == ChordInv /\ [Next]_vars => ChordInv'
<1>1. SUFFICES ASSUME ChordInv, [Next]_vars PROVE ChordInv'
  OBVIOUS
<1>2. CASE \E e \in Ids : \E continuar \in BOOLEAN : Iniciar(e, continuar)
  BY <1>1, <1>2, IniciarPreserva
<1>3. CASE \E e \in Ids : PassoComando(e)
  BY <1>1, <1>3, RegistrarPreserva, LancarPreserva DEF PassoComando
<1>4. CASE \E e \in Ids : FalharLancamento(e) \/ LimparOrfa(e)
  BY <1>1, <1>4, FalharLancamentoPreserva, LimparOrfaPreserva
<1>5. CASE \E k \in Elos : PassoCallback(k)
  BY <1>1, <1>5, GravarCheckpointPreserva, LancarSeguintePreserva,
     FinalizarPreserva DEF PassoCallback
<1>6. CASE \E k \in Elos : FalharCallback(k) \/ Duplicar(k)
  BY <1>1, <1>6, FalharCallbackPreserva, DuplicarPreserva
<1>7. CASE \E k \in Elos : \E c \in Chunks : PassoChunk(k, c)
  BY <1>1, <1>7, EscreverPreserva, TerminarPreserva DEF PassoChunk
<1>8. CASE \E k \in Elos : \E c \in Chunks : FalharChunk(k, c) \/ PerderWorker(k, c)
  BY <1>1, <1>8, FalharChunkPreserva, PerderWorkerPreserva
<1>9. CASE UNCHANGED vars
  <2>1. /\ UNCHANGED <<comando, situacao, checkpoint, chord, escrito, usos>>
        /\ TypeOK'
    BY <1>1, <1>9 DEF vars, ChordInv, TypeOK
  <2>2. QED
    BY <1>1, <2>1, SoChord
<1>10. QED
  BY <1>1, <1>2, <1>3, <1>4, <1>5, <1>6, <1>7, <1>8, <1>9 DEF Next

(* Chords that stand for what was written are always what a chain has.        *)
THEOREM InvarianteDoChord == Spec => []ChordInv
<1>1. Init => ChordInv
  BY InicioChord
<1>2. ChordInv /\ [Next]_vars => ChordInv'
  BY ChordPreserva
<1>3. QED
  BY <1>1, <1>2, PTL DEF Spec

(* Every variable has its type. *)
THEOREM TipoDoChord == Spec => []TypeOK
<1>1. ChordInv => TypeOK
  BY DEF ChordInv
<1>2. QED
  BY <1>1, InvarianteDoChord, PTL

(* A phase is published only when the phases before it were written, though   *)
(* callbacks come twice and chains run at once.                               *)
THEOREM OrdemDasFases == Spec => []FasesEmOrdem
<1>1. ChordInv => FasesEmOrdem
  BY DEF ChordInv, ElosCertos, EloCerto, FasesEmOrdem, Linhagem
<1>2. QED
  BY <1>1, InvarianteDoChord, PTL

(* A chain that continues from the checkpoint leaves no phase unwritten.      *)
THEOREM CheckpointDoChord == Spec => []CheckpointCoberto
<1>1. ChordInv => CheckpointCoberto
  BY DEF ChordInv
<1>2. QED
  BY <1>1, InvarianteDoChord, PTL

(* A concluded execution wrote every chunk of every phase. *)
THEOREM ConclusaoDoChord == Spec => []ConcluidoCompleto
<1>1. ChordInv => ConcluidoCompleto
  BY DEF ChordInv
<1>2. QED
  BY <1>1, InvarianteDoChord, PTL

-------------------------------------------------------------------------------
(* Every step is a step of EtlPedido, or shows nothing. *)

(* A command that goes on shows nothing of a request. *)
LEMMA ComandoMostra ==
  ASSUME comando \in [Ids -> Comando], NEW e \in Ids,
         comando[e].etapa # "ausente",
         NEW x \in {"lancando", "lancado", "falhou"},
         comando' = [comando EXCEPT ![e].etapa = x]
  PROVE  /\ UNCHANGED <<Comecadas, PedidoDe, EscopoDe>>
         /\ LinhagemIniciada => LinhagemIniciada'
<1>1. /\ comando'[e] = [comando[e] EXCEPT !.etapa = x]
      /\ \A d \in Ids \ {e} : comando'[d] = comando[d]
  OBVIOUS
<1>2. /\ comando'[e].etapa = x
      /\ \A d \in Ids : comando'[d].linhagem = comando[d].linhagem
  BY <1>1 DEF Comando
<1>3. \A d \in Ids : comando'[d].etapa # "ausente" <=> comando[d].etapa # "ausente"
  BY <1>1, <1>2
<1>4. Comecadas' = Comecadas
  BY <1>3 DEF Comecadas
<1>5. Comecadas \subseteq Ids
  BY DEF Comecadas
<1>6. PedidoDe' = PedidoDe /\ EscopoDe' = EscopoDe
  BY <1>2, <1>4 DEF PedidoDe, EscopoDe
<1>7. LinhagemIniciada => LinhagemIniciada'
  BY <1>2, <1>4, <1>5 DEF LinhagemIniciada
<1>8. QED
  BY <1>4, <1>6, <1>7

(* Steps that leave the commands as they are show nothing of them.            *)
LEMMA ComandoIgual ==
  ASSUME UNCHANGED comando
  PROVE  /\ UNCHANGED <<Comecadas, PedidoDe, EscopoDe>>
         /\ LinhagemIniciada => LinhagemIniciada'
BY DEF Comecadas, PedidoDe, EscopoDe, LinhagemIniciada

(* What was done for the requests changes only when something is written.     *)
LEMMA EscritoIgual ==
  ASSUME UNCHANGED escrito
  PROVE  UNCHANGED FeitasPara
BY DEF FeitasPara, FaseEscrita

(* A command begins a request, or goes on with that of the checkpoint.        *)
LEMMA IniciarPedido ==
  ASSUME ChordInv, LinhagemIniciada, NEW e \in Ids, NEW continuar \in BOOLEAN,
         Iniciar(e, continuar)
  PROVE  LinhagemIniciada' /\ Pedido!Next
<1> DEFINE p == IF continuar THEN PontoDoCheckpoint ELSE 1
           l == IF p > 1 THEN comando[checkpoint.exec].linhagem ELSE e
<1>1. /\ comando \in [Ids -> Comando] /\ comando[e].etapa = "ausente"
      /\ checkpoint \in Checkpoint
  BY DEF ChordInv, TypeOK, Iniciar
<1>2. p > 1 => checkpoint.pagina > 0
  BY <1>1, Limites DEF PontoDoCheckpoint, Checkpoint
<1>3. p > 1 => checkpoint.exec \in Comecadas
  BY <1>2 DEF ChordInv, CheckpointLancado, Comecadas
<1>4. /\ comando' = [comando EXCEPT ![e] = [etapa |-> "iniciando", inicio |-> p,
                                            linhagem |-> l]]
      /\ UNCHANGED <<situacao, escrito>>
  BY DEF Iniciar
<1>5. /\ comando'[e].etapa = "iniciando" /\ comando'[e].linhagem = l
      /\ \A d \in Ids \ {e} : comando'[d] = comando[d]
  BY <1>1, <1>4
<1>6. l = e \/ \E d \in Comecadas : l = comando[d].linhagem
  BY <1>3
<1> HIDE DEF p, l
<1>7. /\ e \notin Comecadas /\ Comecadas \subseteq Ids
      /\ Comecadas' = Comecadas \cup {e}
  BY <1>1, <1>5 DEF Comecadas
<1>8. l \in Comecadas'
  BY <1>6, <1>7 DEF LinhagemIniciada
<1>9. LinhagemIniciada'
  BY <1>5, <1>7, <1>8 DEF LinhagemIniciada
<1>10. Pedido!Iniciar(e)
  <2>1. PedidoDe[e] = 0
    BY <1>7 DEF PedidoDe
  <2>2. PedidoDe' = [PedidoDe EXCEPT ![e] = l]
    <3>1. \A d \in Ids :
            (IF d \in Comecadas' THEN comando'[d].linhagem ELSE 0) =
              IF d = e THEN l ELSE IF d \in Comecadas THEN comando[d].linhagem
                                   ELSE 0
      BY <1>5, <1>7
    <3>2. QED BY <3>1 DEF PedidoDe
  <2>3. EscopoDe' = [EscopoDe EXCEPT ![e] = Fases]
    BY <1>7 DEF EscopoDe
  <2>4. l \in {e} \cup {PedidoDe[d] : d \in Pedido!Iniciadas}
    <3>1. ASSUME NEW d \in Comecadas, l = comando[d].linhagem
          PROVE  d \in Pedido!Iniciadas /\ PedidoDe[d] = l
      <4>1. PedidoDe[d] = l
        BY <1>7, <3>1 DEF PedidoDe
      <4>2. comando[d].linhagem \in Ids
        BY <1>1, <1>7 DEF Comando
      <4>3. QED
        BY <1>7, <3>1, <4>1, <4>2 DEF Pedido!Iniciadas, Ids
    <3>2. QED
      BY <1>6, <3>1
  <2>5. UNCHANGED <<FeitasPara, Concluidas>>
    BY <1>4, EscritoIgual DEF Concluidas
  <2>6. QED
    BY <2>1, <2>2, <2>3, <2>4, <2>5 DEF Pedido!Iniciar
<1>11. QED
  BY <1>9, <1>10 DEF Pedido!Next

(* The last chunk of a phase to be written does the phase for its request.    *)
LEMMA EscreverPedido ==
  ASSUME ChordInv, LinhagemIniciada, NEW k \in Elos, NEW c \in Chunks,
         Escrever(k, c)
  PROVE  LinhagemIniciada' /\ Pedido!Next
<1>1. /\ k[1] \in Ids /\ k[2] \in Fases /\ comando[k[1]] \in Comando
      /\ EloCerto(k) /\ chord[k].etapa # "ausente"
  BY TipoElo DEF ChordInv, ElosCertos, Escrever
<1>2. PICK l \in Ids, f \in Fases :
        l = comando[k[1]].linhagem /\ f = k[2] /\ l \in Comecadas
  BY <1>1 DEF EloCerto, Comecadas, LinhagemIniciada, Comando
<1>3. /\ escrito' = escrito \cup {<<l, f, c>>}
      /\ UNCHANGED <<comando, situacao>>
  BY <1>2 DEF Escrever, Fase
<1>4. LinhagemIniciada' /\ UNCHANGED <<PedidoDe, EscopoDe, Concluidas>>
  BY <1>3, ComandoIgual DEF Concluidas
<1> DEFINE rs == IF FaseEscrita(l, f)' THEN {l} ELSE {}
<1>5. rs \in SUBSET Pedido!Iniciadas
  <2>1. PedidoDe[l] # 0
    <3>1. comando[l].linhagem \in Ids
      BY <1>2 DEF ChordInv, TypeOK, Comando
    <3>2. QED
      BY <1>2, <3>1 DEF PedidoDe, Ids
  <2>2. QED
    BY <1>2, <2>1 DEF Pedido!Iniciadas
<1>6. FeitasPara' = [r \in Ids |-> IF r \in rs THEN FeitasPara[r] \cup {f}
                                             ELSE FeitasPara[r]]
  <2>1. ASSUME NEW r \in Ids
        PROVE  {g \in Fases : FaseEscrita(r, g)'} =
                 IF r \in rs THEN {g \in Fases : FaseEscrita(r, g)} \cup {f}
                 ELSE {g \in Fases : FaseEscrita(r, g)}
    <3>1. \A g \in Fases : FaseEscrita(r, g) => FaseEscrita(r, g)'
      BY <1>3 DEF FaseEscrita
    <3>2. \A g \in Fases : FaseEscrita(r, g)' /\ ~(r = l /\ g = f)
                             => FaseEscrita(r, g)
      BY <1>3 DEF FaseEscrita
    <3>3. CASE FaseEscrita(l, f)'
      <4>1. \A g \in Fases :
              FaseEscrita(r, g)' <=> FaseEscrita(r, g) \/ (r = l /\ g = f)
        BY <3>1, <3>2, <3>3
      <4>2. r \in rs <=> r = l
        BY <3>3
      <4>3. QED
        BY <1>1, <4>1, <4>2
    <3>4. CASE ~FaseEscrita(l, f)'
      <4>1. \A g \in Fases : FaseEscrita(r, g)' <=> FaseEscrita(r, g)
        BY <3>1, <3>2, <3>4
      <4>2. rs = {}
        BY <3>4
      <4>3. QED
        BY <4>1, <4>2
    <3>5. QED BY <3>3, <3>4
  <2>2. QED
    BY <2>1 DEF FeitasPara
<1> HIDE DEF rs
<1>7. Pedido!Fazer(f)
  BY <1>4, <1>5, <1>6 DEF Pedido!Fazer
<1>8. QED
  BY <1>1, <1>4, <1>7 DEF Pedido!Next

(* The last callback reports an execution with every phase written.           *)
LEMMA FinalizarPedido ==
  ASSUME ChordInv, ChordInv', LinhagemIniciada, NEW k \in Elos, Finalizar(k)
  PROVE  LinhagemIniciada' /\ Pedido!Next
<1> DEFINE e == k[1]
<1>1. /\ e \in Ids /\ EloCerto(k) /\ chord[k].etapa = "gravado"
  BY TipoElo DEF ChordInv, ElosCertos, Finalizar
<1>2. e \in Comecadas
  BY <1>1 DEF EloCerto, Comecadas
<1>3. /\ situacao' = [situacao EXCEPT ![e] = "concluido"]
      /\ UNCHANGED <<comando, escrito>>
  BY DEF Finalizar
<1> HIDE DEF e
<1>4. Concluidas' = Concluidas \cup {e}
  BY <1>1, <1>3 DEF Concluidas, ChordInv, TypeOK
<1>5. /\ LinhagemIniciada'
      /\ UNCHANGED <<PedidoDe, EscopoDe, FeitasPara>>
  BY <1>3, ComandoIgual, EscritoIgual
<1>6. comando[e].linhagem \in Ids
  BY <1>1 DEF ChordInv, TypeOK, Comando
<1>7. PedidoDe[e] = comando[e].linhagem /\ EscopoDe[e] = Fases
  BY <1>1, <1>2 DEF PedidoDe, EscopoDe
<1>8. \A f \in Fases : FaseEscrita(comando[e].linhagem, f)
  <2>1. situacao'[e] = "concluido"
    BY <1>1, <1>3 DEF ChordInv, TypeOK
  <2>2. QED
    BY <1>1, <1>3, <2>1 DEF ChordInv, ConcluidoCompleto, FaseEscrita
<1>9. Pedido!Concluir(e)
  <2>1. e \in Pedido!Iniciadas
    BY <1>1, <1>6, <1>7 DEF Pedido!Iniciadas, Ids
  <2>2. EscopoDe[e] \subseteq FeitasPara[PedidoDe[e]]
    BY <1>6, <1>7, <1>8 DEF FeitasPara
  <2>3. QED
    BY <1>4, <1>5, <2>1, <2>2 DEF Pedido!Concluir
<1>10. QED
  BY <1>1, <1>5, <1>9 DEF Pedido!Next

(* The other steps of commands and chords, and the clean-up, show nothing.    *)
LEMMA RestoPedido ==
  ASSUME ChordInv, LinhagemIniciada,
         \/ \E e \in Ids : PassoComando(e) \/ FalharLancamento(e) \/ LimparOrfa(e)
         \/ \E k \in Elos : \/ GravarCheckpoint(k) \/ LancarSeguinte(k)
                            \/ FalharCallback(k) \/ Duplicar(k)
                            \/ \E c \in Chunks : \/ Terminar(k, c)
                                                 \/ FalharChunk(k, c)
                                                 \/ PerderWorker(k, c)
         \/ UNCHANGED vars
  PROVE  LinhagemIniciada' /\ Pedido!Next
<1>1. UNCHANGED FeitasPara
  <2>1. UNCHANGED escrito
    BY DEF PassoComando, Registrar, Lancar, FalharLancamento, LimparOrfa,
       GravarCheckpoint, LancarSeguinte, FalharCallback, Duplicar, Terminar,
       FalharChunk, PerderWorker, vars
  <2>2. QED BY <2>1, EscritoIgual
<1>2. LinhagemIniciada' /\ UNCHANGED <<PedidoDe, EscopoDe>>
  <2>1. CASE UNCHANGED comando
    BY <2>1, ComandoIgual
  <2>2. ASSUME NEW e \in Ids, PassoComando(e) \/ FalharLancamento(e)
        PROVE  LinhagemIniciada' /\ UNCHANGED <<PedidoDe, EscopoDe>>
    <3>1. \E x \in {"lancando", "lancado", "falhou"} :
            comando' = [comando EXCEPT ![e].etapa = x]
      BY <2>2 DEF PassoComando, Registrar, Lancar, FalharLancamento
    <3>2. comando \in [Ids -> Comando] /\ comando[e].etapa # "ausente"
      BY <2>2 DEF PassoComando, Registrar, Lancar, FalharLancamento, ChordInv,
         TypeOK
    <3>3. QED BY <3>1, <3>2, ComandoMostra
  <2>3. QED
    BY <2>1, <2>2 DEF LimparOrfa, GravarCheckpoint, LancarSeguinte,
       FalharCallback, Duplicar, Terminar, FalharChunk, PerderWorker, vars
<1>3. Concluidas' \in SUBSET Concluidas
  <2>1. \A e \in Ids : situacao'[e] = "concluido" => situacao[e] = "concluido"
    BY DEF PassoComando, Registrar, Lancar, FalharLancamento, LimparOrfa,
       GravarCheckpoint, LancarSeguinte, FalharCallback, Duplicar, Terminar,
       FalharChunk, PerderWorker, vars, ChordInv, TypeOK
  <2>2. QED BY <2>1 DEF Concluidas
<1>4. QED
  BY <1>1, <1>2, <1>3 DEF Pedido!Next, Pedido!Sobrescrever

(* Every step of a chain is a step of a request. *)
LEMMA NextPedido ==
  ChordInv /\ ChordInv' /\ LinhagemIniciada /\ [Next]_vars
    => LinhagemIniciada' /\ Pedido!Next
BY IniciarPedido, EscreverPedido, FinalizarPedido, RestoPedido
DEF Next, PassoChunk, PassoCallback

(* A chain of chords implements the requests that the execution control       *)
(* implements: whatever fails, dies, comes twice or runs at once, an          *)
(* execution is reported concluded with every phase of its request written.   *)
THEOREM PedidoDoChord == Spec => ImplementaPedido
<1>1. Init => Pedido!Init
  <2> SUFFICES ASSUME Init PROVE Pedido!Init
    OBVIOUS
  <2>1. Comecadas = {} /\ Concluidas = {}
    BY DEF Init, Comecadas, Concluidas
  <2>2. PedidoDe = [e \in Ids |-> 0] /\ EscopoDe = [e \in Ids |-> {}]
    BY <2>1 DEF PedidoDe, EscopoDe
  <2>3. FeitasPara = [r \in Ids |-> SemChunks]
    BY DEF Init, FeitasPara, FaseEscrita, SemChunks
  <2>4. QED
    BY <2>1, <2>2, <2>3 DEF Pedido!Init
<1>2. Init => LinhagemIniciada
  BY DEF Init, LinhagemIniciada, Comecadas
<1>3. QED
  BY <1>1, <1>2, NextPedido, InvarianteDoChord, PTL
  DEF Spec, ImplementaPedido, Pedido!Spec
===============================================================================
