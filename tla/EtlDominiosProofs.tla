--------------------------- MODULE EtlDominiosProofs ---------------------------
(***************************************************************************)
(* Proofs, for any set of domains, any filters of years and any number of  *)
(* changes of the source and of interrupted runs, that the tables of a     *)
(* domain hold no duplicate, that no hash outlives its row, that a run     *)
(* keeps what its phases loaded, and that a table loses rows only in its   *)
(* own phase.                                                              *)
(***************************************************************************)
EXTENDS EtlDominiosProps, TLAPS

(* Tables that others refer to with a constraint of the database. *)
Referidas == {"dre", "tipo_escola", "sub_prefeitura", "aluno",
              "tipo_necessidade_especial"}

(* What every phase of the catalogue has in common: a table loaded anew is    *)
(* emptied first, and is one that no other refers to.                         *)
FaseCerta(f) ==
  /\ f.regra \in DOMAIN Padrao
  /\ f.modo \in {"upsert", "full_refresh", "substitui"}
  /\ f.chave \in {"unica", "nulos", "nenhuma"}
  /\ f.chave = "nenhuma" => f.modo = "full_refresh"
  /\ f.modo = "full_refresh" => f.trunca /\ f.tabela \notin Referidas
  /\ f.refs \subseteq Referidas

(* The regras of the queries. *)
LEMMA Regras ==
  /\ DOMAIN Padrao = {"tudo", "anos", "corrente", "anterior", "so_corrente"}
  /\ \A regra \in DOMAIN Padrao : Padrao[regra] \subseteq Anos
BY DEF Padrao, Anos

(* The phases of each domain. *)
LEMMA CatalogoInstitucional ==
  /\ DOMAIN FasesInstitucional = 1..5 /\ Len(FasesInstitucional) = 5
  /\ \A i \in 1..5 : FaseCerta(FasesInstitucional[i])
<1> USE Regras DEF FaseCerta, Referidas, Fase, Modelo
<1>1. FaseCerta(FaseDre)
  BY DEF FaseDre, SqlDre, DREIn, DRE
<1>2. FaseCerta(FaseTipoEscola)
  BY DEF FaseTipoEscola, SqlTipoEscola, TipoEscolaIn, TipoEscola
<1>3. FaseCerta(FaseSubPrefeitura)
  BY DEF FaseSubPrefeitura, SqlSubPrefeitura, SubprefeituraIn, SubPrefeitura
<1>4. FaseCerta(FaseUnidadeEducacional)
  BY DEF FaseUnidadeEducacional, SqlUnidadeEducacional, UnidadeEducacionalIn,
     UnidadeEducacional
<1>5. FaseCerta(FaseDreAbrangencia)
  BY DEF FaseDreAbrangencia, SqlDreAbrangencia, DREAbrangenciaIn, DREAbrangencia
<1>6. QED
  BY <1>1, <1>2, <1>3, <1>4, <1>5 DEF FasesInstitucional

LEMMA CatalogoAlunos ==
  /\ DOMAIN FasesAlunos = 1..11 /\ Len(FasesAlunos) = 11
  /\ \A i \in 1..11 : FaseCerta(FasesAlunos[i])
<1> USE Regras DEF FaseCerta, Referidas, Fase, Modelo
<1>1. FaseCerta(FaseTipoNee)
  BY DEF FaseTipoNee, SqlTipoNee, TipoNecessidadeEspecialIn,
     TipoNecessidadeEspecial
<1>2. FaseCerta(FaseAluno)
  BY DEF FaseAluno, SqlAluno, AlunoIn, Aluno
<1>3. FaseCerta(FaseResponsavel)
  BY DEF FaseResponsavel, SqlResponsavel, ResponsavelAlunoIn, ResponsavelAluno
<1>4. FaseCerta(FaseNeeAluno)
  BY DEF FaseNeeAluno, SqlNeeAluno, NecessidadeEspecialAlunoIn,
     NecessidadeEspecialAluno
<1>5. FaseCerta(FaseMatricula)
  BY DEF FaseMatricula, SqlMatricula, MatriculaIn, Matricula
<1>6. FaseCerta(FaseMatriculaTurma)
  BY DEF FaseMatriculaTurma, SqlMatriculaTurma, MatriculaTurmaIn, MatriculaTurma
<1>7. FaseCerta(FaseMatriculaAnoLetivo)
  BY DEF FaseMatriculaAnoLetivo, SqlMatriculaAnoLetivo, MatriculaAnoLetivoIn,
     MatriculaAnoLetivo
<1>8. FaseCerta(FaseMatriculaComponente)
  BY DEF FaseMatriculaComponente, SqlMatriculaComponente,
     MatriculaComponenteCurricularAnoLetivoIn,
     MatriculaComponenteCurricularAnoLetivo
<1>9. FaseCerta(FaseDadosAcompanhamento)
  BY DEF FaseDadosAcompanhamento, SqlDadosAcompanhamento,
     DadosAlunoAcompanhamentoEscolarIn, DadosAlunoAcompanhamentoEscolar
<1>10. FaseCerta(FaseResponsavelTurma)
  BY DEF FaseResponsavelTurma, SqlResponsavelTurma, ResponsavelAlunoTurmaIn,
     ResponsavelAlunoTurma
<1>11. FaseCerta(FaseMatriculaAnoAnterior)
  BY DEF FaseMatriculaAnoAnterior, SqlMatriculaAnoAnterior,
     MatriculaAnoAnteriorIn, MatriculaAnoAnterior
<1>12. QED
  BY <1>1, <1>2, <1>3, <1>4, <1>5, <1>6, <1>7, <1>8, <1>9, <1>10,
     <1>11 DEF FasesAlunos

LEMMA CatalogoPedagogico ==
  /\ DOMAIN FasesPedagogico = 1..15 /\ Len(FasesPedagogico) = 15
  /\ \A i \in 1..15 : FaseCerta(FasesPedagogico[i])
<1> USE Regras DEF FaseCerta, Referidas, Fase, Modelo
<1>1. FaseCerta(FaseComponenteCurricular)
  BY DEF FaseComponenteCurricular, SqlComponenteCurricular,
     ComponenteCurricularSimplesIn, ComponenteCurricular
<1>2. FaseCerta(FaseComponenteTurma)
  BY DEF FaseComponenteTurma, SqlComponenteTurma, ComponenteTurmaIn,
     ComponenteTurma
<1>3. FaseCerta(FaseAtribuicaoComponente)
  BY DEF FaseAtribuicaoComponente, SqlAtribuicaoComponente,
     AtribuicaoComponenteIn, AtribuicaoComponente
<1>4. FaseCerta(FaseAtribuicaoTerritorio)
  BY DEF FaseAtribuicaoTerritorio, SqlAtribuicaoTerritorio,
     AtribuicaoTerritorioSaberIn, AtribuicaoTerritorioSaber
<1>5. FaseCerta(FaseComponenteApiEol)
  BY DEF FaseComponenteApiEol, SqlComponenteApiEol, ApiEolComponenteCurricularIn,
     ComponenteCurricularApiEol
<1>6. FaseCerta(FaseHierarquia)
  BY DEF FaseHierarquia, SqlHierarquia, ApiEolComponenteCurricularHierarquiaIn,
     ComponenteCurricularHierarquia
<1>7. FaseCerta(FasePap)
  BY DEF FasePap, SqlPap, ApiEolComponenteCurricularPAPIn,
     ComponenteCurricularPAP
<1>8. FaseCerta(FasePlanejamentoRegencia)
  BY DEF FasePlanejamentoRegencia, SqlPlanejamentoRegencia,
     ApiEolComponenteCurricularPlanejamentoRegenciaIn,
     ComponenteCurricularPlanejamentoRegencia
<1>9. FaseCerta(FaseItinerario)
  BY DEF FaseItinerario, SqlItinerario, ApiEolTurmaItinerarioEnsinoMedioIn,
     TurmaItinerarioEnsinoMedio
<1>10. FaseCerta(FaseAgrupamento)
  BY DEF FaseAgrupamento, SqlAgrupamento,
     ApiEolAgrupamentoAtribuicaoTerritorioSaberIn,
     AgrupamentoAtribuicaoTerritorioSaber
<1>11. FaseCerta(FaseGrade)
  BY DEF FaseGrade, SqlGrade, GradeComponenteCurricularIn,
     GradeComponenteCurricular
<1>12. FaseCerta(FaseTurma)
  BY DEF FaseTurma, SqlTurma, TurmaIn, Turma
<1>13. FaseCerta(FaseTurmaAtribuida)
  BY DEF FaseTurmaAtribuida, SqlTurmaAtribuida, TurmaAtribuidaDreUeIn,
     TurmaAtribuidaDreUe
<1>14. FaseCerta(FaseEtapaEnsino)
  BY DEF FaseEtapaEnsino, SqlEtapaEnsino, EtapaEnsinoIn, EtapaEnsino
<1>15. FaseCerta(FaseCicloEnsino)
  BY DEF FaseCicloEnsino, SqlCicloEnsino, CicloEnsinoIn, CicloEnsino
<1>16. QED
  BY <1>1, <1>2, <1>3, <1>4, <1>5, <1>6, <1>7, <1>8, <1>9, <1>10,
     <1>11, <1>12, <1>13, <1>14, <1>15 DEF FasesPedagogico

LEMMA CatalogoProgramas ==
  /\ DOMAIN FasesProgramas = 1..8 /\ Len(FasesProgramas) = 8
  /\ \A i \in 1..8 : FaseCerta(FasesProgramas[i])
<1> USE Regras DEF FaseCerta, Referidas, Fase, Modelo
<1>1. FaseCerta(FaseTipoPrograma)
  BY DEF FaseTipoPrograma, SqlTipoPrograma, TipoProgramaIn, TipoPrograma
<1>2. FaseCerta(FaseComponentePrograma)
  BY DEF FaseComponentePrograma, SqlComponentePrograma,
     ComponenteCurricularProgramaIn, ComponenteCurricularPrograma
<1>3. FaseCerta(FaseTurmaPrograma)
  BY DEF FaseTurmaPrograma, SqlTurmaPrograma, TurmaProgramaIn, TurmaPrograma
<1>4. FaseCerta(FaseTurmaProgramaComponente)
  BY DEF FaseTurmaProgramaComponente, SqlTurmaProgramaComponente,
     TurmaProgramaComponenteCurricularIn, TurmaProgramaComponenteCurricular
<1>5. FaseCerta(FaseMatriculaPrograma)
  BY DEF FaseMatriculaPrograma, SqlMatriculaPrograma, MatriculaTurmaProgramaIn,
     MatriculaTurmaPrograma
<1>6. FaseCerta(FaseMatriculaHistorico)
  BY DEF FaseMatriculaHistorico, SqlMatriculaHistorico, MatriculaTurmaProgramaIn,
     MatriculaTurmaProgramaHistorico
<1>7. FaseCerta(FaseAlunoPap)
  BY DEF FaseAlunoPap, SqlAlunoPap, AlunoPapAnoLetivoIn, AlunoPapAnoLetivo
<1>8. FaseCerta(FaseAlunoPapHistorico)
  BY DEF FaseAlunoPapHistorico, SqlAlunoPapHistorico, AlunoPapAnoLetivoIn,
     AlunoPapAnoLetivoHistorico
<1>9. QED
  BY <1>1, <1>2, <1>3, <1>4, <1>5, <1>6, <1>7, <1>8 DEF FasesProgramas

(* Phases are numbered from 1, and every one is as FaseCerta says.            *)
LEMMA FasesDoDominio ==
  ASSUME NEW d \in DOMAIN FasesDe
  PROVE  /\ Len(FasesDe[d]) \in 5..15
         /\ DOMAIN FasesDe[d] = 1..Len(FasesDe[d])
         /\ \A i \in DOMAIN FasesDe[d] : FaseCerta(FasesDe[d][i])
<1>1. d \in {"institucional", "alunos", "pedagogico", "programas"}
  BY DEF FasesDe
<1>2. /\ FasesDe["institucional"] = FasesInstitucional
      /\ FasesDe["alunos"] = FasesAlunos
      /\ FasesDe["pedagogico"] = FasesPedagogico
      /\ FasesDe["programas"] = FasesProgramas
  BY DEF FasesDe
<1>3. QED
  BY <1>1, <1>2, CatalogoInstitucional, CatalogoAlunos, CatalogoPedagogico,
     CatalogoProgramas

(* The phases of the domain under way, and the same after a step.             *)
LEMMA Catalogada ==
  ASSUME TypeOK
  PROVE  /\ Len(Fases) \in 5..15 /\ DOMAIN Fases = 1..Len(Fases)
         /\ \A i \in DOMAIN Fases : FaseCerta(Fases[i])
BY FasesDoDominio, DominiosAssumption DEF TypeOK, Fases

LEMMA MesmasFases ==
  ASSUME UNCHANGED dominio
  PROVE  Fases' = Fases /\ (exec'.fase = exec.fase => F' = F)
BY DEF Fases, F

(* What the variables of an execution hold.                                   *)
LEMMA TipoDeExec ==
  ASSUME NEW e \in Execucao
  PROVE  /\ e.etapa \in Etapas /\ e.fase \in 0..16 /\ e.inicio \in 0..15
         /\ e.anos \in SUBSET Anos /\ e.restam \in SUBSET Anos
         /\ e.lote \in SUBSET Anos /\ e.lidas \in [Anos -> Nat]
         /\ e.aqueceu \in BOOLEAN /\ e.desde \in [Anos -> Nat]
BY DEF Execucao

LEMMA ParadoTipo == Parado \in Execucao
BY DEF Parado, Execucao, Etapas, Nenhuma, Nada

LEMMA LidosTipo ==
  ASSUME NEW regra \in DOMAIN Padrao, NEW anos \in SUBSET Anos
  PROVE  Lidos(regra, anos) \in SUBSET Anos
BY Regras DEF Lidos

LEMMA LidosDasFases ==
  ASSUME TypeOK
  PROVE  \A i \in DOMAIN Fases : Lidos(Fases[i].regra, exec.anos) \subseteq Anos
<1>1. exec.anos \in SUBSET Anos
  BY TipoDeExec DEF TypeOK
<1>2. QED
  BY <1>1, Catalogada, LidosTipo DEF FaseCerta

(* A run that is in a phase is in one of the catalogue.                       *)
LEMMA NaFase ==
  ASSUME TypeOK, exec.etapa \in {"aquecendo", "fase", "lendo", "gravado"}
  PROVE  /\ exec \in Execucao /\ exec.fase \in DOMAIN Fases /\ exec.fase \in 1..15
         /\ F = Fases[exec.fase] /\ FaseCerta(F)
         /\ Lidos(F.regra, exec.anos) \in SUBSET Anos
<1>1. exec \in Execucao /\ exec.fase \in DOMAIN Fases /\ F = Fases[exec.fase]
  BY DEF TypeOK, F
<1>2. FaseCerta(F) /\ exec.fase \in 1..15
  BY <1>1, Catalogada
<1>3. Lidos(F.regra, exec.anos) \in SUBSET Anos
  BY <1>1, <1>2, TipoDeExec, LidosTipo DEF FaseCerta
<1>4. QED
  BY <1>1, <1>2, <1>3

(* The version a phase has in hand is none or one the source has had.         *)
LEMMA VersaoTipo ==
  ASSUME TypeOK, VersoesCertas, NEW a \in Anos
  PROVE  Versao(a) \in Nat /\ Versao(a) <= origem[a].versao
<1>1. exec.lidas[a] \in Nat /\ origem[a].versao \in Nat
  BY TipoDeExec DEF TypeOK
<1>2. QED
  BY <1>1 DEF Versao, VersoesCertas, Nada

-------------------------------------------------------------------------------
(* The invariant holds at the start. *)
LEMMA InitDInv == Init => DInv
<1> SUFFICES ASSUME Init
             PROVE  DInv
  OBVIOUS
<1>1. PICK aberto \in BOOLEAN :
        origem = [a \in Anos |-> [existe |-> a = "anterior" \/ aberto,
                                  versao |-> 1]]
  BY DEF Init
<1>2. /\ linhas = [i \in DOMAIN Fases |-> [a \in Anos |-> SemLinha]]
      /\ hashes = [i \in DOMAIN Fases |-> [a \in Anos |-> 0]]
      /\ exec = Parado /\ exec.etapa = "parado"
      /\ exec.lidas = [a \in Anos |-> 0] /\ exec.desde = [a \in Anos |-> 0]
  BY DEF Init, Parado, Nenhuma, Nada
<1>3. origem \in [Anos -> [existe : BOOLEAN, versao : Nat]]
  BY <1>1
<1>4. SemLinha \in Linha /\ SemLinha.copias = 0 /\ SemLinha.versao = 0
  BY DEF SemLinha, Linha, Nada
<1>5. TypeOK
  <2>1. sso \in [codigo : Nat, cache : Nat, expira : BOOLEAN, ues : [Anos -> Nat]]
    BY DEF Init, Nenhuma, Nada
  <2>2. usos \in [{"mudancas", "imprevistos"} -> Nat]
    BY DEF Init
  <2>3. dominio \in Dominios /\ parada = 0
    BY DEF Init
  <2>4. QED
    BY <1>2, <1>3, <1>4, <2>1, <2>2, <2>3, ParadoTipo DEF TypeOK
<1>6. VersoesCertas
  <2>1. \A a \in Anos : /\ origem[a].versao = 1 /\ exec.lidas[a] = 0
                        /\ exec.desde[a] = 0
    BY <1>1, <1>2
  <2>2. \A i \in DOMAIN Fases : \A a \in Anos : linhas[i][a].versao = 0
    BY <1>2, <1>4
  <2> SUFFICES ASSUME NEW a \in Anos
               PROVE  /\ origem[a].versao > 0
                      /\ \A i \in DOMAIN Fases : linhas[i][a].versao <= origem[a].versao
                      /\ exec.lidas[a] <= origem[a].versao
                      /\ exec.desde[a] = Nada
    BY DEF VersoesCertas
  <2>3. QED
    BY <2>1, <2>2 DEF Nada
<1>7. SemDuplicata /\ HashesCertos
  BY <1>2, <1>4 DEF SemDuplicata, HashesCertos, HashComLinha, Nada
<1>8. QED
  BY <1>2, <1>5, <1>6, <1>7 DEF DInv, CargaCerta, FasesCumpridas

(* A run that stops or ends leaves the tables as they are.                    *)
LEMMA ParadoPreserva ==
  ASSUME DInv, TypeOK', exec' = Parado,
         UNCHANGED <<dominio, origem, linhas, hashes>>
  PROVE  DInv'
<1>1. /\ exec'.etapa = "parado" /\ exec'.lidas = [a \in Anos |-> 0]
      /\ exec'.desde = [a \in Anos |-> 0]
  BY DEF Parado, Nenhuma, Nada
<1>2. VersoesCertas'
  <2>1. \A a \in Anos : 0 <= origem[a].versao
    BY DEF DInv, TypeOK
  <2>2. QED
    BY <1>1, <2>1, MesmasFases DEF DInv, VersoesCertas, Nada
<1>3. SemDuplicata' /\ HashComLinha' /\ HashesCertos'
  BY <1>1, MesmasFases DEF DInv, SemDuplicata, HashesCertos, HashComLinha
<1>4. QED
  BY <1>1, <1>2, <1>3 DEF DInv, CargaCerta, FasesCumpridas

(* A step that touches neither the tables nor what the run has loaded.        *)
LEMMA MesmaCargaPreserva ==
  ASSUME DInv, TypeOK', UNCHANGED <<dominio, origem, linhas, hashes>>,
         \/ exec' = exec
         \/ exec'.etapa = "fase" /\ exec.etapa # "parado",
         exec'.fase = exec.fase, exec'.inicio = exec.inicio,
         exec'.anos = exec.anos, exec'.restam = exec.restam,
         exec'.lote = exec.lote, exec'.lidas = exec.lidas,
         exec'.desde = exec.desde
  PROVE  DInv'
<1>1. Fases' = Fases /\ F' = F
  BY MesmasFases
<1>2. VersoesCertas' /\ SemDuplicata'
  BY <1>1 DEF DInv, VersoesCertas, SemDuplicata
<1>3. HashesCertos'
  BY <1>1 DEF DInv, HashesCertos, HashComLinha
<1>4. CargaCerta'
  BY <1>1 DEF DInv, CargaCerta, Cumprida
<1>5. FasesCumpridas'
  BY <1>1 DEF DInv, FasesCumpridas
<1>6. QED
  BY <1>2, <1>3, <1>4, <1>5 DEF DInv

-------------------------------------------------------------------------------
(* The source only gets newer; a cohort that goes is owed no more.            *)
LEMMA MudarOrigemPreserva ==
  ASSUME DInv, NEW a \in Anos, NEW existe \in BOOLEAN, MudarOrigem(a, existe)
  PROVE  DInv'
<1>1. /\ UNCHANGED <<dominio, linhas, hashes, sso, parada>>
      /\ origem' = [origem EXCEPT ![a] = [existe |-> existe,
                                          versao |-> origem[a].versao + 1]]
      /\ exec' = IF existe THEN exec ELSE [exec EXCEPT !.desde[a] = Nada]
  BY DEF MudarOrigem
<1>2. /\ exec \in Execucao /\ exec.desde \in [Anos -> Nat]
      /\ origem \in [Anos -> [existe : BOOLEAN, versao : Nat]]
  BY TipoDeExec DEF DInv, TypeOK
<1>3. origem' \in [Anos -> [existe : BOOLEAN, versao : Nat]]
  BY <1>1, <1>2
<1>4. \A b \in Anos : /\ origem[b].versao \in Nat /\ origem'[b].versao \in Nat
                      /\ origem[b].versao <= origem'[b].versao
  BY <1>1, <1>2
<1>5. /\ exec'.etapa = exec.etapa /\ exec'.fase = exec.fase
      /\ exec'.inicio = exec.inicio /\ exec'.anos = exec.anos
      /\ exec'.restam = exec.restam /\ exec'.lote = exec.lote
      /\ exec'.lidas = exec.lidas
  BY <1>1, <1>2 DEF Execucao
<1>6. exec' \in Execucao
  <2>1. [exec.desde EXCEPT ![a] = Nada] \in [Anos -> Nat]
    BY <1>2 DEF Nada
  <2>2. [exec EXCEPT !.desde = [exec.desde EXCEPT ![a] = Nada]] \in Execucao
    BY <1>2, <2>1 DEF Execucao
  <2>3. QED
    BY <1>1, <1>2, <2>2
<1>7. \A b \in Anos : exec'.desde[b] # Nada =>
        exec'.desde[b] = exec.desde[b] /\ (origem[b].existe => origem'[b].existe)
  BY <1>1, <1>2 DEF Execucao
<1>8. Fases' = Fases /\ F' = F
  BY <1>1, <1>5, MesmasFases
<1>9. TypeOK'
  <2>1. usos' \in [{"mudancas", "imprevistos"} -> Nat]
    BY DEF DInv, TypeOK, MudarOrigem, Gastar
  <2>2. QED
    BY <1>1, <1>3, <1>5, <1>6, <1>8, <2>1 DEF DInv, TypeOK
<1>10. VersoesCertas'
  <2>1. \A b \in Anos : /\ exec.lidas[b] \in Nat
                        /\ \A i \in DOMAIN Fases : linhas[i][b].versao \in Nat
    BY <1>2, TipoDeExec DEF DInv, TypeOK, Linha
  <2>2. \A b \in Anos : exec.desde[b] \in Nat
    BY <1>2
  <2>3. QED
    BY <1>1, <1>4, <1>5, <1>7, <1>8, <2>1, <2>2 DEF DInv, VersoesCertas
<1>11. SemDuplicata' /\ HashesCertos'
  BY <1>1, <1>5, <1>8 DEF DInv, SemDuplicata, HashesCertos, HashComLinha
<1>12. CargaCerta'
  <2>1. \A i \in DOMAIN Fases : \A b \in Anos : Cumprida(i, b) => Cumprida(i, b)'
    BY <1>1, <1>7 DEF Cumprida
  <2>2. \A b \in Anos : /\ exec.lidas[b] \in Nat /\ exec'.desde[b] \in Nat
                        /\ exec'.desde[b] \in {0, exec.desde[b]}
    BY <1>2, <1>6, <1>7, TipoDeExec DEF Nada
  <2>3. QED
    BY <1>1, <1>5, <1>8, <2>1, <2>2, NaFase DEF DInv, CargaCerta
<1>13. FasesCumpridas'
  BY <1>1, <1>5, <1>7, <1>8 DEF DInv, FasesCumpridas
<1>14. QED
  BY <1>9, <1>10, <1>11, <1>12, <1>13 DEF DInv

(* A run starts with nothing loaded and owes what is there now.               *)
LEMMA IniciarPreserva ==
  ASSUME DInv, NEW inicio \in {1, parada} \ {0}, NEW anos \in Filtros[dominio],
         Iniciar(inicio, anos)
  PROVE  DInv'
<1> DEFINE desde == [a \in Anos |-> IF origem[a].existe
                                    THEN origem[a].versao ELSE Nada]
           etapa == IF dominio = "institucional" /\ inicio = 1
                    THEN "aquecendo" ELSE "fase"
<1>1. /\ UNCHANGED <<dominio, origem, linhas, hashes, sso, usos>> /\ parada' = 0
      /\ exec' = [Parado EXCEPT !.etapa = etapa, !.fase = inicio,
                                !.inicio = inicio, !.anos = anos, !.desde = desde]
  BY DEF Iniciar
<1>2. inicio \in DOMAIN Fases /\ inicio \in 1..15 /\ anos \in SUBSET Anos
  <2>1. 1 \in DOMAIN Fases /\ inicio \in DOMAIN Fases
    BY Catalogada DEF DInv, TypeOK
  <2>2. anos \in SUBSET Anos
    BY DominiosAssumption DEF DInv, TypeOK
  <2>3. QED
    BY <2>1, <2>2, Catalogada DEF DInv
<1>3. desde \in [Anos -> Nat]
  BY DEF DInv, TypeOK, Nada
<1>4. etapa \in Etapas /\ etapa \in {"aquecendo", "fase"}
  BY DEF Etapas
<1>5. /\ \A a \in Anos : origem[a].versao \in Nat
      /\ \A a \in Anos : desde[a] # Nada =>
           origem[a].existe /\ desde[a] <= origem[a].versao
  BY DEF DInv, TypeOK
<1> HIDE DEF desde, etapa
<1>6. /\ exec' \in Execucao /\ exec'.etapa = etapa /\ exec'.fase = inicio
      /\ exec'.inicio = inicio /\ exec'.desde = desde
      /\ exec'.lidas = [a \in Anos |-> 0]
  <2>1. [etapa |-> etapa, fase |-> inicio, inicio |-> inicio, anos |-> anos,
         restam |-> {}, lote |-> {}, lidas |-> Nenhuma, aqueceu |-> FALSE,
         desde |-> desde] \in Execucao
    BY <1>2, <1>3, <1>4 DEF Execucao, Nenhuma, Nada
  <2>2. QED
    BY <1>1, <2>1 DEF Parado, Nenhuma, Nada
<1>7. Fases' = Fases
  BY <1>1, MesmasFases
<1>8. TypeOK'
  BY <1>1, <1>2, <1>6, <1>7 DEF DInv, TypeOK
<1>9. VersoesCertas'
  BY <1>1, <1>5, <1>6, <1>7 DEF DInv, VersoesCertas
<1>10. SemDuplicata' /\ HashesCertos'
  BY <1>1, <1>4, <1>6, <1>7 DEF DInv, SemDuplicata, HashesCertos, HashComLinha
<1>11. CargaCerta' /\ FasesCumpridas'
  <2>1. \A i \in DOMAIN Fases : ~(inicio <= i /\ i < inicio)
    BY <1>2, Catalogada DEF DInv
  <2>2. QED
    BY <1>4, <1>6, <1>7, <2>1 DEF CargaCerta, FasesCumpridas
<1>12. QED
  BY <1>8, <1>9, <1>10, <1>11 DEF DInv

-------------------------------------------------------------------------------
(* The tables of the phases before this one stay as they are.                 *)
LEMMA CumpridasFicam ==
  ASSUME DInv, exec.etapa # "parado", UNCHANGED dominio,
         exec'.fase = exec.fase, exec'.inicio = exec.inicio,
         exec'.anos = exec.anos, exec'.desde = exec.desde,
         \A i \in DOMAIN Fases : i < exec.fase =>
           \A a \in Anos : linhas'[i][a] = linhas[i][a]
  PROVE  FasesCumpridas'
BY MesmasFases, LidosDasFases DEF DInv, FasesCumpridas

(* A full refresh empties no table but its own.                               *)
LEMMA CascataPropria ==
  ASSUME TypeOK, exec.etapa = "fase", F.modo = "full_refresh"
  PROVE  Cascata = {exec.fase}
<1>1. F.tabela \notin Referidas
  BY NaFase DEF FaseCerta
<1>2. \A i \in DOMAIN Fases : F.tabela \notin Fases[i].refs
  BY <1>1, Catalogada DEF FaseCerta
<1>3. QED
  BY <1>2 DEF Cascata

(* A table that is emptied has no hashes: nothing promised is lost.           *)
LEMMA EsvaziarPreserva ==
  ASSUME DInv, exec.etapa = "fase", NEW T, NEW A,
         T \subseteq {exec.fase}, T # {} => F.modo # "upsert",
         linhas' = Esvaziar(T, A), UNCHANGED <<dominio, origem, hashes>>
  PROVE  /\ linhas' \in [DOMAIN Fases -> [Anos -> Linha]]
         /\ \A i \in DOMAIN Fases : \A a \in Anos :
              /\ linhas'[i][a] = IF i \in T /\ a \in A THEN SemLinha
                                 ELSE linhas[i][a]
              /\ linhas'[i][a].versao <= origem[a].versao
         /\ SemDuplicata' /\ HashComLinha'
<1>1. SemLinha \in Linha /\ SemLinha.copias = 0 /\ SemLinha.versao = 0
  BY DEF SemLinha, Linha, Nada
<1>2. \A i \in DOMAIN Fases : \A a \in Anos :
        linhas'[i][a] = IF i \in T /\ a \in A THEN SemLinha ELSE linhas[i][a]
  BY DEF Esvaziar
<1>3. linhas' \in [DOMAIN Fases -> [Anos -> Linha]]
  BY <1>1 DEF Esvaziar, DInv, TypeOK
<1>4. Fases' = Fases
  BY MesmasFases
<1>5. \A i \in DOMAIN Fases : \A a \in Anos :
        linhas'[i][a].versao <= origem[a].versao
  <2>1. \A a \in Anos : origem[a].versao \in Nat /\ 0 <= origem[a].versao
    BY DEF DInv, TypeOK
  <2>2. QED
    BY <1>1, <1>2, <2>1 DEF DInv, VersoesCertas
<1>6. SemDuplicata'
  BY <1>1, <1>2, <1>4 DEF DInv, SemDuplicata
<1>7. HashComLinha'
  <2>1. \A i \in T : \A a \in Anos : i \in DOMAIN Fases => hashes[i][a] = Nada
    BY NaFase DEF DInv, HashesCertos
  <2>2. QED
    BY <1>2, <1>4, <2>1 DEF DInv, HashesCertos, HashComLinha
<1>8. QED
  BY <1>2, <1>3, <1>5, <1>6, <1>7

(* The load of a table starts; one loaded anew is empty.                      *)
LEMMA ComecarFasePreserva ==
  ASSUME DInv, ComecarFase
  PROVE  DInv'
<1> DEFINE T == IF F.modo = "full_refresh" /\ F.trunca THEN Cascata ELSE {}
           A == Lidos(F.regra, exec.anos)
<1>1. /\ exec.etapa = "fase" /\ F.modo # "substitui"
      /\ UNCHANGED <<dominio, origem, hashes, parada, usos>>
      /\ linhas' = Esvaziar(T, Anos)
      /\ sso' \in {sso, [sso EXCEPT !.ues = Nenhuma]}
      /\ exec' = [exec EXCEPT !.etapa = "lendo", !.restam = A]
  BY DEF ComecarFase
<1>2. /\ exec \in Execucao /\ exec.fase \in DOMAIN Fases /\ exec.fase \in 1..15
      /\ FaseCerta(F) /\ A \in SUBSET Anos
  BY <1>1, NaFase DEF DInv
<1>3. /\ T \subseteq {exec.fase} /\ (T # {} => F.modo # "upsert")
      /\ F.modo = "full_refresh" => T = {exec.fase}
  BY <1>1, <1>2, CascataPropria DEF DInv, FaseCerta
<1> HIDE DEF T, A
<1>4. /\ exec' \in Execucao /\ exec'.etapa = "lendo" /\ exec'.fase = exec.fase
      /\ exec'.inicio = exec.inicio /\ exec'.anos = exec.anos
      /\ exec'.restam = A /\ exec'.lidas = exec.lidas /\ exec'.desde = exec.desde
  BY <1>1, <1>2 DEF Execucao, Etapas
<1>5. Fases' = Fases /\ F' = F
  BY <1>1, <1>4, MesmasFases
<1>6. /\ linhas' \in [DOMAIN Fases -> [Anos -> Linha]]
      /\ \A i \in DOMAIN Fases : \A a \in Anos :
           /\ linhas'[i][a] = IF i \in T /\ a \in Anos THEN SemLinha
                              ELSE linhas[i][a]
           /\ linhas'[i][a].versao <= origem[a].versao
      /\ SemDuplicata' /\ HashComLinha'
  BY <1>1, <1>3, EsvaziarPreserva
<1>7. TypeOK'
  <2>1. sso' \in [codigo : Nat, cache : Nat, expira : BOOLEAN, ues : [Anos -> Nat]]
    BY <1>1 DEF DInv, TypeOK, Nenhuma, Nada
  <2>2. QED
    BY <1>1, <1>2, <1>4, <1>5, <1>6, <2>1 DEF DInv, TypeOK
<1>8. VersoesCertas'
  BY <1>1, <1>4, <1>5, <1>6 DEF DInv, VersoesCertas
<1>9. HashesCertos'
  BY <1>1, <1>4, <1>5, <1>6 DEF DInv, HashesCertos
<1>10. CargaCerta'
  <2>1. Lidos(F.regra, exec.anos) \ A = {}
    BY DEF A
  <2>2. F.modo = "full_refresh" => \A a \in A : linhas'[exec.fase][a].copias = 0
    BY <1>2, <1>3, <1>6 DEF SemLinha
  <2>3. QED
    BY <1>1, <1>4, <1>5, <2>1, <2>2 DEF CargaCerta
<1>11. FasesCumpridas'
  <2>1. \A i \in DOMAIN Fases : i < exec.fase => i \notin T
    BY <1>2, <1>3, Catalogada DEF DInv
  <2>2. QED
    BY <1>1, <1>4, <1>6, <2>1, CumpridasFicam
<1>12. QED
  BY <1>6, <1>7, <1>8, <1>9, <1>10, <1>11 DEF DInv

(* The years of the table are deleted: what was read of them is in memory.    *)
LEMMA SubstituirPreserva ==
  ASSUME DInv, Substituir
  PROVE  DInv'
<1> DEFINE A == Lidos(F.regra, exec.anos)
           lidas == [a \in Anos |-> IF a \in A /\ origem[a].existe
                                    THEN origem[a].versao ELSE Nada]
<1>1. /\ exec.etapa = "fase" /\ F.modo = "substitui"
      /\ UNCHANGED <<dominio, origem, hashes, sso, parada, usos>>
      /\ linhas' = Esvaziar({exec.fase}, A)
      /\ exec' = [exec EXCEPT !.etapa = "lendo", !.restam = A, !.lidas = lidas]
  BY DEF Substituir
<1>2. /\ exec \in Execucao /\ exec.fase \in DOMAIN Fases /\ exec.fase \in 1..15
      /\ A \in SUBSET Anos
  BY <1>1, NaFase DEF DInv
<1>3. /\ lidas \in [Anos -> Nat]
      /\ \A a \in Anos : lidas[a] <= origem[a].versao
      /\ \A a \in A : lidas[a] >= exec.desde[a]
  <2>1. /\ \A a \in Anos : origem[a].versao \in Nat /\ origem[a].versao >= Nada
        /\ \A a \in Anos : exec.desde[a] \in Nat
    BY <1>2, TipoDeExec DEF DInv, TypeOK, Nada
  <2>2. \A a \in Anos : exec.desde[a] # Nada =>
          origem[a].existe /\ exec.desde[a] <= origem[a].versao
    BY DEF DInv, VersoesCertas
  <2>3. \A a \in Anos : /\ lidas[a] \in Nat /\ lidas[a] <= origem[a].versao
                        /\ a \in A => lidas[a] >= exec.desde[a]
    <3> SUFFICES ASSUME NEW a \in Anos
                 PROVE  /\ lidas[a] \in Nat /\ lidas[a] <= origem[a].versao
                        /\ a \in A => lidas[a] >= exec.desde[a]
      OBVIOUS
    <3>1. CASE a \in A /\ origem[a].existe
      BY <2>1, <2>2, <3>1 DEF Nada
    <3>2. CASE ~(a \in A /\ origem[a].existe)
      BY <2>1, <2>2, <3>2 DEF Nada
    <3>3. QED
      BY <3>1, <3>2
  <2>4. lidas \in [Anos -> Nat]
    BY <2>1 DEF Nada
  <2>5. QED
    BY <1>2, <2>3, <2>4
<1> HIDE DEF A, lidas
<1>4. /\ exec' \in Execucao /\ exec'.etapa = "lendo" /\ exec'.fase = exec.fase
      /\ exec'.inicio = exec.inicio /\ exec'.anos = exec.anos
      /\ exec'.restam = A /\ exec'.lidas = lidas /\ exec'.desde = exec.desde
  BY <1>1, <1>2, <1>3 DEF Execucao, Etapas
<1>5. Fases' = Fases /\ F' = F
  BY <1>1, <1>4, MesmasFases
<1>6. /\ linhas' \in [DOMAIN Fases -> [Anos -> Linha]]
      /\ \A i \in DOMAIN Fases : \A a \in Anos :
           /\ linhas'[i][a] = IF i \in {exec.fase} /\ a \in A THEN SemLinha
                              ELSE linhas[i][a]
           /\ linhas'[i][a].versao <= origem[a].versao
      /\ SemDuplicata' /\ HashComLinha'
  BY <1>1, EsvaziarPreserva
<1>7. TypeOK'
  BY <1>1, <1>2, <1>4, <1>5, <1>6 DEF DInv, TypeOK
<1>8. VersoesCertas'
  BY <1>1, <1>3, <1>4, <1>5, <1>6 DEF DInv, VersoesCertas
<1>9. HashesCertos'
  BY <1>1, <1>4, <1>5, <1>6 DEF DInv, HashesCertos
<1>10. CargaCerta'
  <2>1. Lidos(F.regra, exec.anos) \ A = {}
    BY DEF A
  <2>2. QED
    BY <1>1, <1>3, <1>4, <1>5, <2>1 DEF CargaCerta
<1>11. FasesCumpridas'
  <2>1. \A i \in DOMAIN Fases : i < exec.fase => i # exec.fase
    BY <1>2, Catalogada DEF DInv
  <2>2. QED
    BY <1>1, <1>4, <1>6, <2>1, CumpridasFicam
<1>12. QED
  BY <1>6, <1>7, <1>8, <1>9, <1>10, <1>11 DEF DInv

-------------------------------------------------------------------------------
(* A cohort that is passed over is there already.                             *)
LEMMA IgnoradaCumprida ==
  ASSUME DInv, NEW a \in Anos, Vez(a), ~Pendente(a)
  PROVE  Cumprida(exec.fase, a)
<1>1. /\ exec.etapa = "lendo" /\ a \in exec.restam
      /\ exec.fase \in DOMAIN Fases /\ F = Fases[exec.fase] /\ FaseCerta(F)
  BY NaFase DEF Vez, DInv
<1>2. SUFFICES ASSUME exec.desde[a] # Nada
               PROVE  /\ linhas[exec.fase][a].copias > 0
                      /\ linhas[exec.fase][a].versao >= exec.desde[a]
  BY DEF Cumprida
<1>3. /\ exec.desde[a] \in Nat /\ exec.desde[a] > 0 /\ origem[a].existe
      /\ exec.desde[a] <= origem[a].versao /\ origem[a].versao > 0
      /\ origem[a].versao \in Nat
  BY <1>2, TipoDeExec DEF DInv, TypeOK, VersoesCertas, Nada
<1>4. F.modo = "substitui" => exec.lidas[a] >= exec.desde[a]
  BY <1>1 DEF DInv, CargaCerta
<1>5. Versao(a) # Nada /\ Versao(a) >= exec.desde[a]
  <2>1. exec.lidas[a] \in Nat
    BY TipoDeExec DEF DInv, TypeOK
  <2>2. QED
    BY <1>3, <1>4, <2>1 DEF Versao, Nada
<1>6. ~Regrava /\ hashes[exec.fase][a] = Versao(a)
  BY <1>5 DEF Pendente
<1>7. /\ linhas[exec.fase][a].copias > 0
      /\ linhas[exec.fase][a].versao >= hashes[exec.fase][a]
  BY <1>1, <1>5, <1>6 DEF DInv, HashesCertos, HashComLinha
<1>8. QED
  <2>1. /\ linhas[exec.fase][a].versao \in Nat /\ hashes[exec.fase][a] \in Nat
    BY <1>1 DEF DInv, TypeOK, Linha
  <2>2. QED
    BY <1>3, <1>5, <1>6, <1>7, <2>1

LEMMA IgnorarPreserva ==
  ASSUME DInv, NEW a \in Anos, Ignorar(a)
  PROVE  DInv'
<1>1. /\ Vez(a) /\ ~Pendente(a) /\ exec.etapa = "lendo"
      /\ UNCHANGED <<dominio, origem, linhas, hashes, sso, parada, usos>>
      /\ exec' = [exec EXCEPT !.restam = exec.restam \ {a}]
  BY DEF Ignorar, Vez
<1>2. exec \in Execucao /\ exec.fase \in DOMAIN Fases
  BY <1>1, NaFase DEF DInv
<1>3. /\ exec' \in Execucao /\ exec'.etapa = "lendo" /\ exec'.fase = exec.fase
      /\ exec'.inicio = exec.inicio /\ exec'.anos = exec.anos
      /\ exec'.restam = exec.restam \ {a} /\ exec'.lote = exec.lote
      /\ exec'.lidas = exec.lidas /\ exec'.desde = exec.desde
  BY <1>1, <1>2 DEF Execucao
<1>4. Fases' = Fases /\ F' = F
  BY <1>1, <1>3, MesmasFases
<1>5. TypeOK'
  BY <1>1, <1>2, <1>3, <1>4 DEF DInv, TypeOK
<1>6. VersoesCertas' /\ SemDuplicata'
  BY <1>1, <1>3, <1>4 DEF DInv, VersoesCertas, SemDuplicata
<1>7. HashesCertos'
  BY <1>1, <1>3, <1>4 DEF DInv, HashesCertos, HashComLinha
<1>8. CargaCerta'
  <2>1. Cumprida(exec.fase, a)
    BY <1>1, IgnoradaCumprida
  <2>2. \A b : Cumprida(exec.fase, b)' <=> Cumprida(exec.fase, b)
    BY <1>1, <1>3 DEF Cumprida
  <2>3. QED
    BY <1>1, <1>3, <1>4, <2>1, <2>2 DEF DInv, CargaCerta
<1>9. FasesCumpridas'
  BY <1>1, <1>3, CumpridasFicam
<1>10. QED
  BY <1>5, <1>6, <1>7, <1>8, <1>9 DEF DInv

(* The rows of a cohort that is pending are written once.                     *)
LEMMA EscritaUnica ==
  ASSUME DInv, NEW a \in Anos, Vez(a), ~Recusada(a)
  PROVE  /\ Copias(a) \in 1..2
         /\ F.chave # "nulos" => Copias(a) = 1
<1>1. /\ exec.etapa = "lendo" /\ a \in exec.restam
      /\ exec.fase \in DOMAIN Fases /\ FaseCerta(F)
  BY NaFase DEF Vez, DInv
<1>2. linhas[exec.fase][a].copias \in 0..2
  BY <1>1 DEF DInv, TypeOK, Linha
<1>3. F.chave = "unica" /\ F.modo # "upsert" => linhas[exec.fase][a].copias = 0
  BY <1>2 DEF Recusada
<1>4. F.chave = "nenhuma" => linhas[exec.fase][a].copias = 0
  BY <1>1 DEF FaseCerta, DInv, CargaCerta
<1>5. QED
  BY <1>1, <1>3, <1>4 DEF Copias, FaseCerta

LEMMA EscreverPreserva ==
  ASSUME DInv, NEW a \in Anos, Escrever(a)
  PROVE  DInv'
<1> DEFINE r == [copias |-> Copias(a), versao |-> Versao(a)]
           etapa == IF F.modo = "upsert" THEN "gravado" ELSE "lendo"
           lote == IF F.modo = "upsert" THEN {a} ELSE {}
<1>1. /\ Vez(a) /\ Pendente(a) /\ ~Recusada(a) /\ exec.etapa = "lendo"
      /\ a \in exec.restam
      /\ UNCHANGED <<dominio, origem, hashes, parada, usos>>
      /\ linhas' = [linhas EXCEPT ![exec.fase][a] = r]
      /\ sso' \in {sso, [sso EXCEPT !.ues[a] = sso.cache]}
      /\ exec' = [exec EXCEPT !.restam = exec.restam \ {a}, !.etapa = etapa,
                              !.lote = lote]
  BY DEF Escrever, Vez
<1>2. /\ exec \in Execucao /\ exec.fase \in DOMAIN Fases /\ exec.fase \in 1..15
      /\ F = Fases[exec.fase] /\ FaseCerta(F)
      /\ Lidos(F.regra, exec.anos) \in SUBSET Anos
  BY <1>1, NaFase DEF DInv
<1>3. /\ r \in Linha /\ r.copias \in 1..2
      /\ (F.chave # "nulos" => r.copias = 1)
      /\ r.versao = Versao(a) /\ r.versao <= origem[a].versao /\ r.versao \in Nat
  BY <1>1, EscritaUnica, VersaoTipo DEF DInv, Linha
<1>4. r.versao >= exec.desde[a]
  <2>1. exec.desde[a] \in Nat /\ exec.lidas[a] \in Nat /\ origem[a].versao \in Nat
    BY TipoDeExec DEF DInv, TypeOK
  <2>2. exec.desde[a] # Nada =>
          origem[a].existe /\ exec.desde[a] <= origem[a].versao
    BY DEF DInv, VersoesCertas
  <2>3. F.modo = "substitui" => exec.lidas[a] >= exec.desde[a]
    BY <1>1 DEF DInv, CargaCerta
  <2>4. QED
    BY <1>3, <2>1, <2>2, <2>3 DEF Versao, Nada
<1>5. /\ etapa \in {"lendo", "gravado"} /\ etapa \in Etapas
      /\ etapa = "gravado" => F.modo = "upsert"
      /\ lote \subseteq {a}
  BY DEF Etapas
<1> HIDE DEF r, etapa, lote
<1>6. /\ exec' \in Execucao /\ exec'.etapa = etapa /\ exec'.fase = exec.fase
      /\ exec'.inicio = exec.inicio /\ exec'.anos = exec.anos
      /\ exec'.restam = exec.restam \ {a} /\ exec'.lote = lote
      /\ exec'.lidas = exec.lidas /\ exec'.desde = exec.desde
  BY <1>1, <1>2, <1>5 DEF Execucao
<1>7. Fases' = Fases /\ F' = F
  BY <1>1, <1>6, MesmasFases
<1>8. /\ linhas' \in [DOMAIN Fases -> [Anos -> Linha]]
      /\ linhas'[exec.fase][a] = r
      /\ \A i \in DOMAIN Fases : \A b \in Anos :
           i # exec.fase \/ b # a => linhas'[i][b] = linhas[i][b]
  BY <1>1, <1>2, <1>3 DEF DInv, TypeOK
<1>9. TypeOK'
  <2>1. sso' \in [codigo : Nat, cache : Nat, expira : BOOLEAN, ues : [Anos -> Nat]]
    <3>1. sso \in [codigo : Nat, cache : Nat, expira : BOOLEAN, ues : [Anos -> Nat]]
      BY DEF DInv, TypeOK
    <3>2. [sso.ues EXCEPT ![a] = sso.cache] \in [Anos -> Nat]
      BY <3>1
    <3>3. \A f \in [Anos -> Nat] : [sso EXCEPT !.ues = f] \in
            [codigo : Nat, cache : Nat, expira : BOOLEAN, ues : [Anos -> Nat]]
      BY <3>1
    <3>4. QED
      BY <1>1, <3>1, <3>2, <3>3
  <2>2. QED
    BY <1>1, <1>2, <1>6, <1>7, <1>8, <2>1 DEF DInv, TypeOK
<1>10. VersoesCertas'
  <2>1. \A i \in DOMAIN Fases : \A b \in Anos :
          linhas'[i][b].versao <= origem[b].versao
    BY <1>2, <1>3, <1>8 DEF DInv, VersoesCertas
  <2>2. QED
    BY <1>1, <1>6, <1>7, <2>1 DEF DInv, VersoesCertas
<1>11. SemDuplicata'
  BY <1>2, <1>3, <1>7, <1>8 DEF DInv, SemDuplicata
<1>12. HashesCertos'
  <2>1. hashes[exec.fase][a] # Nada => r.versao >= hashes[exec.fase][a]
    <3>1. SUFFICES ASSUME hashes[exec.fase][a] # Nada
                   PROVE  r.versao >= hashes[exec.fase][a]
      OBVIOUS
    <3>2. F.modo = "upsert" /\ linhas[exec.fase][a].versao >= hashes[exec.fase][a]
      BY <1>2, <3>1 DEF DInv, HashesCertos, HashComLinha
    <3>3. linhas[exec.fase][a].versao <= origem[a].versao
      BY <1>2 DEF DInv, VersoesCertas
    <3>4. r.versao = origem[a].versao
      BY <1>1, <1>3, <3>2 DEF Versao, Pendente
    <3>5. /\ linhas[exec.fase][a].versao \in Nat /\ hashes[exec.fase][a] \in Nat
          /\ origem[a].versao \in Nat
      BY <1>2 DEF DInv, TypeOK, Linha
    <3>6. QED
      BY <3>2, <3>3, <3>4, <3>5
  <2>2. HashComLinha'
    BY <1>1, <1>2, <1>3, <1>7, <1>8, <2>1 DEF DInv, HashesCertos, HashComLinha
  <2>3. \A b \in exec'.lote : linhas'[exec.fase][b].copias > 0
    BY <1>3, <1>5, <1>6, <1>8
  <2>4. QED
    BY <1>1, <1>5, <1>6, <1>7, <2>2, <2>3 DEF DInv, HashesCertos
<1>13. CargaCerta'
  <2>1. \A b \in Lidos(F.regra, exec.anos) \ exec'.restam :
          Cumprida(exec.fase, b)'
    <3>1. Cumprida(exec.fase, a)'
      BY <1>3, <1>4, <1>6, <1>8 DEF Cumprida
    <3>2. \A b \in Lidos(F.regra, exec.anos) \ exec.restam :
            b # a => Cumprida(exec.fase, b)'
      BY <1>1, <1>2, <1>6, <1>8 DEF DInv, CargaCerta, Cumprida
    <3>3. \A b \in Lidos(F.regra, exec.anos) \ exec'.restam :
            b = a \/ b \in Lidos(F.regra, exec.anos) \ exec.restam
      BY <1>6
    <3>4. QED
      BY <3>1, <3>2, <3>3
  <2>2. F.modo = "full_refresh" =>
          \A b \in exec'.restam : linhas'[exec.fase][b].copias = 0
    <3>1. exec.restam \in SUBSET Anos
      BY <1>2, TipoDeExec
    <3>2. QED
      BY <1>1, <1>2, <1>6, <1>8, <3>1 DEF DInv, CargaCerta
  <2>3. F.modo = "substitui" =>
          \A b \in exec'.restam : exec'.lidas[b] >= exec'.desde[b]
    BY <1>1, <1>6 DEF DInv, CargaCerta
  <2>4. QED
    BY <1>6, <1>7, <2>1, <2>2, <2>3 DEF CargaCerta
<1>14. FasesCumpridas'
  <2>1. \A i \in DOMAIN Fases : i < exec.fase => i # exec.fase
    BY <1>2, Catalogada DEF DInv
  <2>2. QED
    BY <1>1, <1>6, <1>8, <2>1, CumpridasFicam
<1>15. QED
  BY <1>9, <1>10, <1>11, <1>12, <1>13, <1>14 DEF DInv

(* The hashes follow the rows that were written.                              *)
LEMMA GravarHashesPreserva ==
  ASSUME DInv, GravarHashes
  PROVE  DInv'
<1> DEFINE h == [a \in Anos |-> IF a \in exec.lote
                                THEN linhas[exec.fase][a].versao
                                ELSE hashes[exec.fase][a]]
<1>1. /\ exec.etapa = "gravado"
      /\ UNCHANGED <<dominio, origem, linhas, sso, parada, usos>>
      /\ hashes' = [hashes EXCEPT ![exec.fase] = h]
      /\ exec' = [exec EXCEPT !.etapa = "lendo", !.lote = {}]
  BY DEF GravarHashes
<1>2. /\ exec \in Execucao /\ exec.fase \in DOMAIN Fases
      /\ F = Fases[exec.fase] /\ F.modo = "upsert"
      /\ \A a \in exec.lote : linhas[exec.fase][a].copias > 0
  BY <1>1, NaFase DEF DInv, HashesCertos
<1>3. \A a \in Anos :
        /\ h[a] \in Nat
        /\ \/ a \in exec.lote /\ h[a] = linhas[exec.fase][a].versao
           \/ h[a] = hashes[exec.fase][a]
  BY <1>2 DEF DInv, TypeOK, Linha
<1>4. h \in [Anos -> Nat]
  BY <1>3
<1> HIDE DEF h
<1>5. /\ exec' \in Execucao /\ exec'.etapa = "lendo" /\ exec'.fase = exec.fase
      /\ exec'.inicio = exec.inicio /\ exec'.anos = exec.anos
      /\ exec'.restam = exec.restam /\ exec'.lidas = exec.lidas
      /\ exec'.desde = exec.desde
  BY <1>1, <1>2 DEF Execucao, Etapas
<1>6. Fases' = Fases /\ F' = F
  BY <1>1, <1>5, MesmasFases
<1>7. /\ hashes' \in [DOMAIN Fases -> [Anos -> Nat]]
      /\ \A a \in Anos : hashes'[exec.fase][a] = h[a]
      /\ \A i \in DOMAIN Fases : i # exec.fase => hashes'[i] = hashes[i]
  BY <1>1, <1>2, <1>4 DEF DInv, TypeOK
<1>8. TypeOK'
  BY <1>1, <1>2, <1>5, <1>6, <1>7 DEF DInv, TypeOK
<1>9. VersoesCertas' /\ SemDuplicata'
  BY <1>1, <1>5, <1>6 DEF DInv, VersoesCertas, SemDuplicata
<1>10. HashesCertos'
  <2>1. \A a \in Anos : hashes'[exec.fase][a] # Nada =>
          /\ linhas[exec.fase][a].copias > 0
          /\ linhas[exec.fase][a].versao >= hashes'[exec.fase][a]
    <3>1. \A a \in Anos : linhas[exec.fase][a].versao \in Nat
      BY <1>2 DEF DInv, TypeOK, Linha
    <3>2. QED
      BY <1>2, <1>3, <1>7, <3>1 DEF DInv, HashesCertos, HashComLinha
  <2>2. HashComLinha'
    BY <1>1, <1>6, <1>7, <2>1 DEF DInv, HashesCertos, HashComLinha
  <2>3. QED
    BY <1>2, <1>5, <1>6, <1>7, <2>2 DEF DInv, HashesCertos
<1>11. CargaCerta'
  BY <1>1, <1>5, <1>6 DEF DInv, CargaCerta, Cumprida
<1>12. FasesCumpridas'
  BY <1>1, <1>5, CumpridasFicam
<1>13. QED
  BY <1>8, <1>9, <1>10, <1>11, <1>12 DEF DInv

(* A phase ends with every cohort it read loaded.                             *)
LEMMA TerminarFasePreserva ==
  ASSUME DInv, TerminarFase
  PROVE  DInv'
<1> DEFINE etapa == IF exec.fase = Len(Fases) THEN "concluida" ELSE "fase"
<1>1. /\ exec.etapa = "lendo" /\ exec.restam = {}
      /\ UNCHANGED <<dominio, origem, linhas, hashes, sso, parada, usos>>
      /\ exec' = [exec EXCEPT !.fase = exec.fase + 1, !.lidas = Nenhuma,
                              !.etapa = etapa]
  BY DEF TerminarFase
<1>2. /\ exec \in Execucao /\ exec.fase \in DOMAIN Fases /\ exec.fase \in 1..15
      /\ F = Fases[exec.fase] /\ exec.fase + 1 \in 0..16
  BY <1>1, NaFase DEF DInv
<1>3. /\ etapa \in {"concluida", "fase"} /\ etapa \in Etapas
      /\ etapa = "fase" => exec.fase + 1 \in DOMAIN Fases
  BY <1>2, Catalogada DEF DInv, Etapas
<1> HIDE DEF etapa
<1>4. /\ exec' \in Execucao /\ exec'.etapa = etapa
      /\ exec'.fase = exec.fase + 1 /\ exec'.inicio = exec.inicio
      /\ exec'.anos = exec.anos /\ exec'.desde = exec.desde
      /\ exec'.lidas = [a \in Anos |-> 0]
  <2>1. Nenhuma \in [Anos -> Nat]
    BY DEF Nenhuma, Nada
  <2>2. QED
    BY <1>1, <1>2, <1>3, <2>1 DEF Execucao, Nenhuma, Nada
<1>5. Fases' = Fases
  BY <1>1, MesmasFases
<1>6. TypeOK'
  BY <1>1, <1>3, <1>4, <1>5 DEF DInv, TypeOK
<1>7. VersoesCertas'
  <2>1. \A a \in Anos : 0 <= origem[a].versao
    BY DEF DInv, TypeOK
  <2>2. QED
    BY <1>1, <1>4, <1>5, <2>1 DEF DInv, VersoesCertas
<1>8. SemDuplicata' /\ HashesCertos'
  BY <1>1, <1>3, <1>4, <1>5 DEF DInv, SemDuplicata, HashesCertos, HashComLinha
<1>9. CargaCerta'
  BY <1>3, <1>4 DEF CargaCerta
<1>10. FasesCumpridas'
  <2>1. \A a \in Lidos(Fases[exec.fase].regra, exec.anos) : Cumprida(exec.fase, a)
    BY <1>1, <1>2 DEF DInv, CargaCerta
  <2>2. \A i \in DOMAIN Fases :
          i < exec.fase + 1 => i < exec.fase \/ i = exec.fase
    BY <1>2, Catalogada DEF DInv
  <2>3. \A i \in DOMAIN Fases : exec.inicio <= i /\ i < exec.fase + 1 =>
          \A a \in Lidos(Fases[i].regra, exec.anos) : Cumprida(i, a)
    BY <1>1, <2>1, <2>2 DEF DInv, FasesCumpridas, Cumprida
  <2>4. QED
    BY <1>1, <1>4, <1>5, <2>3 DEF FasesCumpridas, Cumprida
<1>11. QED
  BY <1>6, <1>7, <1>8, <1>9, <1>10 DEF DInv

-------------------------------------------------------------------------------
(* Steps on the codes of the schools.                                         *)
LEMMA CodigosPreserva ==
  ASSUME DInv, MudarCodigos \/ Expirar \/ CacheQuente \/ Aquecer \/ AquecerComFalha
  PROVE  DInv'
<1> DEFINE S == [codigo : Nat, cache : Nat, expira : BOOLEAN, ues : [Anos -> Nat]]
<1>1. /\ UNCHANGED <<dominio, origem, linhas, hashes, parada>>
      /\ sso \in S /\ exec \in Execucao
  BY DEF DInv, TypeOK, MudarCodigos, Expirar, CacheQuente, Aquecer, AquecerComFalha
<1>2. sso' \in S
  <2>1. CASE MudarCodigos
    BY <1>1, <2>1 DEF MudarCodigos
  <2>2. CASE Expirar
    BY <1>1, <2>2 DEF Expirar, Nada
  <2>3. CASE CacheQuente
    BY <1>1, <2>3 DEF CacheQuente
  <2>4. CASE Aquecer
    BY <1>1, <2>4 DEF Aquecer
  <2>5. CASE AquecerComFalha
    BY <1>1, <2>5 DEF AquecerComFalha
  <2>6. QED
    BY <2>1, <2>2, <2>3, <2>4, <2>5
<1>3. usos' \in [{"mudancas", "imprevistos"} -> Nat]
  BY DEF DInv, TypeOK, MudarCodigos, Expirar, CacheQuente, Aquecer,
     AquecerComFalha, Gastar
<1>4. \/ exec' = exec
      \/ exec.etapa = "aquecendo" /\ exec' = [exec EXCEPT !.etapa = "fase"]
      \/ /\ exec.etapa = "aquecendo"
         /\ exec' = [exec EXCEPT !.etapa = "fase", !.aqueceu = TRUE]
  BY DEF MudarCodigos, Expirar, CacheQuente, Aquecer, AquecerComFalha
<1>5. /\ exec' = exec \/ (exec'.etapa = "fase" /\ exec.etapa = "aquecendo")
      /\ exec' \in Execucao /\ exec'.fase = exec.fase
      /\ exec'.inicio = exec.inicio /\ exec'.anos = exec.anos
      /\ exec'.restam = exec.restam /\ exec'.lote = exec.lote
      /\ exec'.lidas = exec.lidas /\ exec'.desde = exec.desde
  BY <1>1, <1>4 DEF Execucao, Etapas
<1>6. TypeOK'
  BY <1>1, <1>2, <1>3, <1>5, MesmasFases DEF DInv, TypeOK
<1>7. QED
  BY <1>1, <1>5, <1>6, MesmaCargaPreserva

(* A run that ends, stops or is refused its rows.                             *)
LEMMA PararPreserva ==
  ASSUME DInv, \/ Encerrar \/ Interromper
               \/ \E a \in Anos : FalharIntegridade(a)
  PROVE  DInv'
<1>1. /\ exec' = Parado /\ UNCHANGED <<dominio, origem, linhas, hashes, sso>>
      /\ exec'.etapa = "parado"
  BY DEF Encerrar, Interromper, FalharIntegridade, Parar, Parado
<1>2. parada' \in {0} \cup DOMAIN Fases
  BY NaFase DEF DInv, TypeOK, Encerrar, Interromper, FalharIntegridade, Parar, Vez
<1>3. usos' \in [{"mudancas", "imprevistos"} -> Nat]
  BY DEF DInv, TypeOK, Encerrar, Interromper, FalharIntegridade, Gastar
<1>4. TypeOK'
  BY <1>1, <1>2, <1>3, MesmasFases, ParadoTipo DEF DInv, TypeOK
<1>5. QED
  BY <1>1, <1>4, ParadoPreserva

(* Every step keeps the invariant. *)
LEMMA NextDInv == DInv /\ [Next]_vars => DInv'
<1> SUFFICES ASSUME DInv, [Next]_vars
             PROVE  DInv'
  OBVIOUS
<1>1. CASE UNCHANGED vars
  <2>1. TypeOK'
    BY <1>1, MesmasFases DEF vars, DInv, TypeOK
  <2>2. QED
    BY <1>1, <2>1, MesmaCargaPreserva DEF vars
<1>2. CASE \E a \in Anos, existe \in BOOLEAN : MudarOrigem(a, existe)
  BY <1>2, MudarOrigemPreserva
<1>3. CASE MudarCodigos \/ Expirar
  BY <1>3, CodigosPreserva
<1>4. CASE \E inicio \in {1, parada} \ {0}, anos \in Filtros[dominio] :
             Iniciar(inicio, anos)
  BY <1>4, IniciarPreserva
<1>5. CASE Avancar
  <2>1. CASE \E a \in Anos : Ignorar(a) \/ Escrever(a) \/ FalharIntegridade(a)
    BY <2>1, IgnorarPreserva, EscreverPreserva, PararPreserva
  <2>2. CASE CacheQuente \/ Aquecer \/ AquecerComFalha \/ Encerrar
    BY <2>2, CodigosPreserva, PararPreserva
  <2>3. CASE ComecarFase \/ Substituir \/ GravarHashes \/ TerminarFase
    BY <2>3, ComecarFasePreserva, SubstituirPreserva, GravarHashesPreserva,
       TerminarFasePreserva
  <2>4. QED
    BY <1>5, <2>1, <2>2, <2>3 DEF Avancar
<1>6. CASE Interromper
  BY <1>6, PararPreserva
<1>7. QED
  BY <1>1, <1>2, <1>3, <1>4, <1>5, <1>6 DEF Next

(* The inductive invariant holds of every execution of every domain.          *)
THEOREM InvarianteDosDominios == Spec => []DInv
<1>1. Init => DInv
  BY InitDInv
<1>2. DInv /\ [Next]_vars => DInv'
  BY NextDInv
<1>3. QED
  BY <1>1, <1>2, PTL DEF Spec

(* What is one row in the source is one row in the table, whatever runs were  *)
(* interrupted between the rows and their hashes and run again.               *)
THEOREM TabelasSemDuplicata == Spec => []SemDuplicata
<1>1. DInv => SemDuplicata
  BY DEF DInv
<1>2. QED
  BY <1>1, InvarianteDosDominios, PTL

(* A row whose hash is kept is in its table, no older than the hash.          *)
THEOREM HashesComLinha == Spec => []HashComLinha
<1>1. DInv => HashComLinha
  BY DEF DInv, HashesCertos
<1>2. QED
  BY <1>1, InvarianteDosDominios, PTL

(* A run keeps all that its phases loaded until it concludes.                 *)
THEOREM ExecucoesCumprem == Spec => []FasesCumpridas
<1>1. DInv => FasesCumpridas
  BY DEF DInv
<1>2. QED
  BY <1>1, InvarianteDosDominios, PTL

-------------------------------------------------------------------------------
(* Only the phase under way writes its table.                                 *)
LEMMA SoAFaseEscreve ==
  ASSUME DInv, [Next]_vars
  PROVE  \A i \in DOMAIN Fases : \A a \in Anos :
           i # exec.fase => linhas'[i][a] = linhas[i][a]
<1>1. CASE linhas' = linhas
  BY <1>1
<1>2. CASE ComecarFase
  <2>1. \E T \in {{}, {exec.fase}} : linhas' = Esvaziar(T, Anos)
    BY <1>2, CascataPropria DEF DInv, ComecarFase
  <2>2. QED
    BY <2>1 DEF Esvaziar
<1>3. CASE Substituir
  BY <1>3 DEF Substituir, Esvaziar
<1>4. CASE \E a \in Anos : Escrever(a)
  <2>1. PICK a \in Anos : Escrever(a)
    BY <1>4
  <2>2. linhas' = [linhas EXCEPT ![exec.fase][a] =
                     [copias |-> Copias(a), versao |-> Versao(a)]]
    BY <2>1 DEF Escrever
  <2>3. QED
    BY <2>2 DEF DInv, TypeOK
<1>5. linhas' = linhas \/ ComecarFase \/ Substituir \/ \E a \in Anos : Escrever(a)
  BY DEF Next, vars, Avancar, MudarOrigem, MudarCodigos, Expirar, Iniciar,
     CacheQuente, Aquecer, AquecerComFalha, Ignorar, FalharIntegridade, Parar,
     GravarHashes, TerminarFase, Encerrar, Interromper
<1>6. QED
  BY <1>1, <1>2, <1>3, <1>4, <1>5

(* A table loses rows only in its own phase: TRUNCATE ... CASCADE reaches no  *)
(* table of another.                                                          *)
THEOREM NadaSeApagaFora == Spec => SoAPropriaFaseApaga
<1> DEFINE A == \A i \in DOMAIN Fases :
                  (\E a \in Anos : linhas'[i][a].copias < linhas[i][a].copias)
                    => exec.fase = i
<1>1. DInv /\ [Next]_vars => A
  <2> SUFFICES ASSUME DInv, [Next]_vars, NEW i \in DOMAIN Fases, NEW a \in Anos,
                      exec.fase # i
               PROVE  ~(linhas'[i][a].copias < linhas[i][a].copias)
    OBVIOUS
  <2>1. linhas'[i][a] = linhas[i][a]
    BY SoAFaseEscreve
  <2>2. linhas[i][a].copias \in 0..2
    BY DEF DInv, TypeOK, Linha
  <2>3. QED
    BY <2>1, <2>2
<1>2. DInv /\ [Next]_vars => [A]_vars
  BY <1>1
<1> HIDE DEF A
<1>3. Spec => [][A]_vars
  BY <1>2, InvarianteDosDominios, PTL DEF Spec
<1>4. QED
  BY <1>3 DEF SoAPropriaFaseApaga, A
================================================================================
