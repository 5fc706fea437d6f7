------------------------------ MODULE EtlCatalogo -------------------------------
(***************************************************************************)
(* What the four services that use the engine of BaseEtlService declare:   *)
(* for each phase the query it runs, the DTO that reads its rows, the      *)
(* model it writes and how.  The rows of a table fall into two cohorts,    *)
(* those of the current school year and those of an earlier one.  Of a     *)
(* query the catalogue keeps the cohorts it returns; of a DTO, what the    *)
(* row it gives depends on; of a model, the tables its rows refer to with  *)
(* a constraint of the database, and whether its key identifies a row; of  *)
(* a PhaseConfig, the mode of writing.                                     *)
(***************************************************************************)
EXTENDS Sequences

Anos == {"corrente", "anterior"}

(* Cohorts a query returns when no year is given.  "anos" takes the years
   given, "corrente" and "anterior" too, and have a default; "tudo" and
   "so_corrente" do not look at them.                                      *)
Padrao == [tudo |-> Anos, anos |-> Anos, corrente |-> {"corrente"},
           anterior |-> {"anterior"}, so_corrente |-> {"corrente"}]

(* Cohorts a query returns when --anos-letivos gave anos. *)
Lidos(regra, anos) ==
  IF anos = {} \/ regra \in {"tudo", "so_corrente"} THEN Padrao[regra] ELSE anos

(* What to_domain makes the row of: the row of the source alone, also the
   hour of the run (transferido_em), also the cache of codes.              *)
DaLinha == "linha"
ComHora == "hora"
ComCache == "cache"

(* chave: "unica", a constraint that identifies a row; "nulos", one over
   columns that may be NULL, and NULLs are distinct; "nenhuma".            *)
Modelo(refs, chave) == [refs |-> refs, chave |-> chave]

(* modo: "upsert", "full_refresh", or "substitui", a phase that deletes the
   years it read and writes them anew; trunca: truncate_on_full_sync.      *)
Fase(tabela, regra, dto, modelo, modo, trunca) ==
  [tabela |-> tabela, regra |-> regra, depende |-> dto, refs |-> modelo.refs,
   chave |-> modelo.chave, modo |-> modo, trunca |-> trunca]

-------------------------------------------------------------------------------
(* institucional *)

SqlDre == "tudo"
SqlTipoEscola == "tudo"
SqlSubPrefeitura == "tudo"
SqlUnidadeEducacional == "tudo"
SqlDreAbrangencia == "tudo"

DREIn == DaLinha
TipoEscolaIn == DaLinha
SubprefeituraIn == DaLinha
UnidadeEducacionalIn == ComCache
DREAbrangenciaIn == DaLinha

DRE == Modelo({}, "unica")
TipoEscola == Modelo({}, "unica")
SubPrefeitura == Modelo({}, "unica")
UnidadeEducacional == Modelo({"dre", "tipo_escola", "sub_prefeitura"}, "unica")
DREAbrangencia == Modelo({}, "unica")

FaseDre == Fase("dre", SqlDre, DREIn, DRE, "upsert", FALSE)
FaseTipoEscola ==
  Fase("tipo_escola", SqlTipoEscola, TipoEscolaIn, TipoEscola, "upsert", FALSE)
FaseSubPrefeitura ==
  Fase("sub_prefeitura", SqlSubPrefeitura, SubprefeituraIn, SubPrefeitura,
       "upsert", FALSE)
FaseUnidadeEducacional ==
  Fase("unidade_educacional", SqlUnidadeEducacional,
       UnidadeEducacionalIn, UnidadeEducacional, "full_refresh", TRUE)
FaseDreAbrangencia ==
  Fase("dre_abrangencia", SqlDreAbrangencia, DREAbrangenciaIn, DREAbrangencia,
       "full_refresh", TRUE)

FasesInstitucional ==
  <<FaseDre, FaseTipoEscola, FaseSubPrefeitura, FaseUnidadeEducacional,
    FaseDreAbrangencia>>

-------------------------------------------------------------------------------
(* alunos *)

SqlTipoNee == "tudo"
SqlAluno == "anos"
SqlResponsavel == "anos"
SqlNeeAluno == "anos"
SqlMatricula == "anos"
SqlMatriculaTurma == "anos"
SqlMatriculaAnoLetivo == "anos"
SqlMatriculaComponente == "anos"
SqlDadosAcompanhamento == "corrente"
SqlResponsavelTurma == "corrente"
SqlMatriculaAnoAnterior == "anterior"

TipoNecessidadeEspecialIn == DaLinha
AlunoIn == DaLinha
ResponsavelAlunoIn == DaLinha
NecessidadeEspecialAlunoIn == DaLinha
MatriculaIn == DaLinha
MatriculaTurmaIn == DaLinha
MatriculaAnoLetivoIn == DaLinha
MatriculaComponenteCurricularAnoLetivoIn == DaLinha
DadosAlunoAcompanhamentoEscolarIn == DaLinha
ResponsavelAlunoTurmaIn == DaLinha
MatriculaAnoAnteriorIn == DaLinha

TipoNecessidadeEspecial == Modelo({}, "unica")
Aluno == Modelo({}, "unica")
ResponsavelAluno == Modelo({"aluno"}, "unica")
NecessidadeEspecialAluno ==
  Modelo({"aluno", "tipo_necessidade_especial"}, "unica")
Matricula == Modelo({"aluno"}, "unica")
MatriculaTurma == Modelo({}, "nulos")
MatriculaAnoLetivo == Modelo({}, "nulos")
MatriculaComponenteCurricularAnoLetivo == Modelo({}, "nulos")
DadosAlunoAcompanhamentoEscolar == Modelo({}, "nulos")
ResponsavelAlunoTurma == Modelo({}, "unica")
MatriculaAnoAnterior == Modelo({}, "unica")

FaseTipoNee ==
  Fase("tipo_necessidade_especial", SqlTipoNee,
       TipoNecessidadeEspecialIn, TipoNecessidadeEspecial, "upsert", TRUE)
(* Mutant: the students are loaded as a table of their own. *)
FaseAlunoTruncada ==
  Fase("aluno", SqlAluno, AlunoIn, Aluno, "full_refresh", TRUE)

FaseAluno == Fase("aluno", SqlAluno, AlunoIn, Aluno, "upsert", FALSE)
FaseResponsavel ==
  Fase("responsavel_aluno", SqlResponsavel,
       ResponsavelAlunoIn, ResponsavelAluno, "upsert", FALSE)
FaseNeeAluno ==
  Fase("necessidade_especial_aluno", SqlNeeAluno,
       NecessidadeEspecialAlunoIn, NecessidadeEspecialAluno, "upsert", FALSE)
FaseMatricula ==
  Fase("matricula", SqlMatricula, MatriculaIn, Matricula, "upsert", FALSE)
FaseMatriculaTurma ==
  Fase("matricula_turma", SqlMatriculaTurma, MatriculaTurmaIn, MatriculaTurma,
       "upsert", FALSE)
FaseMatriculaAnoLetivo ==
  Fase("matricula_ano_letivo", SqlMatriculaAnoLetivo,
       MatriculaAnoLetivoIn, MatriculaAnoLetivo, "upsert", FALSE)
FaseMatriculaComponente ==
  Fase("matricula_componente_curricular_ano_letivo", SqlMatriculaComponente,
       MatriculaComponenteCurricularAnoLetivoIn,
       MatriculaComponenteCurricularAnoLetivo, "upsert", FALSE)
FaseDadosAcompanhamento ==
  Fase("dados_aluno_acompanhamento_escolar", SqlDadosAcompanhamento,
       DadosAlunoAcompanhamentoEscolarIn, DadosAlunoAcompanhamentoEscolar,
       "upsert", FALSE)
FaseResponsavelTurma ==
  Fase("responsavel_aluno_turma", SqlResponsavelTurma,
       ResponsavelAlunoTurmaIn, ResponsavelAlunoTurma, "full_refresh", TRUE)
FaseMatriculaAnoAnterior ==
  Fase("matricula_ano_anterior", SqlMatriculaAnoAnterior,
       MatriculaAnoAnteriorIn, MatriculaAnoAnterior, "full_refresh", TRUE)

(* Mutant: enrolments are loaded before the students they belong to. *)
FasesAlunosTrocadas ==
  <<FaseTipoNee, FaseMatricula, FaseResponsavel, FaseNeeAluno, FaseAluno,
    FaseMatriculaTurma, FaseMatriculaAnoLetivo, FaseMatriculaComponente,
    FaseDadosAcompanhamento, FaseResponsavelTurma, FaseMatriculaAnoAnterior>>

FasesAlunos ==
  <<FaseTipoNee, FaseAluno, FaseResponsavel, FaseNeeAluno, FaseMatricula,
    FaseMatriculaTurma, FaseMatriculaAnoLetivo, FaseMatriculaComponente,
    FaseDadosAcompanhamento, FaseResponsavelTurma, FaseMatriculaAnoAnterior>>

-------------------------------------------------------------------------------
(* pedagogico *)

SqlComponenteCurricular == "tudo"
SqlComponenteTurma == "anos"
SqlAtribuicaoComponente == "anos"
SqlAtribuicaoTerritorio == "anos"
SqlComponenteApiEol == "tudo"
SqlHierarquia == "tudo"
SqlPap == "tudo"
SqlPlanejamentoRegencia == "tudo"
SqlItinerario == "tudo"
SqlAgrupamento == "tudo"
SqlGrade == "anos"
SqlTurma == "anos"
SqlTurmaAtribuida == "so_corrente"
SqlEtapaEnsino == "tudo"
SqlCicloEnsino == "tudo"

ComponenteCurricularSimplesIn == ComHora
ComponenteTurmaIn == ComHora
AtribuicaoComponenteIn == ComHora
AtribuicaoTerritorioSaberIn == ComHora
ApiEolComponenteCurricularIn == ComHora
ApiEolComponenteCurricularHierarquiaIn == ComHora
ApiEolComponenteCurricularPAPIn == ComHora
ApiEolComponenteCurricularPlanejamentoRegenciaIn == ComHora
ApiEolTurmaItinerarioEnsinoMedioIn == ComHora
ApiEolAgrupamentoAtribuicaoTerritorioSaberIn == ComHora
GradeComponenteCurricularIn == ComHora
TurmaIn == ComHora
TurmaAtribuidaDreUeIn == ComHora
EtapaEnsinoIn == ComHora
CicloEnsinoIn == ComHora

ComponenteCurricular == Modelo({}, "unica")
ComponenteTurma == Modelo({}, "unica")
AtribuicaoComponente == Modelo({}, "unica")
AtribuicaoTerritorioSaber == Modelo({}, "unica")
ComponenteCurricularApiEol == Modelo({}, "unica")
ComponenteCurricularHierarquia == Modelo({}, "unica")
ComponenteCurricularPAP == Modelo({}, "unica")
ComponenteCurricularPlanejamentoRegencia == Modelo({}, "nenhuma")
TurmaItinerarioEnsinoMedio == Modelo({}, "unica")
AgrupamentoAtribuicaoTerritorioSaber == Modelo({}, "nenhuma")
GradeComponenteCurricular == Modelo({}, "unica")
Turma == Modelo({}, "unica")
TurmaAtribuidaDreUe == Modelo({}, "nenhuma")
EtapaEnsino == Modelo({}, "unica")
CicloEnsino == Modelo({}, "unica")

FaseComponenteCurricular ==
  Fase("componente_curricular", SqlComponenteCurricular,
       ComponenteCurricularSimplesIn, ComponenteCurricular, "upsert", FALSE)
FaseComponenteTurma ==
  Fase("componente_turma", SqlComponenteTurma,
       ComponenteTurmaIn, ComponenteTurma, "upsert", FALSE)
FaseAtribuicaoComponente ==
  Fase("atribuicao_componente", SqlAtribuicaoComponente,
       AtribuicaoComponenteIn, AtribuicaoComponente, "upsert", FALSE)
FaseAtribuicaoTerritorio ==
  Fase("atribuicao_territorio_saber", SqlAtribuicaoTerritorio,
       AtribuicaoTerritorioSaberIn, AtribuicaoTerritorioSaber,
       "substitui", FALSE)
FaseComponenteApiEol ==
  Fase("componente_curricular_api_eol", SqlComponenteApiEol,
       ApiEolComponenteCurricularIn, ComponenteCurricularApiEol,
       "full_refresh", TRUE)
FaseHierarquia ==
  Fase("componente_curricular_hierarquia", SqlHierarquia,
       ApiEolComponenteCurricularHierarquiaIn, ComponenteCurricularHierarquia,
       "full_refresh", TRUE)
FasePap ==
  Fase("componente_curricular_pap", SqlPap,
       ApiEolComponenteCurricularPAPIn, ComponenteCurricularPAP,
       "full_refresh", TRUE)
FasePlanejamentoRegencia ==
  Fase("componente_curricular_planejamento_regencia", SqlPlanejamentoRegencia,
       ApiEolComponenteCurricularPlanejamentoRegenciaIn,
       ComponenteCurricularPlanejamentoRegencia, "full_refresh", TRUE)
FaseItinerario ==
  Fase("turma_itinerario_ensino_medio", SqlItinerario,
       ApiEolTurmaItinerarioEnsinoMedioIn, TurmaItinerarioEnsinoMedio,
       "full_refresh", TRUE)
FaseAgrupamento ==
  Fase("agrupamento_atribuicao_territorio_saber", SqlAgrupamento,
       ApiEolAgrupamentoAtribuicaoTerritorioSaberIn,
       AgrupamentoAtribuicaoTerritorioSaber, "full_refresh", TRUE)
FaseGrade ==
  Fase("grade_componente_curricular", SqlGrade,
       GradeComponenteCurricularIn, GradeComponenteCurricular, "upsert", FALSE)
FaseTurma == Fase("turma", SqlTurma, TurmaIn, Turma, "upsert", FALSE)
(* Mutant: the table is not emptied before it is loaded. *)
FaseTurmaAtribuidaSemTruncar ==
  Fase("turma_atribuida_dre_ue", SqlTurmaAtribuida,
       TurmaAtribuidaDreUeIn, TurmaAtribuidaDreUe, "full_refresh", FALSE)

FaseTurmaAtribuida ==
  Fase("turma_atribuida_dre_ue", SqlTurmaAtribuida,
       TurmaAtribuidaDreUeIn, TurmaAtribuidaDreUe, "full_refresh", TRUE)
FaseEtapaEnsino ==
  Fase("etapa_ensino", SqlEtapaEnsino, EtapaEnsinoIn, EtapaEnsino,
       "full_refresh", TRUE)
FaseCicloEnsino ==
  Fase("ciclo_ensino", SqlCicloEnsino, CicloEnsinoIn, CicloEnsino,
       "full_refresh", TRUE)

FasesPedagogico ==
  <<FaseComponenteCurricular, FaseComponenteTurma, FaseAtribuicaoComponente,
    FaseAtribuicaoTerritorio, FaseComponenteApiEol, FaseHierarquia, FasePap,
    FasePlanejamentoRegencia, FaseItinerario, FaseAgrupamento, FaseGrade,
    FaseTurma, FaseTurmaAtribuida, FaseEtapaEnsino, FaseCicloEnsino>>

-------------------------------------------------------------------------------
(* programas *)

SqlTipoPrograma == "tudo"
SqlComponentePrograma == "tudo"
SqlTurmaPrograma == "anos"
SqlTurmaProgramaComponente == "tudo"
SqlMatriculaPrograma == "anos"
SqlMatriculaHistorico == "anos"
SqlAlunoPap == "anos"
SqlAlunoPapHistorico == "anos"

TipoProgramaIn == DaLinha
ComponenteCurricularProgramaIn == DaLinha
TurmaProgramaIn == DaLinha
TurmaProgramaComponenteCurricularIn == DaLinha
MatriculaTurmaProgramaIn == DaLinha
AlunoPapAnoLetivoIn == DaLinha

TipoPrograma == Modelo({}, "unica")
ComponenteCurricularPrograma == Modelo({}, "unica")
TurmaPrograma == Modelo({}, "unica")
TurmaProgramaComponenteCurricular == Modelo({}, "unica")
MatriculaTurmaPrograma == Modelo({}, "unica")
MatriculaTurmaProgramaHistorico == Modelo({}, "unica")
AlunoPapAnoLetivo == Modelo({}, "unica")
AlunoPapAnoLetivoHistorico == Modelo({}, "unica")

FaseTipoPrograma ==
  Fase("tipo_programa", SqlTipoPrograma, TipoProgramaIn, TipoPrograma,
       "upsert", FALSE)
FaseComponentePrograma ==
  Fase("componente_curricular_programa", SqlComponentePrograma,
       ComponenteCurricularProgramaIn, ComponenteCurricularPrograma,
       "upsert", FALSE)
FaseTurmaPrograma ==
  Fase("turma_programa", SqlTurmaPrograma, TurmaProgramaIn, TurmaPrograma,
       "upsert", FALSE)
FaseTurmaProgramaComponente ==
  Fase("turma_programa_componente_curricular", SqlTurmaProgramaComponente,
       TurmaProgramaComponenteCurricularIn, TurmaProgramaComponenteCurricular,
       "upsert", FALSE)
FaseMatriculaPrograma ==
  Fase("matricula_turma_programa", SqlMatriculaPrograma,
       MatriculaTurmaProgramaIn, MatriculaTurmaPrograma, "upsert", FALSE)
FaseMatriculaHistorico ==
  Fase("matricula_turma_programa_historico", SqlMatriculaHistorico,
       MatriculaTurmaProgramaIn, MatriculaTurmaProgramaHistorico,
       "upsert", FALSE)
FaseAlunoPap ==
  Fase("aluno_pap_ano_letivo", SqlAlunoPap,
       AlunoPapAnoLetivoIn, AlunoPapAnoLetivo, "upsert", FALSE)
FaseAlunoPapHistorico ==
  Fase("aluno_pap_ano_letivo_historico", SqlAlunoPapHistorico,
       AlunoPapAnoLetivoIn, AlunoPapAnoLetivoHistorico, "upsert", FALSE)

FasesProgramas ==
  <<FaseTipoPrograma, FaseComponentePrograma, FaseTurmaPrograma,
    FaseTurmaProgramaComponente, FaseMatriculaPrograma, FaseMatriculaHistorico,
    FaseAlunoPap, FaseAlunoPapHistorico>>

FasesDe == [institucional |-> FasesInstitucional, alunos |-> FasesAlunos,
            pedagogico |-> FasesPedagogico, programas |-> FasesProgramas]
===============================================================================
