------------------------ MODULE EtlCatalogoProfessores -------------------------
(***************************************************************************)
(* What the domain professores declares for its 21 tables: the query, what *)
(* its DTO hands to the model, what the model's keys identify, and how the *)
(* table is written.  Its foreign keys have db_constraint=False, so that   *)
(* the database refuses a row only for its key.                            *)
(***************************************************************************)
EXTENDS Sequences

(* The rows a query asks for: "tudo", always the same; "anos", those of
   --anos-letivos when it is given; "sso", from Core SSO in one answer.    *)
SqlProfessores == "tudo"
SqlCargos == "tudo"
SqlPessoas == "tudo"
SqlAdministradoresSgp == "sso"
SqlCargosBase == "tudo"
SqlContratosExternos == "tudo"
SqlLotacoes == "tudo"
SqlCargosSobrepostos == "tudo"
SqlFuncoesAtividade == "tudo"
SqlLaudos == "tudo"
SqlAtribuicoesAula == "anos"
SqlAtribuicoesExterno == "anos"
SqlFuncionariosUe == "tudo"
SqlFuncionariosCargos == "tudo"
SqlFuncionariosVinculos == "tudo"
SqlConectaModalidade == "tudo"
SqlConectaFormacao == "tudo"
SqlSistemaPerfil == "sso"
SqlTurmasAtribuidas == "anos"
SqlDisciplinasTurmas == "anos"
SqlProfessoresEscolaAno == "anos"

(* Whether to_dict gives the primary key or leaves it to the database. *)
ComChave == TRUE
SemChave == FALSE

ProfessorOut == ComChave
CargoOut == ComChave
PessoaOut == ComChave
CargoBaseServidorOut == ComChave
ContratoExternoOut == ComChave
LotacaoServidorOut == SemChave
CargoSobrepostoServidorOut == SemChave
FuncaoAtividadeCargoServidorOut == SemChave
LaudoMedicoOut == SemChave
AtribuicaoAulaOut == ComChave
AtribuicaoExternoOut == ComChave
FuncionarioUnidadeEducacionalOut == SemChave
FuncionarioCargoOut == SemChave
FuncionarioVinculoFuncionalOut == SemChave
FuncionarioConectaModalidadeEscolaOut == SemChave
FuncionarioConectaFormacaoOut == SemChave
FuncionarioSistemaPerfilOut == SemChave
TurmaAtribuidaUeOut == SemChave
DisciplinaTurmaAtribuidaUeOut == SemChave
ProfessorEscolaAnoOut == SemChave

(* The constraint of a model besides its primary key: "unica"; "nulos", over
   columns that may be NULL, and NULLs are distinct; "nenhuma".            *)
Professor == "nenhuma"
Cargo == "nenhuma"
Pessoa == "unica"
AdministradorEscola == "nenhuma"
CargoBaseServidor == "nenhuma"
ContratoExterno == "nenhuma"
LotacaoServidor == "nenhuma"
CargoSobrepostoServidor == "nenhuma"
FuncaoAtividadeCargoServidor == "nenhuma"
LaudoMedico == "nenhuma"
AtribuicaoAula == "nenhuma"
AtribuicaoExterno == "nenhuma"
FuncionarioUnidadeEducacional == "unica"
FuncionarioCargo == "unica"
FuncionarioVinculoFuncional == "unica"
FuncionarioConectaModalidadeEscola == "unica"
FuncionarioConectaFormacao == "unica"
FuncionarioSistemaPerfil == "unica"
TurmaAtribuidaUe == "nenhuma"
DisciplinaTurmaAtribuidaUe == "nulos"
ProfessorEscolaAno == "nulos"

(* A row is identified by a key that comes from the source, or by the
   constraint.  modo: "upsert"; "full_refresh", the table is emptied and the
   rows inserted; "recarga", emptied and the rows upserted; "substitui", the
   years read are deleted and the rows inserted unless they conflict.      *)
Tabela(sql, out, modelo, modo) ==
  [regra |-> sql, chave |-> IF out = ComChave THEN "unica" ELSE modelo,
   modo |-> modo]

PopularProfessores ==
  Tabela(SqlProfessores, ProfessorOut, Professor, "upsert")
PopularCargos ==
  Tabela(SqlCargos, CargoOut, Cargo, "full_refresh")
PopularPessoas ==
  Tabela(SqlPessoas, PessoaOut, Pessoa, "upsert")
PopularAdministradoresSgp ==
  Tabela(SqlAdministradoresSgp, SemChave, AdministradorEscola, "full_refresh")
PopularCargosBase ==
  Tabela(SqlCargosBase, CargoBaseServidorOut, CargoBaseServidor, "upsert")
PopularContratosExternos ==
  Tabela(SqlContratosExternos, ContratoExternoOut, ContratoExterno, "upsert")
PopularLotacoes ==
  Tabela(SqlLotacoes, LotacaoServidorOut, LotacaoServidor, "full_refresh")
PopularCargosSobrepostos ==
  Tabela(SqlCargosSobrepostos, CargoSobrepostoServidorOut,
         CargoSobrepostoServidor, "full_refresh")
PopularFuncoesAtividade ==
  Tabela(SqlFuncoesAtividade, FuncaoAtividadeCargoServidorOut,
         FuncaoAtividadeCargoServidor, "full_refresh")
PopularLaudos ==
  Tabela(SqlLaudos, LaudoMedicoOut, LaudoMedico, "full_refresh")
PopularAtribuicoesAula ==
  Tabela(SqlAtribuicoesAula, AtribuicaoAulaOut, AtribuicaoAula, "upsert")
PopularAtribuicoesExterno ==
  Tabela(SqlAtribuicoesExterno, AtribuicaoExternoOut, AtribuicaoExterno,
         "upsert")
PopularFuncionarios ==
  Tabela(SqlFuncionariosUe, FuncionarioUnidadeEducacionalOut,
         FuncionarioUnidadeEducacional, "recarga")
PopularFuncionariosCargos ==
  Tabela(SqlFuncionariosCargos, FuncionarioCargoOut, FuncionarioCargo,
         "full_refresh")
PopularVinculosFuncionais ==
  Tabela(SqlFuncionariosVinculos, FuncionarioVinculoFuncionalOut,
         FuncionarioVinculoFuncional, "full_refresh")
PopularConectaModalidade ==
  Tabela(SqlConectaModalidade, FuncionarioConectaModalidadeEscolaOut,
         FuncionarioConectaModalidadeEscola, "full_refresh")
PopularConectaFormacao ==
  Tabela(SqlConectaFormacao, FuncionarioConectaFormacaoOut,
         FuncionarioConectaFormacao, "full_refresh")
PopularSistemaPerfil ==
  Tabela(SqlSistemaPerfil, FuncionarioSistemaPerfilOut,
         FuncionarioSistemaPerfil, "upsert")
PopularTurmasAtribuidas ==
  Tabela(SqlTurmasAtribuidas, TurmaAtribuidaUeOut, TurmaAtribuidaUe,
         "full_refresh")
PopularDisciplinasTurmas ==
  Tabela(SqlDisciplinasTurmas, DisciplinaTurmaAtribuidaUeOut,
         DisciplinaTurmaAtribuidaUe, "full_refresh")
PopularProfessoresEscolaAno ==
  Tabela(SqlProfessoresEscolaAno, ProfessorEscolaAnoOut, ProfessorEscolaAno,
         "substitui")

(* In the order of _ORDEM_TABELAS. *)
Catalogo ==
  <<PopularProfessores, PopularCargos, PopularPessoas,
    PopularAdministradoresSgp, PopularCargosBase, PopularContratosExternos,
    PopularLotacoes, PopularCargosSobrepostos, PopularFuncoesAtividade,
    PopularLaudos, PopularAtribuicoesAula, PopularAtribuicoesExterno,
    PopularFuncionarios, PopularFuncionariosCargos, PopularVinculosFuncionais,
    PopularConectaModalidade, PopularConectaFormacao, PopularSistemaPerfil,
    PopularTurmasAtribuidas, PopularDisciplinasTurmas,
    PopularProfessoresEscolaAno>>
===============================================================================
