SPECIFICATION FairSpec
CONSTANTS
  Workers = {w1}
  Terminais = {}
  NumFases = 1
  FaseFinal = 1
  Selecoes <- TodasAsFases
  MaxTentativas = 1
  MaxRetries = 1
  MaxExecucoes = 4
  MaxTasks = 2
  MaxManuais = 0
  MaxFalhas = 1
  MaxQuedas = 1
  MaxCancelamentos = 0
  HeartbeatExpira = FALSE
PROPERTIES ExecucaoTermina InterrompidaRetomada
CHECK_DEADLOCK FALSE
