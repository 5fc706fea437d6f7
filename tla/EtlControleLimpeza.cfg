SPECIFICATION Spec
CONSTANTS
  Workers = {w1}
  Terminais = {}
  NumFases = 1
  FaseFinal = 1
  Selecoes <- TodasAsFases
  MaxTentativas = 1
  MaxRetries = 1
  MaxExecucoes = 2
  MaxTasks = 1
  MaxManuais = 0
  MaxFalhas = 0
  MaxQuedas = 0
  MaxCancelamentos = 0
  HeartbeatExpira = FALSE
PROPERTY LimpezaSoEmExecucao
CHECK_DEADLOCK FALSE
