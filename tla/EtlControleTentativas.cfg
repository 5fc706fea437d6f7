SPECIFICATION Spec
CONSTANTS
  Workers = {w1}
  Terminais = {}
  NumFases = 1
  FaseFinal = 1
  Selecoes <- TodasAsFases
  MaxTentativas = 1
  MaxRetries = 1
  MaxExecucoes = 3
  MaxTasks = 3
  MaxManuais = 0
  MaxFalhas = 0
  MaxQuedas = 1
  MaxCancelamentos = 0
  HeartbeatExpira = FALSE
INVARIANT RetomadasLimitadas
CHECK_DEADLOCK FALSE
