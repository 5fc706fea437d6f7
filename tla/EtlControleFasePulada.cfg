SPECIFICATION Spec
CONSTANTS
  Workers = {w1}
  Terminais = {}
  NumFases = 2
  FaseFinal = 2
  Selecoes <- TodasAsFases
  MaxTentativas = 1
  MaxRetries = 0
  MaxExecucoes = 3
  MaxTasks = 3
  MaxManuais = 0
  MaxFalhas = 1
  MaxQuedas = 1
  MaxCancelamentos = 0
  HeartbeatExpira = FALSE
INVARIANT NenhumaFasePulada
CHECK_DEADLOCK FALSE
