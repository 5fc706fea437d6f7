SPECIFICATION Spec
CONSTANTS
  Workers = {w1}
  Terminais = {m1}
  NumFases = 2
  FaseFinal = 2
  Selecoes <- TodasAsFases
  MaxTentativas = 1
  MaxRetries = 1
  MaxExecucoes = 3
  MaxTasks = 1
  MaxManuais = 1
  MaxFalhas = 1
  MaxQuedas = 0
  MaxCancelamentos = 0
  HeartbeatExpira = TRUE
INVARIANTS CheckpointCoberto ConcluidoCoberto
CHECK_DEADLOCK FALSE
