SPECIFICATION Spec
CONSTANTS
  Workers = {w1}
  Terminais = {}
  NumFases = 3
  FaseFinal = 3
  Selecoes <- TodasOuPrimeira
  MaxTentativas = 1
  MaxRetries = 0
  MaxExecucoes = 3
  MaxTasks = 2
  MaxManuais = 0
  MaxFalhas = 1
  MaxQuedas = 1
  MaxCancelamentos = 1
  HeartbeatExpira = FALSE
INVARIANTS TypeOK CheckpointCoberto
PROPERTIES VereditoUnico ImplementaPedido
CHECK_DEADLOCK FALSE
