SPECIFICATION FairSpecOrigem
CONSTANTS
  NumChunks = 3
  Inicios = {1, 3}
  Capacidade = 2
  MaxRetry = 2
  TemTimeout = FALSE
  MaxEsperas = 0
  FullRefresh = TRUE
  Trunca = TRUE
  ChaveUnica = FALSE
  Sobras = 1
INVARIANTS PipelineInv DestinoExato
PROPERTY FaseTermina
CHECK_DEADLOCK FALSE
