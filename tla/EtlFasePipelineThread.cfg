SPECIFICATION FairSpecOrigem
CONSTANTS
  NumChunks = 2
  Inicios = {1}
  Capacidade = 1
  MaxRetry = 0
  TemTimeout = TRUE
  MaxEsperas = 2
  FullRefresh = FALSE
  Trunca = FALSE
  ChaveUnica = TRUE
  Sobras = 0
PROPERTY ThreadEncerra
CHECK_DEADLOCK FALSE
