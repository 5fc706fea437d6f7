SPECIFICATION Spec
CONSTANTS
  NumChunks = 2
  Inicios = {1}
  Capacidade = 1
  MaxRetry = 1
  TemTimeout = TRUE
  MaxEsperas = 3
  FullRefresh = TRUE
  Trunca = TRUE
  ChaveUnica = FALSE
  Sobras = 0
INVARIANT SemDuplicacao
CHECK_DEADLOCK FALSE
