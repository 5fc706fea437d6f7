SPECIFICATION Spec
CONSTANTS
  NumChunks = 2
  Inicios = {1}
  Capacidade = 1
  MaxRetry = 1
  TemTimeout = TRUE
  MaxEsperas = 3
  FullRefresh = FALSE
  Trunca = FALSE
  ChaveUnica = TRUE
  Sobras = 0
INVARIANT SinalRespeitado
CHECK_DEADLOCK FALSE
