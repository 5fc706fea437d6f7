SPECIFICATION FairSpec
CONSTANTS
  NumChunks = 4
  Inicios = {1, 3}
  Capacidade = 2
  MaxRetry = 2
  TemTimeout = TRUE
  MaxEsperas = 2
  FullRefresh = FALSE
  Trunca = FALSE
  ChaveUnica = TRUE
  Sobras = 1
INVARIANTS TypeOK FaseCompleta FimDaOrigem DestinoExato
PROPERTIES EmOrdem FaseTermina ImplementaFase
CHECK_DEADLOCK FALSE
