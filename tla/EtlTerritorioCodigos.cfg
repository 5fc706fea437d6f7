SPECIFICATION Spec
CHECK_DEADLOCK FALSE
CONSTANTS
  Exatas <- ChavesExatas
  Historicas = {"h1", "h2", "h3"}
  Anos = {2024, 2025}
  Historica <- HistoricaDe
  Ano <- AnoDaTurma
  Unitarias = {3}
  Oficiais <- LinhasOficiais
  IdInicial = 800000
  Lote = 2
  MaxFases = 4
  MaxFalhas = 2
INVARIANTS CodigosUnivocos ItemTemAgrupamento CodigoEstavel FaseSubstituiAnos
