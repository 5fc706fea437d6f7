SPECIFICATION FairSpec
CONSTANTS
  Lotes <- LotesCurtos
  LotesDosAnos <- LotesRecentes
  MaxFalhas = 2
  MaxQuedas = 1
INVARIANTS TypeOK CheckpointCoberto ConclusaoCompleta RepeticaoSoPorQueda
PROPERTIES OutrosAnosFicam RetomadaConclui
