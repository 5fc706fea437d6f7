SPECIFICATION Spec
CONSTANTS
  Lotes <- LotesCurtos
  LotesDosAnos <- LotesRecentes
  MaxFalhas = 1
  MaxQuedas = 0
INVARIANTS NenhumaTabelaPulada
