SPECIFICATION FairSpec
CONSTANTS
  Dominios <- Todos
  Filtros <- FiltrosMC
  MaxMudancas = 1
  MaxImprevistos = 1
INVARIANTS SemDuplicata HashComLinha FasesCumpridas
PROPERTIES SoAPropriaFaseApaga Converge
