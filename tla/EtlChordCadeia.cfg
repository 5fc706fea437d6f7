SPECIFICATION FairSpec
CHECK_DEADLOCK FALSE
CONSTANTS
  NumFases = 3
  Chunks = {1, 2}
  ChunksDaFase <- ChunksLidos
  MaxExecucoes = 2
  MaxFalhas = 1
  MaxDuplicatas = 1
  MaxRetries = 1
INVARIANTS FasesEmOrdem CheckpointCoberto
PROPERTIES CadeiaConclui ImplementaPedido
