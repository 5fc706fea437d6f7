SPECIFICATION FairSpec
CONSTANTS
  Chaves = {k1}
  Versoes = {1, 2}
  Escritores = {a, b}
  Motores = {"base", "professores"}
  MaxMudancas = 2
  MaxImprevistos = 1
INVARIANTS HashFiel LoteSincronizado
PROPERTIES Converge
