SPECIFICATION Spec
CONSTANTS
  MaxStackItems = 1000
  Prime = 16381
  NibbleCount = 6
  HashRounds = 7
  RefutedLine = 123456
  LineValues = {0, 1, 16380}
  Kinds = {"Check1", "Decode1", "Small", "ListPick", "Decode24", "Decode32", "Decode256",
           "Decode256_4", "Check32", "_24", "_256", "_256_4", "_256_4_LP", "Path", "4To3", "Lamport",
           "ADDMOD", "SUBMOD", "MULMOD", "MOV", "EQUAL", "OR", "AND", "NOT", "ASSERTZERO",
           "WholeMov", "WholeMul", "FullMul", "Hash"}
INVARIANT TypeOK
INVARIANT Aligned
INVARIANT StackFits
 
INVARIANT ResultRight
INVARIANT OneTimeBinding
CHECK_DEADLOCK FALSE
