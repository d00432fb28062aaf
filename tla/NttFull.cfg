\* One thread at a time, the ring of the code, extreme and small inputs.
CONSTANTS
  MaxBits = 8
  Pow2 <- MCPow2
  BitXor <- MCXor
  Zeta <- MCZeta
  InvF <- MCInvF
  OperandHat <- MCOperandHat
  Operand <- MCOperand
  Sessions = {t1}
  Inputs <- FewInputs
  Seeds <- ThreeSeeds
  RoundKey <- MCRoundKey
  AtomicSeed = FALSE
  SeedAtStart <- DefaultSeed
SPECIFICATION Spec
INVARIANTS CoefficientBound ForwardCorrect ProductCorrect
CHECK_DEADLOCK FALSE
