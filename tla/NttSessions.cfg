\* Two fair threads, a ring with 8 coefficients (blocks of 4 and 2), two seeds.
CONSTANTS
  MaxBits = 3
  Pow2 <- MCPow2
  BitXor <- MCXor
  Zeta <- MCZeta
  InvF <- MCInvF
  OperandHat <- MCOperandHat
  Operand <- MCOperand
  Sessions = {t1, t2}
  Inputs <- OneInput
  Seeds <- TwoSeeds
  RoundKey <- MCRoundKey
  AtomicSeed = FALSE
  SeedAtStart <- DefaultSeed
SPECIFICATION FairSpec
INVARIANTS TypeOK RootMatchesBlock PartialBlock
PROPERTIES ImplementsOrdered Termination
CHECK_DEADLOCK FALSE
