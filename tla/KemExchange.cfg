\* Keys, encapsulation and decapsulation by every combination of implementations.
CONSTANTS
  N = 8
  K = 2
  ShuffleKeys <- MCKeys
  BitXor <- MCXor
  HashH <- MCHashH
  HashG <- MCHashG
  Rkprf <- MCRkprf
  Prf <- MCPrf
  Uniform <- MCUniform
  Coins <- MCCoins
  Zs = {5}
  Secrets = {7}
SPECIFICATION Spec
INVARIANTS KeyIsTextbook CiphertextIsTextbook SecretsAgree
CHECK_DEADLOCK FALSE
