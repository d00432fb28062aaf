\* Bytes with three values, any three faults.
CONSTANTS
  Base = 3
  Byte <- MCByte
  MsgIdx <- One
  HpkIdx <- Two
  KeyIdx <- One
  CoinIdx <- Two
  CtIdx <- OneTwo
  Hpk <- MCHpk
  Enc <- MCEnc
  Dec <- MCDec
  G <- MCG
  Reject <- MCReject
  Received <- EveryCiphertext
  MaxFaults = 3
SPECIFICATION Spec
INVARIANTS TypeOK VotesMask AcceptsDecryptedOnly Agreement
PROPERTIES ImplementsDecaps
CHECK_DEADLOCK FALSE
