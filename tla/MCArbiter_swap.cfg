SPECIFICATION ArbiterSpec
CONSTANTS
  Thread = {c1}
  Admin = {a1, a2}
  Revoker = {a1}
  Stopper = {s1}
  Token = {t1, t2}
  NoCaller = none
  ZeroToken = zero
  MaxGrant = 3
PROPERTIES
  NoSilentSwap
