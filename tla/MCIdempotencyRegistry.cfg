SPECIFICATION FairSpec
CONSTANTS
  c1 = c1
  c2 = c2
  c3 = c3
  c4 = c4
  k1 = k1
  k2 = k2
  NoCall = NoCall
  Calls <- MCCalls
  Keys <- MCKeys
  KeyOf <- MCKeyOf
  MaxRestarts = 1
INVARIANTS
  TypeOK
  FailureNotKept
  AnswersAreComputed
  MemoryComputesOnce
PROPERTY CallsReturn
CHECK_DEADLOCK FALSE
