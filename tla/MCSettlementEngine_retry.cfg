SPECIFICATION Spec
CONSTANTS
  Wallet = {a, b}
  NoWallet = none
  Item = {i}
INVARIANT BackoffIsPursued
INVARIANT OneRetry
PROPERTY RetryComes
