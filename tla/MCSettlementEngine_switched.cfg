SPECIFICATION Spec
CONSTANTS
  Wallet = {a, b}
  NoWallet = none
  Item = {i}
PROPERTY PromisedIsRetried
