SPECIFICATION Spec
CONSTANTS
  t1 = t1 t2 = t2 m1 = m1 m2 = m2 m3 = m3
  MessageNew = MessageNew MessageAppend = MessageAppend FlagsSet = FlagsSet
  NULL = NULL
  Txns = {t1, t2}
  Msgs = {m1, m2, m3}
  TxnOf <- McTxnOf
  Events = {MessageNew, MessageAppend, FlagsSet}
  NeedsConfig = {MessageNew, MessageAppend}
INVARIANTS TellsWhatHappened TxnInv
SYMMETRY McSymmetry
