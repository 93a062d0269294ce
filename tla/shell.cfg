SPECIFICATION Spec
CONSTANTS
  Lines <- CommandLines
  Literals <- DictTexts
  Index <- IndexTexts
  BadKeys <- OddKeys
  BadValues <- OddValues
  Cpus = {0, 1}
  Fails = TRUE
  MaxLines = 5
INVARIANTS ActionsConserved TransactionWhole ArgumentsKept CpuConfirmed
CHECK_DEADLOCK FALSE
