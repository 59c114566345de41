SPECIFICATION Spec
CONSTANTS
  MaxText = 4
  IntMax = 1023
INVARIANTS ConversionsAgree OperatorsAgree CallsAgree NumeralsAgree
CHECK_DEADLOCK FALSE
