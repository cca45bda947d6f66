CONSTANTS
  Configs <- MC_WideConfigs
  Inputs <- MC_Inputs
  InitConfigs <- MC_InitConfigs
  None = None
SPECIFICATION Spec
INVARIANTS
  NoDivisionByZero


