CONSTANTS
  Configs <- MC_Configs
  Inputs <- MC_Inputs
  InitConfigs <- MC_InitConfigs
  None = None
SPECIFICATION Spec
INVARIANTS
  OutputInRange


