CONSTANTS
  Configs <- AllConfigs
  Payloads = {0, 1, 12, 44, 255}
  ResetBytes = {0, 255}
SPECIFICATION Spec
INVARIANT FullPowerIs20
