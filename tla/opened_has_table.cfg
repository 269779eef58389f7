CONSTANTS
  MaxRows = 1
  MaxFaults = 1
SPECIFICATION UplinkSpec
PROPERTY OpenedHasTable
