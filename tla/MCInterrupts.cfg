SPECIFICATION Spec
CONSTANTS
  Devices = {0, 1, 8, 14}
  Address <- MCAddress
  GateCount = 256
  Exceptions = {0, 1, 3, 4, 5, 6, 7, 8, 10, 11, 12, 13, 14}
INVARIANTS VectorsApart ResumesMasked HandlerSeesFrame
PROPERTY DiesForGood
