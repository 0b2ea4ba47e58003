SPECIFICATION FairSpec
CONSTANTS
  Key = {k1, k2}
  Confs <- EveryConf
  MaxCount = 2
INVARIANTS TypeOK NoUseAfterFree ReaderFdOpen CrashCauses NothingUncounted LoopEchoes
PROPERTIES ShutdownCompletes FurtherSignalStops
CHECK_DEADLOCK FALSE
