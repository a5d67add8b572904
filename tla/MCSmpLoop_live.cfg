SPECIFICATION FairSpec
CONSTANTS
  NHart = 2
  Slices = 1
  SliceSteps = 1
  TickPeriod = 1
  BootSettle = 2
  PipeCap = 1
  NoHart = nobody
  Insns = {"wfi", "ipi", "timer", "start"}
  HostEvents = {"time", "input", "close", "signal"}
PROPERTIES
  InterruptsDelivered
  HostHeard
