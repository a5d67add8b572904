SPECIFICATION Spec
CONSTANTS
  NHart = 2
  Slices = 2
  SliceSteps = 1
  TickPeriod = 1
  BootSettle = 2
  PipeCap = 1
  NoHart = nobody
  Insns = {"wfi", "ipi", "sip", "msip", "timer", "start", "stop", "suspend", "uart", "device", "error", "reset"}
  HostEvents = {"stdin"}
INVARIANTS
  OneHartRuns
  
