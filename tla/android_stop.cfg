\* One tap on Start, one on Stop, at any time.
SPECIFICATION AndroidSpec
CONSTANT MaxTaps = 1
INVARIANT PortReleased
CHECK_DEADLOCK FALSE
