SPECIFICATION Spec
CONSTANTS
  Ports = {p1, p2, p3}
  NoPort = p0
  TriggerPort = p2
  ParamsFail = TRUE
  Overlap = FALSE
  Polarities = {"Falling", "Rising"}
INVARIANTS TypeOK DeviceFollowsMode SelectionHeld
PROPERTIES TriggerPortArmed OtherPortsKept ImplementsSetting
