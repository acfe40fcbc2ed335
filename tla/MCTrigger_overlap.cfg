SPECIFICATION Spec
CONSTANTS
  Ports = {p1, p2, p3}
  NoPort = p0
  TriggerPort = p2
  ParamsFail = FALSE
  Overlap = TRUE
  Polarities = {}
PROPERTIES TriggerPortArmed
