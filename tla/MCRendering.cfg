SPECIFICATION FocusSpec
CONSTANTS
  Off = Off
  k1 = k1
  k2 = k2
  k3 = k3
  r1 = r1
  r2 = r2
  Lights = {k1, k2, k3}
  Requests = {r1, r2}
  Ttl = 1
  MaxRevision = 2
PROPERTIES
  NoProtectedDispatch
  DispatchAttributed
