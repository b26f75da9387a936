SPECIFICATION Spec
CONSTANTS
  e1 = e1
  e2 = e2
  e3 = e3
  e4 = e4
  k1 = k1
  k2 = k2
  k3 = k3
  k4 = k4
  s1 = s1
  s2 = s2
  None = None
  Workers = {w1, w2}
  Events = {e1, e2, e3, e4}
  Sources = {s1, s2}
  Keys = {k1, k2, k3, k4}
  Source <- MCSource
  Key <- MCKey
  Fields <- MCFields
  SourceConfig <- MCConfigs
  DedupBurst = 2
  Batching = FALSE
  Filters <- MCFilters
  Gvr <- MCGvr
  AllowedGVRs <- MCAllowedGVRs
  DeniedGVRs <- MCDeniedGVRs
  AllowedNamespaces <- MCAllowedNamespaces
  Namespaces = {"", "default", "other"}
  HookNamespaces <- MCHookNamespaces
  MaxWindows = 1
  MaxRefills = 1
SYMMETRY Symmetry
INVARIANTS
  OneObservationPerWindow
  FilterRespected
  DuplicateHasOriginal
  WritesPermitted
  MetricsAgree
  RateLimitHolds
