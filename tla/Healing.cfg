SPECIFICATION Spec
CONSTANTS
  Component = {"control_center"}
  Vm = {"web"}
INVARIANTS
  TrippedMeansTold
PROPERTIES
  NoSilentNeglect
  RecoveredBreakerCloses
