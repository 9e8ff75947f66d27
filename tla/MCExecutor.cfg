CONSTANTS
  Requests = {r1}
  Apps = {"kitty", "keepassxc", "pinentry-kitty", "gimp"}
  AllowListed = {"kitty", "pinentry-kitty"}
  DenyListed = {"keepassxc", "pinentry-kitty"}
  NoApp = NoApp
SPECIFICATION FairSpec
CHECK_DEADLOCK FALSE
INVARIANTS
  StartedOnce
  TouchedOnce
  ResultTrue
  RefusalIsFinal
PROPERTY
  EveryDispatchReturns
