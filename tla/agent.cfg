SPECIFICATION Spec
CONSTANTS
  p = p
  q = q
  None = None
  Policies <- MCPolicies
  Behaviour <- MCBehaviour
  Looks = {1}
  MaxTriplets = 1
  MaxPreemptions = 2
  MaxErrors = 1
  MonitorWindow = 1
  MaxPlans = 1
  MaxControls = 2
  MaxRestarts = 1
INVARIANTS WithdrawnStaysOff BlamedForOwn ServesStanding
CHECK_DEADLOCK FALSE
SYMMETRY Symmetry
