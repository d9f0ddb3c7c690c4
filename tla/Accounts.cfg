SPECIFICATION Spec
CONSTANTS
  Requests = {r1, r2}
  Passwords = {p1, p2}
  Random = Random
  NoPassword = NoPassword
  ResetLinks = {l1, l2}
  EmailLinks = {e1}
  Challenges = {c1}
  NoLink = NoLink
  Jtis = {j1, j2, j3}
  Steps <- TwoSteps
  Recovery = {rc}
  Hosted = FALSE
  Student = TRUE
  MaxVersion = 3
  MaxSecrets = 1
SYMMETRY Interchangeable
VIEW Distinguished
INVARIANTS
  
  OneUse
CHECK_DEADLOCK FALSE
