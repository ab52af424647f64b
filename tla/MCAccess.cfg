SPECIFICATION MCSpec
CONSTANTS
  c1 = c1
  c2 = c2
  Callers = {c1, c2}
  ChallengeIds = {1, 2}
  RecoveryCodes = {"r1", "r2"}
  SessionIds = {1, 2}
  maxAttempts = 2
  CodeTtl = 2
  ResendCooldown = 1
  StepUpTtl = 1
  IdleTtl = 1
  AbsoluteTtl = 2
  PendingTtl = 2
  WindowSize = 2
  WindowLimit = 4
  FreeFailures = 1
  MaxFailures = 3
  MaxSeeds = 2
  MaxClock = 2
  Horizon <- MCHorizon
  SignInScenes = {"codes", "factor", "passkeys", "setup", "members"}
  h1 = h1
  h2 = h2
  Hands = {h1, h2}
  ana = ana
  bob = bob
  Users = {ana, bob}
  Founder = ana
  InvitationIds = {1}
  RequestIds = {1, 2}
  GivenRoles = {"owner", "viewer"}
  Domains <- MCDomains
  AllowedDomains = {"shop"}
  MaxTime = 1
INVARIANTS GuessesAreBounded ProofIsSpentOnce CancelledIsFinal
SYMMETRY Sym
CHECK_DEADLOCK FALSE
