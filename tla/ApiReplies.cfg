SPECIFICATION Spec
CONSTANTS
  alice = alice
  bob = bob
  ops = ops
  nameless = nameless
  pa = pa
  pb = pb
  Clients <- MCClients
  Roles <- MCRoles
  Claim <- MCClaim
  Providers <- MCProviders
  ExternalIds = {"x", "y"}
  Keys = {"k", "l"}
  Requests <- MCRequests
  Handlers = {h1, h2}
  MaxRetries = 1
  MaxPosts = 4
  NoRequest = NoRequest
  Nobody = Nobody
SYMMETRY Symmetry
INVARIANTS ProviderIsolation ConflictForGood VerdictForGood
CHECK_DEADLOCK FALSE
