SPECIFICATION Spec
CONSTANTS
  a1 = a1
  a2 = a2
  a3 = a3
  i1 = i1
  i2 = i2
  i3 = i3
  p1 = p1
  p2 = p2
  k1 = k1
  r1 = r1
  r2 = r2
  r3 = r3
  std = std
  NoAccount = NoAccount
  NoIdent = NoIdent
  NoKey = NoKey
  Nobody = Nobody
  Accounts = {a1, a2, a3}
  Identities = {i1, i2, i3}
  Providers = {p1, p2}
  Buckets = {1, 2, 3}
  Classes = {std}
  Keys = {k1}
  Ident <- mcIdent
  ProviderOf <- mcProviderOf
  HomeBuckets <- mcHomeBuckets
  Weight <- mcWeight
  Requests = {r1, r2}
  Calls <- mcCalls
  MaxCalls = 2
  Unsteady = {a1}
SYMMETRY Symmetry
INVARIANTS
  TypeOK
  LoadMatchesLeases
  ClaimsHaveOwners
  OneElectorPerKey
  FollowersTrackClaim
  LeaseHonoursRequest
  RequireStaysWithOwner
