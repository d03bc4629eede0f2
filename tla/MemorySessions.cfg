\* Sessions in the memory of the process.
SPECIFICATION LiveSpec
CONSTANTS
    Request = {r1, r2}
    Id = {alice, bob}
    SSO = {bob}
    TTL = 1
    NoId = NoId
INVARIANTS
    RevokedStayRevoked
PROPERTIES
    CurrentSessionKept
    SignedOutEverywhere
    ExpiredAreReclaimed
