\* Revocation with sessions in Redis.
SPECIFICATION Spec
CONSTANTS
    Request = {r1, r2}
    Id = {alice, bob}
    SSO = {bob}
    TTL = 1
    NoId = NoId
INVARIANTS
    RevokedStayRevoked
