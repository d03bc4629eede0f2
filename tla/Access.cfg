\* Two requests of the server, with logins, saves, restarts and --disable-auth.
SPECIFICATION Spec
CONSTANTS
    Request = {r1, r2}
    Key = {k1, k2}
    NoKey = NoKey
    Id = {s1, s2}
    Env <- AnyEnv
SYMMETRY Symmetry
INVARIANTS
    TypeOK
    DisabledSignsOut
PROPERTIES
    SsoIsConfigured
    NeverLockedOut
    KeySettles
    SeededOnce
