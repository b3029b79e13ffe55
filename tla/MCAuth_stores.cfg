SPECIFICATION AuthSpec
CONSTANTS
    Session = {1, 2}
    LegacySession = {1}
    Logouts = {l1}
    Reapers = {r1}
    Backfills = {b1}
    ReapBatch = 1
    SeedBatch = 1
    SessionCrashes = 1
    Token = {1, 2}
    LegacyToken = {1}
    Revokers = {v1, v2}
    TokenBackfills = {tb1, tb2}
    TokenBatch = 1
    Login = {g1}
    Browsers = {w1}
    NoToken = NoToken
    User = {1, 2}
    LegacyUser = {1}
    Account = {aa, ab}
    Profile = {xa, xb}
    OAuthLogins = {o1, o2}
    ProfileBackfills = {pb1, pb2}
    UserBatch = 1
    ProfileLog = 1
    Nothing = Nothing
INVARIANTS
    SessionHistoryOK
    NoExpiryAfterLogout
    CursorCoversSessions
    TokenHistoryOnce
    HandedOutOnce
    LatestFactIsTheRow
PROPERTIES
    ExpiredAreSwept
CHECK_DEADLOCK FALSE
