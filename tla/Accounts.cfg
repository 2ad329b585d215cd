\* Two threads and two addresses: every race of two requests.  One session per
\* user with three tokens: a refresh of a refresh; one rotation of the keys.
CONSTANTS
    Email = {e1, e2}
    Subject = {x1, x2}
    Key = {k1, k2}
    Thread = {t1, t2}
    Invite = {i1}
    Nobody = Nobody
    MaxSessions = 1
    MaxTokens = 3
    MaxRotations = 1
SYMMETRY Interchangeable
SPECIFICATION Spec
INVARIANTS
    LogoutIsFinal
    AcceptedTokensAreCurrent
    InvitesAreSingleUse
    SignInsAgree
CHECK_DEADLOCK FALSE
