SPECIFICATION MCSpec
CONSTANTS
 Tabs = {t1, t2}
 Browsers = {b1, b2}
 MaxPairs = 3
 Life = 2
 MaxSecond = 2
 MaxSent = 3
 MaxLost = 1
 Calls = {c1, c2}
 Providers = {github}
 MaxIds = 2
 MaxTokens = 2
 MaxAttempts = 2
 MaxBegun = 5
 MaxBroken = 1
 Admin = 1
 Someone = 2
 Tenant = 3
 Secret = 4
 Public = 5
 Membership = 6
 Extra = {7, 8}
 Writer = {2}
 Job = {1, 2}
 MaxJobs = 4

SYMMETRY MCSymmetry
INVARIANT SignedOutStaysOut
 
INVARIANT RevocationExact
 
INVARIANT LockoutHolds
 
INVARIANT ContributionsSound
CHECK_DEADLOCK FALSE
