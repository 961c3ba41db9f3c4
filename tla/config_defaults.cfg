SPECIFICATION FairConfigSpec
CONSTANTS
    u1 = u1
    u2 = u2
    s1 = s1
    s2 = s2
    Users = {u1, u2}
    Strangers = {}
    UserItems <- MCAddressOnly
    MaxLidars = 2
    MaxInfo <- MCOnce
    Followed <- MCUnfollowed
    MaxFailures = 0
PROPERTIES
    DefaultsSuffice
CHECK_DEADLOCK TRUE
