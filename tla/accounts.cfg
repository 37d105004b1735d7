\* Three names, two sessions; two statements of createDB fail or are cut short.
CONSTANTS
    admin = admin  alice = alice  bob = bob
    secret1 = secret1  secret2 = secret2  s1 = s1  s2 = s2
    Names = {admin, alice, bob}
    Admin = admin
    Passwords = {admin, secret1, secret2}
    Short = {admin}
    Default = admin
    Sessions = {s1, s2}
    Nobody = nobody
    MaxUsers = 3
    MaxFailures = 2
SPECIFICATION FairSpec
PROPERTIES ServesAgain
