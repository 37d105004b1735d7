\* The account README.md promises, when createDB is cut short.
CONSTANTS
    admin = admin  alice = alice  bob = bob
    secret1 = secret1  secret2 = secret2  s1 = s1  s2 = s2
    Names = {admin, alice, bob}
    Admin = admin
    Passwords = {admin, secret1, secret2}
    Short = {admin}
    Default = admin
    Sessions = {s1}
    Nobody = nobody
    MaxUsers = 2
    MaxFailures = 2
SPECIFICATION Spec
INVARIANT DefaultAccountWorks
