CONSTANTS
    Users = {u1, u2}
    Founder = u1
    Robot = sa
    RobotRoles = {"tenant-admin"}
    KeyIds = {k1, k2, k3}
    Req = {r1}
SPECIFICATION Spec
SYMMETRY Symmetry
INVARIANTS
    AdministratorStays OwnerStays MembershipSound
CHECK_DEADLOCK FALSE
