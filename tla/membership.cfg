SPECIFICATION MembershipSpec
CONSTANTS
    u1 = u1
    u2 = u2
    u3 = u3
    Users = {u1, u2, u3}
    Founder = u1
    Requests = {q1, q2}
INVARIANTS MembershipInv OwnedUnlessRaced NoOrphanRows
SYMMETRY Symmetry
