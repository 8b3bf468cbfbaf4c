\* Two users that map and unmap at the same time.
CONSTANTS
    Users = {u1, u2}
    Addrs = {a1, a2}
    MaxLeaked = 1
    Serialised = FALSE
    None = None
SPECIFICATION Spec
SYMMETRY Symmetry
INVARIANT
    ViewsMapped
