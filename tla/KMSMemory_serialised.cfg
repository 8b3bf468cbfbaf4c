\* Three users whose calls exclude each other.
CONSTANTS
    Users = {u1, u2, u3}
    Addrs = {a1, a2}
    MaxLeaked = 2
    Serialised = TRUE
    None = None
SPECIFICATION Spec
INVARIANTS
    TypeOK
    ViewsMapped
    RefsCountViews
PROPERTY
    MappingSpec
