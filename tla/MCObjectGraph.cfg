CONSTANTS
    a = a
    b = b
    c = c
    offshoot = offshoot
    OIDs = {a, b, c}
    Labels = {offshoot}
    Linkable <- AnyLinkable
SPECIFICATION Spec
INVARIANTS
    TypeOK
    EdgesPaired
    OneDeclarer
    OwnedIsDeclared
PROPERTIES
    UpdateIsLocal
