SPECIFICATION Spec
CONSTANTS
    Nodes = {n1, n2, n3, n4, n5}
    None = None
INVARIANTS
    LinksExact
