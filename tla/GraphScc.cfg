SPECIFICATION Spec
CONSTANTS
    Vertices = {1, 2, 3}
    Arcs <- AllArcs
    Paths = {}
    Distance <- UnitDistance
INVARIANT AllComponents
