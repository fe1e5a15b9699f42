\* A listed distance that no lookup finds.
SPECIFICATION Spec
CHECK_DEADLOCK FALSE
CONSTANTS
    Unstated = Unstated
    Units = {100, 500}
    Weight = {1000}
INVARIANT ListedDistanceIsUsed
