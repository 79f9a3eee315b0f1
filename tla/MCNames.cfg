\* Two connections and more names than one connection may hold: the limit, and
\* departures that release several names in one step.
SPECIFICATION Spec
CHECK_DEADLOCK FALSE
CONSTANTS
    Names = {n1, n2, n3}
    MaxId = 2
    MaxNames = 2
INVARIANTS
    HoldersAreLive
    NamesWithinLimit
PROPERTIES
    ChangesAreExact
