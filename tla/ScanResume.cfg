SPECIFICATION Spec
CONSTANTS
    leaf = leaf
    caller = caller
    entry = entry
    Functions = {leaf, caller, entry}
    Callees <- ChainCallees
    LayerOf <- ChainLayers
    Selections <- ChainSelections
    Failures = {{"map", "row", "checkpoint", "explore"},
                {"checkpoint", "explore"}, {"checkpoint"}, {"unlink", "explore"}}
    Reverts = FALSE
    MaxRuns = 3
    MaxEdits = 1
INVARIANT MapsOfCurrentSource
PROPERTIES ScanAccounted ResumeSkips
