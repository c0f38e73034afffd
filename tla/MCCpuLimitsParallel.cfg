SPECIFICATION Spec
CONSTANTS
    r1 = r1
    r2 = r2
    r3 = r3
    Replicas = {r1, r2, r3}
    NoKey = NoKey
    Placeholder = Placeholder
    NoPoly = NoPoly
    MaxPolls = 2
    MaxDeaths = 1
    MaxExpiries = 1
SYMMETRY Symmetry
INVARIANTS OneBenchmark
