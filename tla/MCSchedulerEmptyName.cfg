CONSTANTS
    a = a
    b = b
    c = c
    d = d
    Name <- Job4
    NoName = a
    Pipelines <- LivePipelines
SPECIFICATION Spec
INVARIANTS
    FailureStopsDescendants
