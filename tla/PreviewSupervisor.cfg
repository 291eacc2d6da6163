SPECIFICATION PreviewFairSpec
CONSTANTS
    Flows = {flowA, flowB}
    Domains = {local, remote}
    None = None
    Children = {c1, c2, c3}
    DomainId = local
    StaticFlow = flowA
INVARIANTS
    PreviewTypeOK
    OnlyTheChildRuns
    NeverStaleFrame
    StatusTruthful
PROPERTIES
    EventsChain
    ImplementsPreview
    PreviewFollows
