SPECIFICATION Spec
CONSTANTS
    Meta <- MCMeta
    Offers <- MCOffers
    CapabilityOrder <- MCCapabilityOrder
    Edges <- MCEdges
    Infinity = 100000
    Properties <- MCProperties
    Required <- MCRequired
    Listed <- MCListed
    Fixed <- MCFixed
    DemoFixed <- MCDemoFixed
    Located <- MCLocated
    RuntimeBound <- MCRuntimeBound
    ResourceFields <- MCResourceFields
    Suggests <- MCSuggests
    Reruns <- MCReruns
    Positional <- MCPositional
    Suffixed <- MCSuffixed
    NoName = "no name"
    Schemaless <- MCSchemaless
    Unfit = {"priority"}
    DraftNodes = 5
    MaxNodes = 4
    MaxEdges = 9
    Requests <- MCRequests
    Rankings <- MCRankings
    Additions <- MCAdditions
    Proposals <- MCProposals
CHECK_DEADLOCK FALSE
INVARIANTS
    PathIsBest
    BuiltInDraftsSound
    SavedPlanRunnable
    GovernedAsDiscovered
