SPECIFICATION FairSpec
CONSTANTS
    g1 = g1  g2 = g2
    alice = alice  bob = bob  viewer = viewer  agent = agent
    d1 = d1  d2 = d2  ingestor = ingestor  proxy = proxy  t1 = t1  t2 = t2
    Principals = {alice, bob, viewer, agent}
    RoleOf <- MCRoleOf
    Permitted <- MCPermitted
    DiagnosticActor = agent
    OperationActor = bob
    Devices = {d1, d2}
    Services = {ingestor, proxy}
    Texts = {t1, t2}
    DefaultService = ingestor
    PrefixOf <- MCPrefixOf
    Scripts <- MCScripts
    Evidence <- MCEvidence
    Granted = {g1, g2}
    GrantedFor <- MCGrantedFor
    Attempts = 2
    Remote = TRUE
    Ttl = 1
    None = None
INVARIANTS
    PendingIsUnique
    SuccessAnswerBacked
PROPERTIES
    ChatsEnd
CHECK_DEADLOCK FALSE
