SPECIFICATION Spec
CONSTANTS
    browser = browser
    bot = bot
    ip1 = ip1
    ip2 = ip2
    Slots = {r1, r2}
    Clients = {browser, bot}
    IPs = {ip1, ip2}
    Peer <- MCPeer
    Forwarded <- MCForwarded
    Configs <- MCConfigs
    Cookies = {browser}
    Pages <- MCPages
    RuleSets <- MCRuleSets
    GuardVerdicts = {"none", "rate-limit"}
    BlockThreshold = 2
    MayPanic = TRUE
    MaxSids = 1
SYMMETRY SlotSymmetry
INVARIANTS
    TypeOK
    ForwardedRightfully
    AbuseRulesEnforced
    ChallengeStrikesBounded
    GreylistHolds
PROPERTIES
    BlockHolds
