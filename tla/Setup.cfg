SPECIFICATION MCSpec
CONSTANTS
    k1 = k1
    k2 = k2
    k3 = k3
    b1 = b1
    b2 = b2
    c1 = c1
    c2 = c2
    ann = ann
    cleo = cleo
    home = home
    away = away
    None = None
    Codes = {k1, k2, k3}
    Tabs = {b1, b2}
    Accounts = {ann, cleo}
    Admins = {ann}
    Home <- MCHome
    Clients = {c1, c2}
    SetupLifetime = 1
    MaxTime = 1
    Addresses = {home, away}
    Keyless = {away}
    p1 = p1
    p2 = p2
    s1 = s1
    s2 = s2
    ApiKeys = {p1, p2}
    MeantFor <- MCMeantFor
    ServerRuns = {s1, s2}
    Releases = {1, 2}
    Kept = 1
    MaxBoots = 3
    MaxWrites = 1
    MaxStamp = 2
    Urls = {"https://box", "https://relay"}
    Hosts = {"box", "relay", "127.0.0.1"}
    HostOf <- MCHostOf
    Via <- MCVia
    Literals = {"127.0.0.1"}
    NameSets <- MCNameSets
    Changes = {1, 2}
    MaxPending = 1
    NonceLifetime = 1
    MaxNonces = 3
    LastTick = 1
    Machines = {"phone", "laptop", "proxy"}
    Trusted = {"proxy"}
    Local = {"proxy", "laptop"}
    Loopback = {"proxy"}
    BucketOf <- MCBucketOf
    Asked = {"box"}
    Ours = {"box"}
    MaxHops = 3
    MaxClaims = 2
    MaxWarned = 1
    Interval = 1
SYMMETRY Symmetry
INVARIANTS
    CodeFileTellsTheTruth
    SecretsStayAtTheirAddress
    StoredAddressesAreOurs
    OnlyTrustedHopsAreBelieved
PROPERTIES
    OnlyTheNewestClaimCompletes
    StartsAreSafe
CHECK_DEADLOCK FALSE
