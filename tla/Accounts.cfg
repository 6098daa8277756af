SPECIFICATION FairSpec
CONSTANTS
    None = None
    Servers = {{ann}, {cleo}}
    Rows = {r1, r2}
    Founder = ann
    Clients = {c1}
    MaxChanges = 1
PROPERTIES
    BarredStayOut
    LastAdminStays
    SyncSettlesAccounts
    StraysAreSignedOut
