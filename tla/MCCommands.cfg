SPECIFICATION Spec
CONSTANTS
    None = None  NoFile = NoFile  Malformed = Malformed
    Local = "local"  h1 = h1  h2 = h2  p1 = p1  p2 = p2  p3 = p3
    Procs = {p1, p2, p3}
    Names <- MCNames
    Hosts = {h1, h2}
    SafeHosts = {h1, h2}
    Domains = {}
    Urls = {}
    Sites <- MCSites
    Slug <- MCSlug
    MaxProfiles = 16
    Parts <- MCParts
    Root <- MCRoot
    Archives = {"a1", "a2", "a3", "a9", "b1", "b2", "b3", "b4"}
    PathOf <- MCPathOf
    Stamps <- MCStamps
    Releases <- MCReleases
    SafeDomains = {"d1", "d2"}
    ShellEnv <- MCShellEnv
    Paths = {"f", "g"}
    Versions <- MCVersions
    MaxEdits = 1
    Crowds <- MCCrowds
    SiteFiles <- MCSiteFiles
    Worlds <- MCWorlds
    Output <- MCOutput
INVARIANTS DoneAsAsked Undoable DoctorCleansUp
PROPERTY DryRunExact
CHECK_DEADLOCK FALSE
