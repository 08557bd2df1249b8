SPECIFICATION Spec
CONSTANTS
    None = None  NoFile = NoFile  Malformed = Malformed  NoInput = NoInput  Dot = Dot
    Local = local  prod = prod  h1 = h1  bad = bad  ph = ph  dom = dom  url = url
    home = home  blog = blog  odd = odd
    Names = {local, prod}
    Hosts = {h1, bad, ph}
    SafeHosts = {h1, ph}
    Placeholder = ph
    Domains = {dom}
    Urls = {url}
    TypedSites = {blog, odd}
    Sites = {home, blog, odd}
    Slug <- MCSlug
    MaxProfiles = 2
    Dirs <- MCDirs
    DirName <- MCDirName
    EnvRemote = None
    MaxTrips = 1
    BrowseTrips = 1
    Typed <- MCTyped
    Edits <- MCEdits
    MaxQuery = 1
    Letters = {"e", "v", "z"}
    RowsOf = {4, 12}
    Starts <- MCStarts
    SiteEdits <- MCSiteEdits
    Signals = {"INT", "TERM"}
PROPERTY PersistsTheCandidate
CHECK_DEADLOCK FALSE
