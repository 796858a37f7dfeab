SPECIFICATION MCSpec
CONSTANTS
    Entries = 4
    Frames = 2
    Displays <- MCDisplays
    Target <- MCTarget
    Paths = 2
    Slack = 1
    FirstBuffer = 2
    MaxVersion = 6
    MaxWindows = 2
    App = {browser, explorerApp, installerApp}
    Browser = browser
    Explorer = explorerApp
    Installer = installerApp
    Icon = {icon}
    Nothing = Nothing
    MaxZ = 6
    RenderSlack = 2
    MaxHeight = 4
    Width = 800
    Height = 600
    Point <- MCPoint
    LaunchPlace <- MCLaunchPlace
    DockButton = 2
    DragPoint <- MCDragPoint
    Length <- MCLength
    MaxSessions = 8
    Pid = {0, 1}
    Kernel = 0
    MaxSessionId = 9
    Session0 <- MCSession0
    Session1 <- MCSession1
    Revoked = 40
    Word = 16
    Storage = 16
    Mode <- MCScreen
    GlyphW = 2
    GlyphH = 1
    BarW = 4
    BarH = 1
    Status = {0, 2}
    MaxDrawings = 2
    MaxNodes = 3
    MaxChildren = 2
    TitleH = 2
    Inset = 1
    RowH = 3
    RowStep = 4
    Gap = {1}
    Margin = {1}
    DomSize <- MCDomSize
    MaxCreated = 4
    Package = {p, q}
    Sectors = 3
    MaxProcesses = 10
    Protected = {7, 8}
    ClickY = {100, 351, 352, 379, 380, 416}
    MaxTermLines = 2
    MaxSaid = 5
    MaxStarts = 3
    MaxRequests = 3
    Window = {"a", "b"}
    Zone = {"left", "maximize"}
    MaxTopZ = 3
INVARIANT ButtonsAnswer
CHECK_DEADLOCK FALSE
