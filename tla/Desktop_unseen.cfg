SPECIFICATION DesktopSpec
CONSTANTS
    MaxWindows = 1
    App = {browser, installerApp}
    Browser = browser
    Explorer = installerApp
    Installer = installerApp
    Icon = {icon}
    Nothing = Nothing
    RenderSlack = 16
    MaxZ = 20
INVARIANT WindowsAreDrawn
CHECK_DEADLOCK FALSE
