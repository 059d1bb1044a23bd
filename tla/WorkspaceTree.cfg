\* The root and one directory, two scopes, two requests at a time.
CONSTANTS
    Directories = {"", "d"}
    Scopes = {"", "s"}
    MaxCalls = 2
SPECIFICATION TreeSpec
INVARIANTS BadgesFollowActiveScope SettledPanelIsComplete
