SPECIFICATION Spec
CONSTANTS
    Languages = {"zh-CN", "en"}
    Chinese = "zh-CN"
    SystemLanguage = "en"
    MaxVersion = 3
    Recordable <- MCRecordable
    MaxRows = 3
    MaxFaults = 1
    MaxTabs <- MCMaxTabs
    MaxTabRows = 2
    StripWidths = {1, 2}
    Widths = {w1, w2}
    Drafts <- MCDrafts
    NewDraft = plain
    Malformed <- MCMalformed
    Commands <- MCCommands
    Environments = {e1, e2}
    Hosts = {h1, h2}
    DraftHost <- MCDraftHost
    None = None
    plain = plain
    broken = broken
    elsewhere = elsewhere
    unparsable = unparsable
    h1 = h1
    h2 = h2
CHECK_DEADLOCK FALSE
INVARIANTS
  PanelsFollow
  InstallsTheOffer
  ImportedOnce
PROPERTIES
  ActiveIsRevealed
  RunSendsTarget
