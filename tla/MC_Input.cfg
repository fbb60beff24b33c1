SPECIFICATION PartSpec
CONSTANTS
  Parts = {"keyboard", "autostart", "events", "network"}
  Syms = {"b", "@", "restore"}
  Mods <- UsbMods
  RESTORE = "restore"
  keyconvmap <- Keymap
  LSHIFT = "L"
  RSHIFT = "R"
  vshift = "L"
  NONE = "none"
  Buttons <- PadButtons
  Joymaps <- Joys
  MAX_KEYS = 2
  Reports <- UsbReports
  Texts <- Words
  QUEUE_SIZE = 5
  buffer_size = 2
  Kinds = {"disk", "tap", "t64", "snapshot", "inject"}
  Load <- LoadText
  Run <- RunText
  HandleTde = {TRUE, FALSE}
  VirtualDevices = {TRUE, FALSE}
  MaxStarts = 3
  NoChar = "-"
  CLKGUARD_SUB_MIN = 4
  ClkMaxValue = 15
  ClkBase = 2
  Second = 3
  Frame = 2
  ResetClk = 1
  StartClks = {9}
  StartModes = {"FILE_SAVE", "RESET"}
  MaxInputs = 2
  MaxTime = 10
  Server = "S"
  Client = "C"
  Controls <- Shared
  Inputs = {"key", "joy1"}
  FrameDeltas = {1, 2, 3}
  StackBytes = {0, 1, 2}
  NUM_OF_TESTPACKETS = 2
  Failures = {"leave", "snapshot"}
  MaxFrames = 5
  MaxKeys = 1
INVARIANTS InputTypeOK KeysArrive TypedWhole SettingsGivenBack ReplayIsExact HostsAgree InputsCountOnce NeitherStalls
CHECK_DEADLOCK FALSE
