SPECIFICATION SSpec
CHECK_DEADLOCK FALSE
CONSTANTS
    Adapters = {"codex", "hermes"}
    Commands = {"opencode", "codex_exec", "claude", "hermes_chat"}
    Sdks = {"claude_sdk"}
    MaxAsks = 2
    MaxFaults = 2
    MaxEvents = 4
INVARIANTS
    EarnedInSession
    NoWriterInSession
    OneElevation
PROPERTIES
    RunEnds
