CONSTANTS
    v1 = v1
    v2 = v2
    t1 = t1
    codex = codex
    None = None
    Versions = {v1, v2}
    Tasks = {t1}
    Overtaken = {"uninstall"}
    MaxMishaps = 2
    Platforms = {codex}
    Latest = v2
    Fingerprints <- Known
    MaxTroubles = 2
SPECIFICATION NFairSpec
CHECK_DEADLOCK FALSE
INVARIANTS
    VersionsAgree
    RecordsKept
    OwnedByReceipt
PROPERTIES
    UpdateToldTrue
    MigratedUnderJournal
    JournalSettles
