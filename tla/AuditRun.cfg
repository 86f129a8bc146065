SPECIFICATION Spec
CONSTANTS
    OWNER_MAP_PREFIXES <- BuiltIn
    NoOwner = NoOwner
    Sites <- MCSites
    PathOf <- MCPathOf
    ModuleOf <- MCModuleOf
    HintOf <- MCHintOf
    ZoneFiles <- MCZoneFiles
    OwnerFiles <- MCOwnerFiles
    CapOf <- MCCapOf
    MaxWorlds = 2
INVARIANTS QuietIsExact ManifestsAgree
PROPERTIES ReportIsJustified
CHECK_DEADLOCK FALSE
