SPECIFICATION Spec
CONSTANTS
    Agents = {1, 2}
    Causes <- MCCauses
    Words <- MCWords
    Signatures <- MCSignatures
    Redacted <- MCRedacted
    Signature <- MCSignature
    Keywords <- MCKeywords
    Matches <- MCMatches
    Resolutions = {"add a check", "ask for access"}
    MinSimilarity = 40
    Named = {"ENVIRONMENT"}
    Unclassified = Unclassified
    Open = Open
    NoRecord = NoRecord
    Nothing = Nothing
    Absent = Absent
    Empty = Empty
    Torn = Torn
    MaxCommands = 4
    MaxClears = 1
    MaxCrashes = 1
CHECK_DEADLOCK FALSE
INVARIANTS
    NothingInvented
    RemembersAll
    KnownFailureIsFound
