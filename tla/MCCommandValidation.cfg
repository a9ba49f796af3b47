SPECIFICATION Spec
CONSTANTS
    Characters = {"a", "b", "*"}
    Entries <- MCEntries
    AllowLists <- MCAllowLists
    Commands <- MCCommands
    MaxDenied = 2
INVARIANTS
    TypeOK
    TrieMeansItsEntries
    AbbreviationIsDenied
    PipeAllowsNoMore
PROPERTY NewEntryOnlyDenies
\* The list of deny entries ends.
CHECK_DEADLOCK FALSE
