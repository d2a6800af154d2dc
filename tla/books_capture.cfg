SPECIFICATION Spec
CONSTANTS
    Sources <- MCSources
    Company <- MCCompany
    Capabilities <- MCCapabilities
    FileSources = {"files"}
    Files <- MCFiles
    Uploads <- MCUploads
    Requests = {r1, r2}
    Forms <- MCForms
    Labels = {"a", "b"}
    NoLabel = "none"
    MaxRows = 3
    MaxArrivals = 4
SYMMETRY Symmetry
INVARIANTS
    OneAnswerPerKey
    ReferencesStayInCompany
    ImportedOnce
    BatchesTellTheTruth
    PartyDocumentOnce
CHECK_DEADLOCK FALSE
