SPECIFICATION SqliteSpec
CONSTANTS
    Event <- MCSqliteEvent
    File <- MCFile
    DeleteFilter <- MCDeleteFilter
    QueryFilter <- MCSqliteFilter
    EVENTS_QUERY_LIMIT = 3
    process_nip09 = TRUE
    process_nip62 = TRUE
INVARIANTS
    TablesAgree
PROPERTIES
    OnlyOwnDeletes
