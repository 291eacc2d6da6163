SPECIFICATION CatalogSpec
CONSTANTS
    Catalogs <- MCCatalogs
    Charts <- MCCharts
INVARIANTS
    GreenIffRight
    EachFaultNamed
    AggregateRight
CHECK_DEADLOCK FALSE
