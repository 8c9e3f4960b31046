CONSTANTS
    None = None
    AttributeNames <- MCNames
    DNs <- MCDNs
    Entries <- MCEntries
    Calls <- MCCalls
    attrs <- MCAttrs
    base_dn <- root
    Title <- MCTitle
SPECIFICATION RenderSpec
INVARIANTS
    TypeOK
    ReturnsTheWanted
    FragmentStandsAlone
    FieldsFaithful
    TableReadsBack
CHECK_DEADLOCK FALSE
