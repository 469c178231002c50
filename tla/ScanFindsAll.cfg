SPECIFICATION Spec
CONSTANTS
    Clients = {c1, c2}
    MAX_INDEX = 4
    SCAN_PAGE = 2
    NONCE_PAGE = 2
INVARIANTS
    ScanFindsAll
