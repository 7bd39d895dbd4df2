CONSTANTS
    Vendors <- MCVendors
    LineTotal <- MCLineTotal
    Asked = {"confirmed", "processing", "cancelled"}
    Req = {r1, r2}
SPECIFICATION FairSpec
PROPERTY RequestsEnd
