SPECIFICATION MCSpec
CONSTANTS
    Region <- MCRegion
    TileDegrees = 2
    GoogleDegrees = 2
    MaxDepth = 1
    MaxResults = 1
    OsmPlace <- MCOsmPlace
    GooglePlace <- MCGooglePlace
    At <- MCAt
    LotOf <- MCLotOf
    OwnedLot <- MCOwnedLot
    OsmTags <- MCOsmTags
    Listing <- MCListing
    BatchSize = 2
    Attempts = 2
    MaxEvent = 2
    None = None
CHECK_DEADLOCK FALSE
INVARIANTS
  GoogleWins
  OneFacilityPerLot
PROPERTIES
  WholeRegionLanded
  SweepEnds
