\* Crops of 24 pixels a side or none, at 0 or 16, as 26 and 17 are aligned,
\* and answers with up to four allocators.
CONSTANTS
    Positions = {17}
    Extents = {0, 26}
    Pictures <- MCPictures
    Outputs <- MCOutputs
    None = None
    MaxOffers = 4
SPECIFICATION NegotiationSpec
INVARIANTS
    NegotiationTypeOK
    PPAgrees
    CropFits
    CompatibleKept
    FilteredWhenApart
PROPERTIES
    SettingsKept
