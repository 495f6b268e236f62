CONSTANTS
  Records <- MCRecords
  Kind <- MCKind
  At <- MCAt
  Listing <- MCListing
  MaxMoment = 8
  Windows <- MCWindows
  Marking <- MCMarking
  Plain = {"U", "U//PR"}
  Sensor <- MCSensor
  CatalogueShaped = {"12345"}
  FirstResultCap = 3
  MinSlice = 1
  MaxSliceDepth = 1
  PageSize = 2
  ServicePage = 2
  CatalogueNumbers = {4}
  None = None
SPECIFICATION Spec
PROPERTY GapsReachTheFile
