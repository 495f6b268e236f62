SPECIFICATION Spec
CONSTANTS
  None = None
  Fillers <- MCFillers
  Negations <- MCNegations
  Motion <- MCMotion
  StemOf <- MCStemOf
  CompoundOf <- MCCompoundOf
  ContractionOf <- MCContractionOf
  Unhyphened <- MCUnhyphened
  NumberOf <- MCNumberOf
  MaxLength = 8
  Rules <- MCRules
  MaxBonus = 1
  ProductIds <- MCProductIds
  RendererOf <- MCRendererOf
  Reads <- MCReads
  CompositionReads <- MCCompositionReads
  Supplies <- MCSupplies
  Markers <- MCMarkers
  ReadOrder <- MCReadOrder
  Width <- MCWidth
  MaxIdentifier = 4
  DigestBytes = 1
  MarkBytes = 2
  NameOf <- MCNameOf
  ParamOrder <- MCParamOrder
  MaxServed <- MCMaxServed
  MaxDocument = 16
  MinElo = 1
  MaxElo = 4
  Trees <- ShippedTrees
  Readings <- MCReadings
  Facts <- MCFacts
  Spacing <- MCSpacing
  Edge = 1
  MaxTries = 2
  DefaultRating = 2
  AttemptCap = 1
  MaxRestarts = 1
INVARIANTS
  AnsweredIsMeasured
