SPECIFICATION MCSpec
CONSTANTS
  Procs = {p, q}
  Artefacts <- MCArtefacts
  Contracts <- MCContracts
  WellFormed <- MCContracts
  SameHeader <- MCSameHeader
  Buildable <- MCBuildable
  AcceptedContract = "draft4"
  Schemas = {"draft4", "other"}
  AcceptedSchema = "draft4"
  Narratives = {"prose", "override"}
  Prose = {"prose"}
  Tools = {t1, t2}
  Strays = {"notes/"}
  MaxEdits = 2
  Universe <- MCUniverse
  AtomType <- MCAtomType
  Definitions <- MCDefinitions
  MaxCombinations = 6
SYMMETRY Symmetry
CONSTRAINT Bound
INVARIANTS
  Provenance
  NoSilentMix
  SubjectIrIsComplete
  SubjectTypeIsExact
PROPERTIES
  CleanMeansCurrent
  GenerateRepairs
