SPECIFICATION Spec
CONSTANTS
  Snippets <- MCSnippets
  AssemblyPlans <- MCAssemblyPlans
  GeneratedPlans <- MCGeneratedPlans
  Projects <- MCProjects
  Proposals <- MCProposals
  Documented <- MCDocumented
  Repeated <- MCRepeated
  MaxCache = 2
  MaxFixAttempts = 3
  MaxMishaps = 2
  Requests = {r1}
  MaxDiagramAttempts = 3
  MaxWrong = 1
  MaxTasks = 3
INVARIANTS
  TypeOK
  AddressesDistinct
  ResolvedWithItsDesign
  LayerOrder
  ImportsWired
  PredefinedPlansMerge
  BestKept
  CacheSound
PROPERTIES
  FixesReachTheirLayer
  SectionsAnnounced
  DiagramFlag
  GenerationEnds
  DocsEnd
CHECK_DEADLOCK FALSE
