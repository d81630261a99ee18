SPECIFICATION Spec
CONSTANTS
  n1 = n1
  n2 = n2
  Ids = {i, j}
  Sources <- HdfsAndMock
  Namespaces <- TwoNamespaces
  ServerLinks <- Nested
  Dirs <- OneDir
  MaxRequests = 4
  Names = {"a", "b"}
  LinkPaths <- OneLink
  MaxNodes = 3
  MaxObjects = 2
  MaxHandles = 2
  Files = {f, g}
  Readers = {r}
  Blocks = 2
  MaxVersion = 2
  MaxIds = 3
  MaxReads = 2
  Threads = {t1, t2}
  MaxTree = 2
  MaxOps = 2
  MaxDepth = 2
  MaxFaults = 1
INVARIANTS SourcesAreDisjoint LinksAreKept ClaimsAreSound ClientIsSound ReadsAreRight
PROPERTY AnswersAreTrue
SYMMETRY Alike
CHECK_DEADLOCK FALSE
