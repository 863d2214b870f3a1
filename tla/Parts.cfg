SPECIFICATION PartsSpec
CONSTANTS
  Callers = {c1, c2}
  n1 = n1
  n2 = n2
  Nodes = {n1, n2}
  Edges <- TwoEdges
  Fields = {f1}
  Ops = {"insert_node", "update_node", "delete_node", "insert_edge", "update_edge", "delete_edge"}
  MaxCrashes = 1
  MaxDepth = 1
  Absent = Absent
  ColumnKinds <- Kinds
  RowData <- WholeRows
  Queries <- PlainQueries
  TypedQueries <- PagedQueries
  NoLimit = NoLimit
  MaxRows = 3
  Buckets = {"images", "faces", "tmp"}
  Indexes = {"face", "image"}
  MaxKey = 2
  MaxPages = 1
  PageSize = 1
SYMMETRY AnyCaller
INVARIANT EdgesWhole AnswersExact DeletesShown FacesPaired
