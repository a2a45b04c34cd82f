SPECIFICATION Spec
CONSTANTS
  Tables = {nodes, links}
  Streams = {alerts}
  Depth = 2
  NameRetries = 1
  MaxOddities = 2
  v1 = v1
  v2 = v2
  gone = gone
  Vertices <- MCVertices
  Edges <- MCEdges
  Current <- MCCurrent
  Docs = {reading, outdated}
  CurrentDocs = {reading}
  Indexes = {runbooks, tickets}
  MaxMishaps = 2
  Schemas <- MCSchemas
INVARIANT SuccessLeavesCore
INVARIANT DefinitionResolves
PROPERTY DataSurvives
PROPERTY RerunsConverge
