CONSTANTS
  a = a  r = r  m = m  q = q  p = p  n1 = n1  n2 = n2
  MaxChunks = 3
  Attrs = {a, r, m, q}
  Hash <- MCHash
  InitialCapacity = 2
  FirstRoom = 3
  Nodes = {n1}
  MapKeys = {1}
  Offers <- MCOffers
  MaxSize = 4
  MaxRelation = 2
  NoChunk = NoChunk
  Nothing = Nothing
  Careless = {}
SPECIFICATION Spec
VIEW MCView
ACTION_CONSTRAINT MCShaped
INVARIANTS TypeOK EachAsGet
PROPERTY ImplementsAttributes
