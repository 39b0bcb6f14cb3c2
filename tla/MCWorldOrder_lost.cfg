CONSTANTS
  Keys = {0, 1, 2, 3, 4}
  Values = {7, 8}
  NoValue = NoValue
  NoPut = NoPut
  Hash <- MCHash
  InitialCapacity = 2
  Careless = {"growth after load"}
SPECIFICATION Spec
VIEW MCView
PROPERTY InsertedIsRetrieved
