CONSTANT Capacity <- MCCapacity
SPECIFICATION Spec
INVARIANTS TypeOK WellLinked
PROPERTY ImplementsLruQueue
