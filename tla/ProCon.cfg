SPECIFICATION Spec
CONSTANTS
  Producers = {p1, p2}
  Consumers = {c1, c2}
  Items = {1, 2}
  BufferSize = 2
  Nobody = nobody
INVARIANTS TypeOK NobodyForgotten
PROPERTIES ImplementsQueue KeepsMoving
