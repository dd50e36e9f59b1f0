\* The list, its memory and its waits; the queue it implements.
SPECIFICATION FairSpec
CONSTANTS
  a = a
  b = b
  p = p
  q = q
  r = r
  v = v
  w = w
  n1 = n1
  n2 = n2
  n3 = n3
  Pusher = {a, b}
  Popper = {p, q}
  TryPopper = {r}
  Value = {v, w}
  Node = {n1, n2, n3}
  NULL = NULL
  Empty = Empty
  Nobody = Nobody
INVARIANTS
  ListEndsAtTail
  NodesAreOwned
  NoWakeUpIsLost
  QueueInv
PROPERTIES
  ImplementsFifo
  HeadIsTaken
