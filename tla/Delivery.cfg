SPECIFICATION DeliveryFairSpec
CONSTANTS
  Conns = {c1}
  MaxLen = 2
  Count = 2
  MaxEvent = 5
  Messages = {m1, m2}
  NoMessage = nomessage
INVARIANTS InOrder Learns
PROPERTY Delivered
