SPECIFICATION Spec
CONSTANTS
  s1 = s1
  s2 = s2
  r1 = r1
  symbol = symbol
  decision = decision
  another = another
  operator = operator
  second = second
  Orders = {s1, r1}
  BuyOrders = {s1, r1}
  StagedOrders = {s1}
  SymbolOf <- MCSymbolOf
  DecisionOf <- MCDecisionOf
  Replacement <- MCReplacement
  NoDecision = NoDecision
  NoOrder = NoOrder
  BrokerIds = {1, 2}
  NoBrokerId = 0
  UnitPrice = 2
  MaxQty = 2
  Procs = {operator, second}
  Commands <- MCTwoOperators
INVARIANTS LinkIntegrity NoPhantomFill FinalOrdersClosed ActiveBuysUnique
