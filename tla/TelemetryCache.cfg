CONSTANTS
  Pollers = {bg, fg}
  Background = bg
  Patchers = {q1}
  MaxReads = 2
SPECIFICATION Spec
INVARIANTS LiveHonest NoPromotion
PROPERTY LastValuesKept
