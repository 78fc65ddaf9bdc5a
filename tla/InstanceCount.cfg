\* Three children beside the root: constructed, closed twice and dropped in
\* every order.
CONSTANTS
  Root = root
  Generators = {root, g1, g2, g3}
SPECIFICATION InstanceSpec
INVARIANTS
  CountAndPeakAreExact
PROPERTIES
  ImplementsHighWaterMark
