SPECIFICATION ProxySpec
CONSTANTS
  o1 = o1
  o2 = o2
  o3 = o3
  v1 = v1
  v2 = v2
  fun = fun
  p1 = p1
  NULL = NULL
  Objects <- SomeObjects
  Names <- TwoNames
  KindOf <- MixedKind
  Vals = {v1, v2}
  Funs = {fun}
  Proxies = {p1}
  Descs <- AllDescs
CONSTRAINT Small
CHECK_DEADLOCK FALSE
INVARIANTS TypeOK ChainsEnd PromisesHold
PROPERTIES NonConfigurableIsFixed NonExtensibleIsFixed ListedAreRestricted SetIsSeen
