SPECIFICATION Spec
CONSTANTS
  one = one
  oneToo = oneToo
  two = two
  Ask = {m1}
  Alias <- MCAlias
  SessionOf <- MCSessionOf
  None = None
INVARIANTS
  TypeOK
  OneWorker
  SettledLeavesBoard
  InjectedOnce
