SPECIFICATION Spec
CONSTANTS
  Name = {n1, n2}
  Proc = {a}
  Files <- Tree
  Outside <- MCOutside
  Unmasked <- MCUnmasked
  Ignored <- MCIgnored
  Large <- MCLarge
  Gitignored <- MCUntracked
  Hidden <- MCHidden
  Builtin <- MCBuiltin
  NotUtf8 <- MCNotUtf8
  AddFlags <- MCFlags
  ContextDirs <- MCDirs
  Budgets <- MCAgain
  Nobody = Nobody
  Everywhere = Everywhere
  Pid = {p1, p2, p3}
  Port = {8181, 8282}
  Loopback = {8181}
  DaemonPort = 8181
  Cmd = {c1, c2}
  MaxStart = 4
  StartKnown = {TRUE, FALSE}
  Trouble = 1
SYMMETRY Symmetric
INVARIANTS NothingIsInherited
CHECK_DEADLOCK FALSE
