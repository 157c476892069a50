CONSTANTS
  x = x a = a b = b l1 = l1 l2 = l2
  fx = fx fa = fa fb = fb fv = fv ft = ft fn = fn ff = ff fd = fd
  n1 = n1 n2 = n2 t1 = t1 t2 = t2
  None = None
  Cell = {x, a, b}
  Literal = {l1, l2}
  Formula = {fx, fa, fb, fv, ft, fn, ff, fd}
  Names = {n1, n2}
  Tables = {t1, t2}
  Formats = {1, 2}
  VolatileInput = {1, 2}
  Semantics = {1, 2}
  EvalLimits = {1, 2}
  TableReader = {ft}
  FormatReader = {ff}
  VolatileReader = {fv}
  Dynamic = {fd}
  LocaleDynamic = {fd}
  TableNames = {}
  Selector <- MCSelector
  Resolve <- MCResolve
  Job = {j1, j2}
  j1 = j1 j2 = j2
  Batch <- MCBatch
  Options <- MCOptions
  BatchNames = {"bd"}
  OptionNames = {"base", "locale"}
  Layouts = {1, 2}
  InitialBook <- MCBook
  InitialLayout = 1
  MaxRevision = 1
  MaxPresentation = 2
  MaxCursor = 3
  MaxEvaluated = 3
  MaxDeltaCells = 3
  MaxRetained = 2
SPECIFICATION Spec
SYMMETRY JobSymmetry
INVARIANT InstalledTargetsAreCurrent
