\* Two destinations and a label compete for three slots, so that routes are
\* cached twice and the cache is full.
SPECIFICATION Spec
CONSTANTS
  Labels = {16}
  Dests = {1, 2}
  Routes = {r1, r2}
  MAX_MPLS_ROUTES = 3
  None = None
SYMMETRY RouteSymmetry
INVARIANT
  ShowAgrees
PROPERTY
  NoInterference
