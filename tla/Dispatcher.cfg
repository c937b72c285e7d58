\* The loop with the messages of this code at their smallest and largest, and
\* messages of other implementations of up to 34 bytes.  The loop may end.
SPECIFICATION FairSpec
CONSTANTS
  NameLengths = {0, 3, 255}
  EroHops = {0, 32}
  RroHops = {0, 31, 32}
  ForeignLens = {7, 26, 34}
  ForeignTypes = {"PATH", "SREFRESH"}
  ForeignObjs <- MCForeignObjs
INVARIANTS
  TypeOK
  RoundTrip
  Inside
  ParseBounded
PROPERTIES
  Served
  StopActs
CHECK_DEADLOCK FALSE
