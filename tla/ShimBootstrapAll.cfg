\* One task ID: started up to three times and deleted up to three times.
\* Subcommands run out, so the system may stop.
CONSTANTS
  Starts = {s1, s2, s3}
  Deletes = {d1, d2, d3}
  NoCmd = NoCmd
SPECIFICATION Spec
INVARIANTS
  TypeOK
  AddressServed
  DeleteEndsShim
PROPERTIES
  PidKeptWhileServing
CHECK_DEADLOCK FALSE
