SPECIFICATION Spec
CONSTANTS
  InodeCount = 12
  FileSizeBytes = 5
  NameDigits = 1
  Names <- MCNames
  Offsets = {0, 4, 5, 7}
  Lengths = {0, 2, 3}
  Rooms = {1, 4, 20}
  Injected = {"EIO", "EAGAIN"}
  MaxFailures = 1
INVARIANTS
  TypeOK
  ScanIsExact
  NamesResolve
  ReadIsExact
  ChargedAsServed
