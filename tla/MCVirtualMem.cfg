\* All three policies; a tick may strike during each access, any number between them.
SPECIFICATION FairSpec
CONSTANTS
  p1 = p1
  p2 = p2
  p3 = p3
  a = a
  b = b
  Page <- MCPage
  Value <- MCValue
  Zero = a
  NoAccess = NoAccess
  Program <- MCProgram
  MaxResident = 2
  AgeBits = 2
  TopBit = 2
  MaxTicks = 1
INVARIANTS
  TypeOK
  PolicyTracksResidents
  ChangesAreNoticed
PROPERTIES
  IsMemory
  VictimIsLeastRecent
  AccessesComplete
