SPECIFICATION FairSpec
CONSTANTS
  ByteBits <- MCByteBits
  ShortBits <- MCShortBits
  LongBits <- MCLongBits
  HdrLen <- MCHdrLen
  Keys = {"none", "right", "failing"}
  Archives <- MCArchives
  MaxRead = 4
  MaxFaults = 2
INVARIANTS
  TypeOK
  ContentExact
  SizeDelivered
  SparseExact
  PlaceExact
  SparseEndsComplete
  NothingLost
  AtFrame
PROPERTIES
  FilesEnd
  ImplementsContent
CHECK_DEADLOCK FALSE
