SPECIFICATION BulkSpec
CONSTANTS
  w1 = w1
  w2 = w2
  NoName = NoName
  NoArray = NoArray
  NoKey = NoKey
  CompName <- MCCompName
  FieldType <- MCFieldType
  ByteBuffer <- MCByteBuffer
  SizeOf <- MCSize
  AlignOf <- MCAlign
  Declarations <- MCDeclarations
  CsvFiles <- MCCsvFiles
  World <- MCWorld
  EntityId = {1, 2, 3, 5}
  Number <- MCNumber
  Width <- MCWidth
  Bundles <- MCBundles
  Batches <- MCBatches
  MaxMerge = 2
  MaxCalls = 4
SYMMETRY Worlds
CHECK_DEADLOCK FALSE
INVARIANTS
  BulkTypeOK
  LayoutSound
  ParentsAttached
  ReferencesFollow
PROPERTIES
  NoGhosts
  MergeCopiesAll
