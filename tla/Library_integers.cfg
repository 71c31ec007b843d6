SPECIFICATION LibrarySpec
CONSTANTS
  Capacity = 6
  Aligns = {1, 2, 4}
  MaxBlocks = 3
  IntMax = 127
  EncodedLen = 3
  FloatDigits = 3
  FloatExp = 3
  SizeofObject = 2
  SizeofKV = 3
  MaxDepth = 3
  MaxSubobjects = 8
  Objs <- MCWideObjs
  Capacities = {0, 4, 60}
  Texts <- MCTexts
  Beyond = {0, 55}
  Spaces = {3, 60}
  Binaries <- MCBinaries
  Base64Texts <- MCBase64Texts
  UintMax = 15
  Bases = {1, 3, 5, 15}
  Maxima = {1, 2, 6, 7, 8, 15}
  Attempts = {0, 1, 2, 3}
  MaxFailures = 5
  IntBytes = 1
  HeaderBytes <- MCHeaderBytes
  HeaderLists <- MCHeaderLists
  Openers = {t1, t2}
  Nobody = nobody
  LongName = "long"
  OpenPaths <- MCOpenPaths
  Others <- MCOthers
  ContentMax = 1
  FileSizes = {1, 2}
SYMMETRY OpenerSymmetry
INVARIANT JsonRoundTrip
