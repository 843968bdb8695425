CONSTANTS
  Readers = {r1}
  Writers = {w1, w2}
  NoUser = none
  PIPESIZE = 2
  CtrWidth = 2
  MaxRW = 2
  ConsReaders = {p1, p2}
  NoReader = none
  Plain = {"a", "b"}
  INPUT_BUF_SIZE = 2
  ConsWidth = 2
  MaxRead = 2
  NPROC = 4
  MaxChanges = 6
  HeapUnits = 9
  MinCore = 4
  HeaderSize = 2
  Requests = {0, 1, 4, 8}
  FSSIZE = 30
  LogBlocks = 2
  NINODES = 6
  IPB = 2
  BitsPerBlock = 25
  BlockBytes = 4
  DirectBlocks = 2
  EntriesPerBlock = 3
  DirentBytes = 2
  MaxFiles = 4
  FileLens = {0, 3, 9, 20, 21}
  Slots = {1, 2}
  KernelEnd = 3
  PHYSTOP = 38
  PGSIZE = 2
  Fanout = 3
  AddrBits = 6
  MaxGrow = 3
  Segments <- KSegments
  USERSTACK = 1
  MAXARG = 2
  UserPages = 3
  MaxCopy = 4
  Uint64 = 3
  Callers = {p1, p2}
  NoCaller = none
  NInodes = 4
  Names = {"a", "b"}
  Paths <- NsPaths
  Calls = {"mkdir", "mknod", "create", "open", "unlink", "link", "chdir", "close"}
  MaxCalls = 1
  Trees <- NsTrees
  Files = {p1, p2}
  NBlocks = 7
  BPB = 1
  BSIZE = 2
  NDIRECT = 2
  FILEOPBLOCKS = 10
  MaxWrites = 3
SPECIFICATION KSpec
INVARIANTS
  NobodySleepsOn
  SteadyOnce
  HeapSound
  ImageSound
  MemorySound
  UserCopies
  LinksCover
  ItableSound
  FileIsBytes
  BlocksExact
PROPERTIES
  ImplementsFifo
  ImplementsLine
