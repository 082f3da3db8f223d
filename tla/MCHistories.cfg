SPECIFICATION Spec
CONSTANTS
  Chats = {h1, h2}
  Readers = {h1}
  Channels = {h2}
  MaxId = 3
  MaxRequests = 3
  MaxEntries = 1
INVARIANTS
  TypeOK
  PartsWaitForDeletion
  ReadingsGrow
  EntryIsAwaited
PROPERTIES
  EntryArrives
  ReadIsSent
CHECK_DEADLOCK FALSE
