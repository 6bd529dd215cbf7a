SPECIFICATION Spec
CHECK_DEADLOCK FALSE
CONSTANTS
    MAX_EXTENSION_SIZE = 40
    MAX_METADATA_ENTRIES = 2
    MAX_TEXT_VALUE = 1
    MAX_BYTES_VALUE = 2
    MAX_CONTENT_TYPE_LEN = 2
    MAX_PRODUCER_ID_LEN = 1
    MAX_TRACE_CONTEXT_LEN = 1
    MAX_KEY_LEN = 2
    MAX_PAYLOAD_LENGTH = 3
    MAX_EXTENSION_HEADER_LENGTH = 3
    WordBits = 5
    MaxAttempt = 7
    Subjects <- AllSubjects
    Queues = {1, 2}
    Dirs <- SomeDirs
    Bytes <- SomeBytes
INVARIANTS NamesSound FilesIntact NumbersExact
PROPERTIES DelaysGrow
