\* A file of three bytes or fewer that may shrink while it is read.
SPECIFICATION FairSpec
CONSTANTS
    UPLOAD_THREAD_COUNT = 2
    UPLOAD_CHUNK_SIZE = 2
    MaxSize = 3
    FileMayChange = TRUE
PROPERTIES
    AlwaysTerminates
CHECK_DEADLOCK FALSE
