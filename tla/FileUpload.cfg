\* Two workers, chunks of two bytes, files of up to five bytes: three chunks, the
\* last of them short, so that one is always read after another was collected.
\* Another process resizes the file at will.
SPECIFICATION FairSpec
CONSTANTS
    UPLOAD_THREAD_COUNT = 2
    UPLOAD_CHUNK_SIZE = 2
    MaxSize = 5
    FileMayChange = TRUE
INVARIANTS
    TypeOK
    SuccessIsComplete
    QuietAfterwards
    ProgressIsHonest
    NoByteForgotten
PROPERTIES
    ImplementsContract
    Terminates
CHECK_DEADLOCK FALSE
