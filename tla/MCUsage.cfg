SPECIFICATION FairSpec
CONSTANTS
    Chunk = {c1,c2,c3}
    MaxOps = 3
    MaxFailures = 1
INVARIANTS TypeOK EveryChunkInOnePlace ResetForgets
PROPERTIES BuffersAreFolded
