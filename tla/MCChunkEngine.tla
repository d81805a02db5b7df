---------------------------- MODULE MCChunkEngine ----------------------------
EXTENDS ChunkEngine
==============================================================================
