---------------------------- MODULE MCHeapFrames ----------------------------
\* A small frame (here of one KiB, to keep the frames few), a frame that is no divisor
\* of a KiB and makes the first vector longer than START_FRAMES_SIZE, and a large
\* one; limits below, at and above the first size; an address space that is
\* reached by doubling.
EXTENDS HeapFrames

Frames == {1024, 2144, 7000}
Limits == {0, 1, 3, 20, 21, 22, 31, 50, 1000}
SizeMax == 98303
=============================================================================
