\* 21 words hold four smallest blocks; sizes below and above the smallest, one
\* that leaves too little to split, and one that takes most of the heap.
CONSTANTS
    mem_size_aligned = 21
    Sizes = {1, 5, 12}
    Clients = {c1, c2}
SYMMETRY MCSymmetry
SPECIFICATION Spec
INVARIANTS
    HeapSound
    RefusedWhenFull
PROPERTY ImplementsRegions
