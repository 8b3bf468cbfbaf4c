\* Answers with up to three allocators.
CONSTANT MaxOffers = 3
SPECIFICATION AllocationSpec
INVARIANT
    PoolGetsCompatible
