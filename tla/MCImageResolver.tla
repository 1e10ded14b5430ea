--------------------------- MODULE MCImageResolver ---------------------------
EXTENDS ImageResolver

CONSTANTS a, b

\* Two resources fit, unless both are large.
MCCost == [small |-> [encoded |-> 1, decoded |-> 1],
           large |-> [encoded |-> 1, decoded |-> 2]]
MCLimit == [encoded |-> 2, decoded |-> 3]

=============================================================================
