------------------------------ MODULE ImageCache ------------------------------
(***************************************************************************)
(* MemoryCache of lib/imageasset: the cache that resolver sessions share.  *)
(* Every operation holds the mutex from its first read to its last write,  *)
(* so the operations of all sessions form one sequence.                    *)
(***************************************************************************)
EXTENDS BoundedLRU

CONSTANTS
    Names,          \* the namespaced keys
    Images,         \* the resources
    Size,           \* Size[i]: encoded bytes of image i
    MaxImages,      \* maxEntries
    MaxImageBytes   \* maxBytes

VARIABLES
    recent,     \* entries, most recently used first
    held,       \* c.bytes
    newest      \* history: newest[n], what was last put for n

imageVars == <<recent, held, newest>>

Entries == [name : Names, image : Images]
SizeOf(e) == Size[e.image]

\* Mutant: the entry a new image replaces is not looked for.
AllOfThem(n) == recent

\* What remains when the entry for n is removed, if there is one.
Others(n) ==
    LET found == {k \in DOMAIN recent : recent[k].name = n}
    IN  IF found = {} THEN recent ELSE RemoveAt(recent, CHOOSE k \in found : TRUE)

TypeOK ==
    /\ Range(recent) \subseteq Entries
    /\ held \in Int
    /\ newest \in [Names -> SUBSET Images]

Init ==
    /\ recent = <<>>
    /\ held = 0
    /\ newest = [n \in Names |-> {}]

Get(n) ==
    /\ \E e \in Range(recent) : e.name = n /\ recent' = Touched(recent, e)
    /\ UNCHANGED <<held, newest>>

\* Mutant: the bytes of what is kept are forgotten.
RoomAlone(q, i) == Len(q) < MaxImages /\ Size[i] <= MaxImageBytes

\* There is room for i beside q, which is what is left of recent.
Room(q, i) ==
    /\ Len(q) < MaxImages
    /\ Size[i] <= MaxImageBytes - (held - Freed(recent, q, SizeOf))

\* What was cached for n goes first, also when the new image is too large to
\* be kept; then the back is evicted until both limits allow it.
Put(n, i) ==
    LET kept == EvictUntil(Others(n), LAMBDA q : Room(q, i))
    IN  /\ newest' = [newest EXCEPT ![n] = {i}]
        /\ IF Size[i] > MaxImageBytes
           THEN /\ recent' = Others(n)
                /\ held' = held - Freed(recent, Others(n), SizeOf)
           ELSE /\ recent' = <<[name |-> n, image |-> i]>> \o kept
                /\ held' = held - Freed(recent, kept, SizeOf) + Size[i]

Next == \E n \in Names : Get(n) \/ \E i \in Images : Put(n, i)

Spec == Init /\ [][Next]_imageVars

-----------------------------------------------------------------------------
(* Properties                                                              *)

\* Replacement and eviction keep the cache below both limits, and the byte
\* counter, which is only ever adjusted, does not drift from the contents.
ImagesBounded ==
    /\ Len(recent) <= MaxImages
    /\ held = Total(recent, SizeOf) /\ held <= MaxImageBytes

\* A lookup never returns an image that a later Put for its name replaced, not
\* even when the later one was too large to be cached.
NoStaleImage ==
    \A n \in Names : \A k, l \in 1..Len(recent) :
        /\ recent[k].name = n => newest[n] = {recent[k].image}
        /\ recent[k].name = recent[l].name => k = l

=============================================================================
