---------------------------- MODULE RenderSession ----------------------------
(***************************************************************************)
(* A render session of d2renderers/d2raster (session.go), shared by        *)
(* concurrent renders.  A render first needs the content key of an asset,  *)
(* memoized by the asset's identity in its document, then the parsed or    *)
(* decoded asset, cached by content key.  Both tables work alike: a hit, a *)
(* flight of another render to wait for, or a load slot and a second look  *)
(* before a flight of one's own.  They share the slots and the byte limit. *)
(***************************************************************************)
EXTENDS BoundedLRU, FiniteSets

CONSTANTS
    Renders,        \* concurrent callers
    Identities,     \* assetMemoIdentity of the assets they draw
    Keys,           \* assetCacheKey
    KeyOf,          \* KeyOf[i]: the key that hashing i's bytes gives
    Charge,         \* Charge[x]: what an entry for x is charged with
    MaxCacheEntries, MaxCacheBytes,
    LoadLimits,     \* the MaxConcurrentLoads a session may be created with
    MaxCalls        \* bound: assets asked for

Items == Identities \cup Keys
Tables == {"memo", "asset"}
NoItem == "no item"
NoRender == "no render"

ASSUME ItemAssumption ==
    Identities \cap Keys = {} /\ NoItem \notin Items /\ NoRender \notin Renders
ASSUME ChargeAssumption ==
    KeyOf \in [Identities -> Keys] /\ Charge \in [Items -> Nat]
ASSUME LimitAssumption ==
    /\ {MaxCacheEntries, MaxCacheBytes} \subseteq Nat \ {0}
    /\ LoadLimits \subseteq Nat \ {0} /\ MaxCalls \in Nat

VARIABLES
    at,         \* at[r]: where r stands, "idle" outside
    item,       \* item[r]: what r looks up now, an identity and then its key
    cancelled,  \* renders whose context is done
    owner,      \* owner[r]: the render whose flight r waits for
    told,       \* told[r]: how the flight r owns or waits for has ended
    flight,     \* flight[x]: the owner of the flight for x
    slots,      \* renders that hold a load slot
    lru,        \* lru[t]: s.memoLRU and s.lru, the tables being their elements
    bytes,      \* bytes[t]: s.memoBytes and s.bytes
    failed,     \* failed[r]: how r's last call failed, if it did
    maxLoads,   \* cap(s.loadSlots)
    calls

callVars == <<at, item, cancelled, owner, told, failed>>
cacheVars == <<lru, bytes>>
limitVars == <<maxLoads, calls>>
vars == <<callVars, flight, slots, cacheVars, limitVars>>

TableOf(x) == IF x \in Identities THEN "memo" ELSE "asset"
Cached(x) == x \in Range(lru[TableOf(x)])
ChargeOf(x) == Charge[x]

TypeOK ==
    /\ at \in [Renders -> {"idle", "look", "slot", "again", "load", "wait",
                           "leave", "yield"}]
    /\ item \in [Renders -> Items \cup {NoItem}]
    /\ cancelled \subseteq Renders
    /\ owner \in [Renders -> Renders \cup {NoRender}]
    /\ told \in [Renders -> {"nothing", "value", "error"}]
    /\ flight \in [Items -> Renders \cup {NoRender}]
    /\ slots \subseteq Renders
    /\ \A t \in Tables : Range(lru[t]) \subseteq {x \in Items : TableOf(x) = t}
    /\ bytes \in [Tables -> Int]
    /\ failed \in [Renders -> {"no", "load", "limit", "context"}]
    /\ maxLoads \in LoadLimits /\ calls \in 0..MaxCalls

Init ==
    /\ at = [r \in Renders |-> "idle"]
    /\ item = [r \in Renders |-> NoItem]
    /\ cancelled = {}
    /\ owner = [r \in Renders |-> NoRender]
    /\ told = [r \in Renders |-> "nothing"]
    /\ flight = [x \in Items |-> NoRender]
    /\ slots = {}
    /\ lru = [t \in Tables |-> <<>>]
    /\ bytes = [t \in Tables |-> 0]
    /\ failed = [r \in Renders |-> "no"]
    /\ maxLoads \in LoadLimits /\ calls = 0

-----------------------------------------------------------------------------
(* Beginning and ending the lookup of an item                              *)

MoveTo(r, place) ==
    /\ at' = [at EXCEPT ![r] = place]
    /\ UNCHANGED <<item, cancelled, owner, told, failed>>

\* r leaves the loop for its item: for place, with x to look up next.
LeaveLoop(r, place, x) ==
    /\ at' = [at EXCEPT ![r] = place]
    /\ item' = [item EXCEPT ![r] = x]
    /\ cancelled' = IF place = "idle" THEN cancelled \ {r} ELSE cancelled
    /\ owner' = [owner EXCEPT ![r] = NoRender]
    /\ told' = [told EXCEPT ![r] = "nothing"]

Fail(r, how) ==
    /\ LeaveLoop(r, "idle", NoItem)
    /\ failed' = [failed EXCEPT ![r] = how]

\* r has the value for its item.  A key is looked up in turn; an asset can
\* still exceed what r's document has left for decoded images.
Proceed(r) ==
    \/ /\ item[r] \in Identities
       /\ LeaveLoop(r, "look", KeyOf[item[r]])
       /\ UNCHANGED failed
    \/ /\ item[r] \in Keys
       /\ \/ LeaveLoop(r, "idle", NoItem) /\ UNCHANGED failed
          \/ Fail(r, "limit")

Call(r, i) ==
    /\ at[r] = "idle" /\ calls < MaxCalls
    /\ at' = [at EXCEPT ![r] = "look"]
    /\ item' = [item EXCEPT ![r] = i]
    /\ failed' = [failed EXCEPT ![r] = "no"]
    /\ calls' = calls + 1
    /\ UNCHANGED <<cancelled, owner, told, flight, slots, cacheVars, maxLoads>>

Cancel(r) ==
    /\ at[r] # "idle"
    /\ cancelled' = cancelled \cup {r}
    /\ UNCHANGED <<at, item, owner, told, failed, flight, slots, cacheVars,
                   limitVars>>

-----------------------------------------------------------------------------
(* The loop of memoizedCacheKeyWithDigest and getOrLoad                    *)

Hit(r) ==
    /\ Cached(item[r])
    /\ lru' = [lru EXCEPT ![TableOf(item[r])] = Touched(@, item[r])]
    /\ UNCHANGED bytes

\* A flight of another render is joined, at once or after leaving for place.
Join(r, place) ==
    /\ ~Cached(item[r]) /\ flight[item[r]] # NoRender
    /\ at' = [at EXCEPT ![r] = place]
    /\ owner' = [owner EXCEPT ![r] = flight[item[r]]]
    /\ UNCHANGED <<item, cancelled, told, failed, cacheVars>>

Look(r) ==
    /\ at[r] = "look"
    /\ \/ r \in cancelled /\ Fail(r, "context") /\ UNCHANGED cacheVars
       \/ /\ r \notin cancelled \/ item[r] \in Keys  \* lookup asks no context
          /\ Hit(r) /\ Proceed(r)
       \/ /\ r \notin cancelled /\ ~Cached(item[r]) /\ item[r] \in Keys
          /\ Fail(r, "limit") /\ UNCHANGED cacheVars \* validateRasterAsset
       \/ r \notin cancelled /\ Join(r, "wait")
       \/ /\ r \notin cancelled /\ ~Cached(item[r]) /\ flight[item[r]] = NoRender
          /\ MoveTo(r, "slot") /\ UNCHANGED cacheVars
    /\ UNCHANGED <<flight, slots, limitVars>>

\* acquireLoad.
TakeSlot(r) ==
    /\ at[r] = "slot"
    /\ Cardinality(slots) < maxLoads
    /\ slots' = slots \cup {r}
    /\ MoveTo(r, "again")
    /\ UNCHANGED <<flight, cacheVars, limitVars>>

NoSlot(r) ==
    /\ at[r] = "slot" /\ r \in cancelled
    /\ Fail(r, "context")
    /\ UNCHANGED <<flight, slots, cacheVars, limitVars>>

\* Mutant: with the slot, only the flights are looked at.
LookAgainForFlights(r) ==
    /\ at[r] = "again"
    /\ \/ Join(r, "yield") /\ UNCHANGED flight
       \/ /\ flight[item[r]] = NoRender
          /\ flight' = [flight EXCEPT ![item[r]] = r]
          /\ MoveTo(r, "load") /\ UNCHANGED cacheVars
    /\ UNCHANGED <<slots, limitVars>>

\* The second look, with the slot.
LookAgain(r) ==
    /\ at[r] = "again"
    /\ \/ /\ Hit(r)
          /\ at' = [at EXCEPT ![r] = "leave"]
          /\ told' = [told EXCEPT ![r] = "value"]
          /\ UNCHANGED <<item, cancelled, owner, failed, flight>>
       \/ Join(r, "yield") /\ UNCHANGED flight
       \/ /\ ~Cached(item[r]) /\ flight[item[r]] = NoRender
          /\ flight' = [flight EXCEPT ![item[r]] = r]
          /\ MoveTo(r, "load") /\ UNCHANGED cacheVars
    /\ UNCHANGED <<slots, limitVars>>

\* The byte counter of table t once q is what is left of it, or put into it.
Bytes(t, q) == bytes[t] - Total(lru[t], ChargeOf) + Total(q, ChargeOf)

Fits(x, memos, assets) ==
    Charge[x] <= MaxCacheBytes - Bytes("asset", assets) - Bytes("memo", memos)

\* Table t after its back has made room for one more entry.
Counted(t) == EvictUntil(lru[t], LAMBDA q : Len(q) < MaxCacheEntries)

\* What one list keeps beside the other once there are bytes for x.
MemosLeft(x, memos, assets) == EvictUntil(memos, LAMBDA q : Fits(x, q, assets))
AssetsLeft(x, memos, assets) == EvictUntil(assets, LAMBDA q : Fits(x, memos, q))

Keep(memos, assets) ==
    /\ lru' = [memo |-> memos, asset |-> assets]
    /\ bytes' = [memo |-> Bytes("memo", memos), asset |-> Bytes("asset", assets)]

\* Mutant: memos do not make room.
InsertAssetAlone(x) ==
    LET fewer == Counted("asset")
    IN  Keep(lru["memo"], <<x>> \o AssetsLeft(x, <<>>, fewer))

\* insertLocked: memos make room first, then assets.
InsertAsset(x) ==
    LET fewer == Counted("asset")
        memos == MemosLeft(x, lru["memo"], fewer)
    IN  Keep(memos, <<x>> \o AssetsLeft(x, memos, fewer))

\* insertMemoLocked: an asset never makes room for a memo.
InsertMemo(x) ==
    LET memos == MemosLeft(x, Counted("memo"), lru["asset"])
    IN  IF Fits(x, memos, lru["asset"])
        THEN Keep(<<x>> \o memos, lru["asset"])
        ELSE Keep(memos, lru["asset"])

Insert(x) ==
    IF Charge[x] > MaxCacheBytes THEN UNCHANGED cacheVars
    ELSE IF x \in Identities THEN InsertMemo(x) ELSE InsertAsset(x)

\* The renders that have the flight of r in hand.
WaitersOf(r) == {w \in Renders : owner[w] = r}

\* The load ends: the flight is gone, its value cached if there is one, and
\* the waiters are told.  A digest fails only for the owner's context.
Load(r, ok) ==
    LET x == item[r]
    IN  /\ at[r] = "load"
        /\ ok => r \notin cancelled
        /\ ~ok => x \in Keys \/ r \in cancelled
        /\ flight' = [flight EXCEPT ![x] = NoRender]
        /\ told' = [w \in Renders |->
                      IF w \in WaitersOf(r) \cup {r}
                      THEN IF ok THEN "value" ELSE "error" ELSE told[w]]
        /\ IF ok THEN Insert(x) ELSE UNCHANGED cacheVars
        /\ at' = [at EXCEPT ![r] = "leave"]
        /\ UNCHANGED <<item, cancelled, owner, failed, slots, limitVars>>

\* releaseLoad, and what follows it.
Leave(r) ==
    /\ at[r] \in {"leave", "yield"}
    /\ slots' = slots \ {r}
    /\ \/ at[r] = "leave" /\ told[r] = "value" /\ Proceed(r)
       \/ at[r] = "leave" /\ told[r] = "error"
          /\ Fail(r, IF r \in cancelled THEN "context" ELSE "load")
       \/ at[r] = "yield" /\ MoveTo(r, "wait")
    /\ UNCHANGED <<flight, cacheVars, limitVars>>

\* Mutant: a waiter is given the error of its flight.
WaitForAnything(r) ==
    /\ at[r] = "wait"
    /\ \/ r \in cancelled /\ Fail(r, "context")
       \/ r \notin cancelled /\ told[r] = "value" /\ Proceed(r)
       \/ r \notin cancelled /\ told[r] = "error" /\ Fail(r, "load")
    /\ UNCHANGED <<flight, slots, cacheVars, limitVars>>

\* waitForAssetFlight: a waiter whose flight failed begins again.
Wait(r) ==
    /\ at[r] = "wait"
    /\ \/ r \in cancelled /\ Fail(r, "context")
       \/ r \notin cancelled /\ told[r] = "value" /\ Proceed(r)
       \/ r \notin cancelled /\ told[r] = "error"
          /\ LeaveLoop(r, "look", item[r]) /\ UNCHANGED failed
    /\ UNCHANGED <<flight, slots, cacheVars, limitVars>>

Step(r) ==
    \/ Look(r) \/ TakeSlot(r) \/ NoSlot(r) \/ LookAgain(r)
    \/ \E ok \in BOOLEAN : Load(r, ok)
    \/ Leave(r) \/ Wait(r)

Next == \E r \in Renders :
    \/ \E i \in Identities : Call(r, i)
    \/ Cancel(r)
    \/ Step(r)

Spec == Init /\ [][Next]_vars

\* Digests and decoders end.  With MaxCalls calls there are finitely many steps
\* to take, so it is enough that some render that can go on does.
Fairness == WF_vars(\E r \in Renders : Step(r))
FairSpec == Spec /\ Fairness

-----------------------------------------------------------------------------
(* Properties                                                              *)

\* Both tables stay within their entry limit and hold no entry twice, however
\* renders of one content raced.
CountsBounded ==
    \A t \in Tables : Len(lru[t]) <= MaxCacheEntries /\ IsInjective(lru[t])

\* Together they stay within the byte limit, whatever was evicted for what, and
\* their counters, which are only ever adjusted, say what they hold.
BytesBounded ==
    /\ \A t \in Tables : bytes[t] = Total(lru[t], ChargeOf)
    /\ bytes["memo"] + bytes["asset"] <= MaxCacheBytes

\* A flight exists exactly while its owner loads with an admitted slot: the
\* session retains at most MaxConcurrentLoads flights, no two renders load the
\* same item, and nobody loads what is cached.
LoadsAdmitted ==
    /\ Cardinality(slots) <= maxLoads
    /\ \A r \in Renders : at[r] = "load" =>
         r \in slots /\ flight[item[r]] = r /\ ~Cached(item[r])
    /\ \A x \in Items : flight[x] # NoRender =>
         at[flight[x]] = "load" /\ item[flight[x]] = x

\* A render fails for a context only if its own is done, and for a load only if
\* it was the one that loaded: a cancelled or failed owner cannot poison the
\* renders that wait for it.
OwnFailure ==
    [][\A r \in Renders : failed'[r] # failed[r] =>
         /\ failed'[r] = "context" => r \in cancelled
         /\ failed'[r] = "load" => r \in slots]_vars

\* Every call returns: waiters are told or look again, slots come back.
CallsEnd == \A r \in Renders : at[r] # "idle" ~> at[r] = "idle"

=============================================================================
