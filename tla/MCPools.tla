------------------------------- MODULE MCPools -------------------------------
(* The parts of an export that goroutines share, side by side: a behaviour  *)
(* works on one part, and the others stand still before they begin.         *)
EXTENDS RenderSession

CONSTANTS Names, Images, Size, MaxImages, MaxImageBytes,
          NHrefs, BundleWorkers, Sizes, MaxBundled, MaxOutput,
          NFlavors, FlavorLimit, StageLimit, StageUsed, Distances

VARIABLES part,
          recent, held, newest,
          size, bundling, callerDone, cause, next, producing, task, results,
          replaced, bundled, exhausted, output, error,
          stage, plan, base, doing, spent, seen, charged, response, used,
          stopped, ctxDone, sawDone, routed, outcome

imageState == <<recent, held, newest>>
bundleState == <<size, bundling, callerDone, cause, next, producing, task, results,
                 replaced, bundled, exhausted, output, error>>
routeState == <<stage, plan, base, doing, spent, seen, charged, response, used,
                stopped, ctxDone, sawDone, routed, outcome>>
partVars == <<vars, imageState, bundleState, routeState, part>>

MCKeyOf == [i \in Identities |-> IF i = "k" THEN "big" ELSE "small"]
MCCharge == [x \in Identities \cup Keys |->
               CASE x = "big" -> 3 [] x = "small" -> 2 [] OTHER -> 1]
MCSize == [i \in Images |-> CASE i = "small" -> 1 [] i = "medium" -> 2
                               [] i = "large" -> 3 [] i = "oversize" -> 4]

Cache == INSTANCE ImageCache
Bundle == INSTANCE BundlePool
Route == INSTANCE RouteFlavors

\* NewMemoryCache refuses limits that are not positive.
ASSUME CacheAssumption ==
    Size \in [Images -> Nat] /\ {MaxImages, MaxImageBytes} \subseteq Nat \ {0}
ASSUME BundleAssumption ==
    /\ NHrefs \in Nat /\ BundleWorkers \in Nat \ {0}
    /\ Sizes \subseteq Nat /\ Sizes # {} /\ MaxBundled \in Nat
ASSUME RouteAssumption ==
    /\ {NFlavors, FlavorLimit} \subseteq Nat \ {0} /\ StageLimit \in Nat
    /\ StageUsed \subseteq 0..StageLimit /\ StageUsed # {}
    /\ Distances \subseteq Nat /\ Distances # {}

\* The session at rest has one of the load limits.
SessionAtRest == maxLoads = CHOOSE n \in LoadLimits : TRUE

PartsInit ==
    /\ part \in {"session", "images", "bundle", "routes"}
    /\ Init /\ Cache!Init /\ Bundle!Init /\ Route!Init
    /\ part = "session" \/ SessionAtRest
    /\ part = "bundle" \/ Bundle!AtRest
    /\ part = "routes" \/ Route!AtRest

PartsNext ==
    /\ UNCHANGED part
    /\ \/ /\ part = "session" /\ Next
          /\ UNCHANGED <<imageState, bundleState, routeState>>
       \/ /\ part = "images" /\ Cache!Next
          /\ UNCHANGED <<vars, bundleState, routeState>>
       \/ /\ part = "bundle" /\ Bundle!Next
          /\ UNCHANGED <<vars, imageState, routeState>>
       \/ /\ part = "routes" /\ Route!Next
          /\ UNCHANGED <<vars, imageState, bundleState>>

\* The fairness of the parts: the steps of a part that stands still are disabled.
PartsStep ==
    \/ /\ part = "session" /\ \E r \in Renders : Step(r)
       /\ UNCHANGED <<imageState, bundleState, routeState, part>>
    \/ /\ part = "bundle" /\ Bundle!Step
       /\ UNCHANGED <<vars, imageState, routeState, part>>
    \/ /\ part = "routes" /\ Route!Step
       /\ UNCHANGED <<vars, imageState, bundleState, part>>

PartsSpec == PartsInit /\ [][PartsNext]_partVars /\ WF_partVars(PartsStep)

PartsTypeOK == TypeOK /\ Cache!TypeOK /\ Bundle!TypeOK /\ Route!TypeOK

\* The limits of the parts hold at every step, however their goroutines race: the
\* render session's caches with the loads and entries in flight, the remote image
\* cache, the bundled bytes, and the work a routing stage has charged, which is
\* exact unless the caller cancels.
LimitsHold ==
    /\ CountsBounded /\ BytesBounded /\ LoadsAdmitted
    /\ Cache!ImagesBounded
    /\ Bundle!BundleWithinLimit
    /\ Route!StageCounterExact

\* Every render call, bundling and routing stage ends, and the last whatever its
\* flavors do: no waiter is left on a flight nobody finishes, no worker on a channel
\* nobody reads.  A behaviour bundles or routes, never both.
PoolsEnd ==
    /\ CallsEnd
    /\ bundling = "running" \/ stage = "routing"
         ~> Bundle!BundleEnded \/ stage = "returned"

\* What a reader gets from the image cache is what the last download stored.
NoStaleImage == Cache!NoStaleImage

\* A bundling that fails midway still returns what it had resolved.
PartialOutputKept == Bundle!PartialOutputKept

\* A bundling reports a failure that happened, not a cancellation it caused.
FailureExplained == Bundle!FailureExplained

\* Which routes are chosen, and whether routing fails, is no matter of scheduling.
ScheduleIndependent == Route!ScheduleIndependent
=============================================================================
