----------------------------- MODULE RouteFlavors -----------------------------
(***************************************************************************)
(* Edge routing in TALA (internal/routing): the flavors, orders in which   *)
(* edges may be routed, are tried concurrently, the shortest result is     *)
(* committed to the graph.  Each flavor has a work budget of its own; what *)
(* it used is charged, when it finishes, to the budget of the whole stage, *)
(* which the subgraphs routed before have used up to some point.           *)
(***************************************************************************)
EXTENDS Integers, FiniteSets, Functions

CONSTANTS
    NFlavors,       \* flavors, in declared order
    FlavorLimit,    \* maxRouteSearchWorkUnits
    StageLimit,     \* maxEdgeRoutingStageWorkUnits
    StageUsed,      \* what earlier subgraphs may have used of it
    Distances       \* total lengths a flavor may come to

VARIABLES
    stage,      \* "idle", "routing", one of Finalizing, "returned"
    plan,       \* plan[f]: how flavor f would fare alone
    base,       \* the stage's work before this subgraph
    doing,      \* doing[f]: "search", "charge", "swap", "send", "joined"
    spent,      \* spent[f]: guard.used of flavor f
    seen,       \* seen[f]: the stage counter as f loaded it, 0 outside the loop
    charged,    \* charged[f]: guard.aggregateCharged, what f knows to be charged
    response,   \* response[f]: what f's worker reports
    used,       \* the stage counter
    stopped,    \* the workers' context is cancelled
    ctxDone,    \* the caller's context is done
    sawDone,    \* the collector has received ctx.Done
    routed,     \* the flavor whose routes are in the graph, 0 for the old routes
    outcome     \* "none", "ok", or how routing failed

routeVars == <<stage, plan, base, doing, spent, seen, charged, response, used, stopped,
               ctxDone, sawDone, routed, outcome>>
workVars == <<doing, spent, seen, charged, response, used>>
endVars == <<routed, outcome>>

Flavors == 1..NFlavors
Finalizing == {"selected", "finalizing", "finishing", "unwinding"}
Plans == [kind : {"routes"}, work : 1..FlavorLimit, distance : Distances]
         \cup [kind : {"fails", "panics"}, work : 1..FlavorLimit, distance : {0}]
Failures == {"error", "stage", "context", "panic"}
Results == {"none", "routes"} \cup Failures

TypeOK ==
    /\ stage \in {"idle", "routing", "returned"} \cup Finalizing
    /\ plan \in [Flavors -> Plans] /\ base \in StageUsed
    /\ doing \in [Flavors -> {"search", "charge", "swap", "send", "joined"}]
    /\ spent \in [Flavors -> 0..FlavorLimit] /\ charged \in [Flavors -> 0..FlavorLimit]
    /\ seen \in [Flavors -> Nat] /\ used \in Nat
    /\ response \in [Flavors -> Results]
    /\ stopped \in BOOLEAN /\ ctxDone \in BOOLEAN /\ sawDone \in BOOLEAN
    /\ routed \in 0..NFlavors /\ outcome \in {"none", "ok"} \cup Failures

NotBegun ==
    /\ stage = "idle"
    /\ doing = [f \in Flavors |-> "joined"]
    /\ spent = [f \in Flavors |-> 0] /\ charged = [f \in Flavors |-> 0]
    /\ seen = [f \in Flavors |-> 0] /\ used = base
    /\ response = [f \in Flavors |-> "none"]
    /\ stopped = FALSE /\ ctxDone = FALSE /\ sawDone = FALSE
    /\ routed = 0 /\ outcome = "none"

Init == plan \in [Flavors -> Plans] /\ base \in StageUsed /\ NotBegun

\* One of the initial states.
AtRest ==
    /\ plan = [f \in Flavors |-> [kind |-> "routes", work |-> 1,
                                 distance |-> CHOOSE d \in Distances : TRUE]]
    /\ base = CHOOSE b \in StageUsed : TRUE
    /\ NotBegun

\* generateRouteFlavorResponsesWith starts a worker for each flavor.
Begin ==
    /\ stage = "idle"
    /\ stage' = "routing"
    /\ doing' = [f \in Flavors |-> "search"]
    /\ UNCHANGED <<plan, base, spent, seen, charged, response, used, stopped,
                   ctxDone, sawDone, endVars>>

\* The caller's context ends, and the workers' with it.
ParentDone ==
    /\ stage \in {"routing"} \cup Finalizing /\ ~ctxDone
    /\ ctxDone' = TRUE /\ stopped' = TRUE
    /\ UNCHANGED <<stage, plan, base, workVars, sawDone, endVars>>

-----------------------------------------------------------------------------
(* A worker                                                                *)

Worker(f, from, to) ==
    /\ doing[f] = from
    /\ doing' = [doing EXCEPT ![f] = to]
    /\ UNCHANGED <<stage, plan, base, stopped, ctxDone, sawDone, endVars>>

Respond(f, r) == response' = [response EXCEPT ![f] = r]

\* generateRoutes, up to its deferred finish: all of the flavor's own work, or
\* less of it when a poll finds the context cancelled.
Search(f) ==
    /\ Worker(f, "search", "charge")
    /\ \/ /\ spent' = [spent EXCEPT ![f] = plan[f].work]
          /\ Respond(f, CASE plan[f].kind = "routes" -> "routes"
                          [] plan[f].kind = "fails" -> "error"
                          [] plan[f].kind = "panics" -> "panic")
       \/ /\ stopped
          /\ \E w \in 0..plan[f].work : spent' = [spent EXCEPT ![f] = w]
          /\ Respond(f, "context")
    /\ UNCHANGED <<seen, charged, used>>

Pending(f) == spent[f] - charged[f]

\* finish, as generateRoutes defers it: an error of its own is reported only
\* when the flavor has no other.
FinishError(f, r) ==
    Respond(f, IF response[f] = "routes" THEN r ELSE response[f])

\* The stage counter is loaded; the charge is refused when too little is left.
LoadStage(f) ==
    /\ \/ /\ Pending(f) > StageLimit - used
          /\ Worker(f, "charge", "send")
          /\ FinishError(f, IF ctxDone THEN "context" ELSE "stage")
          /\ UNCHANGED seen
       \/ /\ Pending(f) <= StageLimit - used
          /\ Worker(f, "charge", "swap")
          /\ seen' = [seen EXCEPT ![f] = used]
          /\ UNCHANGED response
    /\ UNCHANGED <<spent, charged, used>>

\* An addition that crosses a polling stride checks the stage's context; when that
\* is done the units are on the counter, and yet not in aggregateCharged.
Account(f) ==
    \/ charged' = [charged EXCEPT ![f] = spent[f]]
    \/ ctxDone /\ UNCHANGED charged

\* Mutant: the sum is stored without comparing.
StoreStage(f) ==
    /\ Worker(f, "swap", "send")
    /\ used' = seen[f] + Pending(f) /\ Account(f)
    /\ IF stopped THEN FinishError(f, "context") ELSE UNCHANGED response
    /\ seen' = [seen EXCEPT ![f] = 0]
    /\ UNCHANGED spent

\* CompareAndSwapUint64; the check that follows sees a cancelled context.
SwapStage(f) ==
    /\ \/ /\ used # seen[f] /\ Worker(f, "swap", "charge")
          /\ UNCHANGED <<used, charged, response>>
       \/ /\ used = seen[f] /\ Worker(f, "swap", "send")
          /\ used' = seen[f] + Pending(f) /\ Account(f)
          /\ IF stopped THEN FinishError(f, "context") ELSE UNCHANGED response
    /\ seen' = [seen EXCEPT ![f] = 0]
    /\ UNCHANGED spent

WorkerStep(f) == Search(f) \/ LoadStage(f) \/ SwapStage(f)

-----------------------------------------------------------------------------
(* The coordinator                                                         *)

\* A result is received; a panic cancels the siblings, which are still awaited.
Receive(f) ==
    /\ doing[f] = "send"
    /\ doing' = [doing EXCEPT ![f] = "joined"]
    /\ stopped' = (stopped \/ response[f] = "panic")
    /\ UNCHANGED <<stage, plan, base, spent, seen, charged, response, used,
                   ctxDone, sawDone, endVars>>

SeeDone ==
    /\ stage = "routing" /\ ctxDone /\ ~sawDone
    /\ sawDone' = TRUE
    /\ UNCHANGED <<stage, plan, base, workVars, stopped, ctxDone, endVars>>

With(r) == {f \in Flavors : response[f] = r}

\* The first flavor with the least distance.
Best(S) ==
    CHOOSE f \in S : \A g \in S :
        \/ plan[f].distance < plan[g].distance
        \/ plan[f].distance = plan[g].distance /\ f <= g

Return(result) ==
    /\ stage' = "returned"
    /\ outcome' = result

\* Mutant: a flavor that succeeded is enough, whatever became of the others.
VerdictOfSuccess ==
    IF With("panic") # {} THEN "panic"
    ELSE IF ctxDone THEN "context"
    ELSE IF With("routes") = {} THEN "error"
    ELSE "ok"

\* A panic is an error first, then the caller's context, then a stage limit
\* that any flavor met; otherwise one that succeeded is enough.
Verdict ==
    IF With("panic") # {} THEN "panic"
    ELSE IF ctxDone THEN "context"
    ELSE IF With("stage") # {} THEN "stage"
    ELSE IF With("routes") = {} THEN "error"
    ELSE "ok"

\* All have joined.
Select ==
    /\ stage = "routing" /\ \A f \in Flavors : doing[f] = "joined"
    /\ IF Verdict = "ok"
       THEN stage' = "selected" /\ UNCHANGED outcome
       ELSE Return(Verdict)
    /\ UNCHANGED <<plan, base, workVars, stopped, ctxDone, sawDone, routed>>

-----------------------------------------------------------------------------
(* finalizeSelectedRoutes, on the budget of the best flavor                *)

Selected == Best(With("routes"))

\* It fails with r; the deferred finish is still to come.
Unwinding(r) == stage' = "unwinding" /\ outcome' = r

\* The budget is bound to the caller's context.
Bind ==
    /\ stage = "selected"
    /\ IF ctxDone THEN Return("context") ELSE stage' = "finalizing" /\ UNCHANGED outcome
    /\ UNCHANGED <<plan, base, workVars, stopped, ctxDone, sawDone, routed>>

\* The selected routes need w more units.  When the flavor's budget is too small, or
\* a poll finds the context done, some of them have been spent by then.
Materialize(w) ==
    LET left == FlavorLimit - spent[Selected]
        Spend(n) == spent' = [spent EXCEPT ![Selected] = @ + n]
    IN  /\ stage = "finalizing"
        /\ \/ w <= left /\ Spend(w) /\ stage' = "finishing" /\ UNCHANGED outcome
           \/ /\ w > left \/ ctxDone
              /\ \E n \in 0..w : n <= left /\ Spend(n)
              /\ Unwinding(IF ctxDone THEN "context" ELSE "error")
        /\ UNCHANGED <<plan, base, doing, seen, charged, response, used, stopped,
                       ctxDone, sawDone, routed>>

\* guard.finish: what is pending is charged if the stage has as much left.
Finish(f) ==
    IF Pending(f) > StageLimit - used
    THEN UNCHANGED <<used, charged>>
    ELSE used' = used + Pending(f) /\ Account(f)

\* The routes are committed after everything that can fail.
Commit ==
    /\ stage = "finishing"
    /\ Finish(Selected)
    /\ IF ctxDone THEN Unwinding("context") /\ UNCHANGED routed
       ELSE IF Pending(Selected) > StageLimit - used
            THEN Unwinding("stage") /\ UNCHANGED routed
            ELSE Return("ok") /\ routed' = Selected
    /\ UNCHANGED <<plan, base, doing, spent, seen, response, stopped, ctxDone, sawDone>>

\* The deferred finish of a failed finalization; its error is dropped.
Unwind ==
    /\ stage = "unwinding"
    /\ Finish(Selected)
    /\ Return(outcome)
    /\ UNCHANGED <<plan, base, doing, spent, seen, response, stopped, ctxDone, sawDone,
                   routed>>

\* Any w above FlavorLimit fails like FlavorLimit does.
Finalize == Bind \/ (\E w \in 0..FlavorLimit : Materialize(w)) \/ Commit \/ Unwind

Coordinate ==
    SeeDone \/ Select \/ Finalize \/ \E f \in Flavors : Receive(f)

Step == Coordinate \/ \E f \in Flavors : WorkerStep(f)
Next == Begin \/ ParentDone \/ Step

\* Every worker and the coordinator take finitely many steps, so that it is
\* enough that some goroutine that can go on does.
Fairness == WF_routeVars(Step)

Spec == Init /\ [][Next]_routeVars /\ Fairness

-----------------------------------------------------------------------------
(* Properties                                                              *)

Total(a) == SumFunctionOnSet(a, Flavors)

\* The stage counter, which several flavors add to at once, stays within the limit
\* and loses no charge.  It is exactly the sum of the charges as long as the caller
\* does not cancel, when the deferred finish of a cancelled finalization may add its
\* units a second time; and routing that succeeds has paid in full for every flavor
\* that found routes.
StageCounterExact ==
    /\ used <= StageLimit
    /\ used >= base + Total(charged)
    /\ ~ctxDone \/ outcome = "ok" => used = base + Total(charged)
    /\ outcome = "ok" => \A f \in With("routes") : charged[f] = spent[f]

\* What routing decides does not depend on the order in which the flavors
\* finish: a panic always fails it, so does a stage that cannot pay for all of
\* them, and otherwise the routes are those of the first flavor with the
\* shortest ones.  A flavor that fails by itself is left out here.
ScheduleIndependent ==
    stage = "returned" /\ ~ctxDone /\ (\A f \in Flavors : plan[f].kind # "fails") =>
        LET total == base + Total([f \in Flavors |-> plan[f].work])
        IN  IF \E f \in Flavors : plan[f].kind = "panics" THEN outcome = "panic"
            ELSE IF total > StageLimit THEN outcome = "stage"
            ELSE outcome = "ok" => routed = Best(Flavors)

\* Accepting a flavor never "let[s] total routing work exceed its contract": all
\* the work of an accepted routing, that of its failed flavors included, was
\* within the stage's limit.
WorkWithinContract == outcome = "ok" => base + Total(spent) <= StageLimit

=============================================================================
