---------------------------- MODULE ImageResolver ----------------------------
(***************************************************************************)
(* One resolver session of lib/imageasset (normally one output document):  *)
(* any number of callers ask for image sources at the same time.  The      *)
(* first to ask for a source leads its resolution, the others wait for it; *)
(* a caller whose leader failed tries again by itself.  A resource is      *)
(* charged to the budgets of the session before it is kept.                *)
(*                                                                         *)
(* A resource stands for the bytes an image had when it was loaded; a file *)
(* may have others when it is loaded again.  The cache behind the resolver *)
(* is an interface: a lookup may always miss, and other sessions fill it.  *)
(***************************************************************************)
EXTENDS Integers, FiniteSets, Functions

CONSTANTS
    Callers,    \* goroutines that call Resolve
    Sources,    \* spec.key of the sources they ask for
    Inline,     \* the data: URIs among them
    Resources,  \* what an image may turn out to be
    Cost,       \* Cost[x][b]: the encoded and decoded bytes of resource x
    Limit,      \* Limit[b]: MaxCumulativeEncodedBytes, MaxCumulativeDecodedBytes
    MaxAssets,
    Slots,      \* capacity of resolveSlots
    MaxCalls    \* bound: calls of Resolve

Budgets == {"encoded", "decoded"}
Errors == {"failed", "context"}
NoResource == "no resource"
NoCaller == "no caller"
NoSource == "no source"

ASSUME CallersAssumption == IsFiniteSet(Callers) /\ NoCaller \notin Callers
ASSUME SourcesAssumption ==
    IsFiniteSet(Sources) /\ Inline \subseteq Sources /\ NoSource \notin Sources
ASSUME ResourcesAssumption ==
    Resources \cap (Errors \cup {NoResource}) = {}
ASSUME CostAssumption ==
    Cost \in [Resources -> [Budgets -> Nat]] /\ Limit \in [Budgets -> Nat]
ASSUME BoundAssumption ==
    MaxAssets \in Nat \ {0} /\ Slots \in Nat \ {0} /\ MaxCalls \in Nat

VARIABLES
    at,         \* at[c]: where c stands in Resolve, "idle" outside
    src,        \* src[c]: the source c asks for, or asked for last
    cancelled,  \* callers whose context is done
    got,        \* got[c]: what c's resolveOne has come to; for a waiter, what
                \* its call has ended in
    leader,     \* leader[c]: the caller whose call the waiter c waits for
    answer,     \* answer[c]: what Resolve returned to c last
    resolved,   \* resolvedSources
    inflight,   \* inflight[s]: the leader of the call in flight
    holders,    \* leaders that hold one of the resolveSlots
    count,      \* assetCount
    used,       \* used[b]: cumulativeEncodedBytes, cumulativeDecodedBytes
    calls

callVars == <<at, src, cancelled, got, leader, answer>>
memoVars == <<resolved, inflight>>
budgetVars == <<count, used>>
sessionVars == <<memoVars, holders, budgetVars>>
vars == <<callVars, sessionVars, calls>>

\* c is between entering its call in inflight and taking it out.
LeadingAt == {"cache", "slot", "load", "reserve", "check", "leave", "publish"}
Results == Resources \cup Errors

TypeOK ==
    /\ at \in [Callers -> {"idle", "enter", "lookup", "wait"} \cup LeadingAt]
    /\ src \in [Callers -> Sources \cup {NoSource}]
    /\ \A c \in Callers : at[c] # "idle" => src[c] \in Sources
    /\ cancelled \subseteq Callers
    /\ got \in [Callers -> Results \cup {NoResource}]
    /\ leader \in [Callers -> Callers \cup {NoCaller}]
    /\ answer \in [Callers -> Results \cup {NoResource}]
    /\ resolved \in [Sources -> Resources \cup {NoResource}]
    /\ inflight \in [Sources -> Callers \cup {NoCaller}]
    /\ holders \subseteq Callers
    /\ count \in Int /\ count <= MaxAssets
    /\ used \in [Budgets -> Int] /\ \A b \in Budgets : used[b] <= Limit[b]
    /\ calls \in Nat

Init ==
    /\ at = [c \in Callers |-> "idle"]
    /\ src = [c \in Callers |-> NoSource]
    /\ cancelled = {}
    /\ got = [c \in Callers |-> NoResource]
    /\ leader = [c \in Callers |-> NoCaller]
    /\ answer = [c \in Callers |-> NoResource]
    /\ resolved = [s \in Sources |-> NoResource]
    /\ inflight = [s \in Sources |-> NoCaller]
    /\ holders = {}
    /\ count = 0
    /\ used = [b \in Budgets |-> 0]
    /\ calls = 0

-----------------------------------------------------------------------------
(* Resolve                                                                 *)

\* c goes on inside Resolve; value is what it has got.
Go(c, place, value) ==
    /\ at' = [at EXCEPT ![c] = place]
    /\ got' = [got EXCEPT ![c] = value]
    /\ UNCHANGED <<src, cancelled, answer, calls>>

\* Resolve returns to c, and the locals of the call are gone.
Forget(c) ==
    /\ at' = [at EXCEPT ![c] = "idle"]
    /\ cancelled' = cancelled \ {c}
    /\ leader' = [leader EXCEPT ![c] = NoCaller]
    /\ UNCHANGED <<src, calls>>

Return(c, value) ==
    /\ Forget(c)
    /\ got' = [got EXCEPT ![c] = NoResource]
    /\ answer' = [answer EXCEPT ![c] = value]

\* A caller asks for s with a context of its own.
Call(c, s) ==
    /\ at[c] = "idle" /\ calls < MaxCalls
    /\ calls' = calls + 1
    /\ src' = [src EXCEPT ![c] = s]
    /\ answer' = [answer EXCEPT ![c] = NoResource]
    /\ at' = [at EXCEPT ![c] = "enter"]
    /\ UNCHANGED <<cancelled, got, leader, sessionVars>>

\* The context of a running call is cancelled, or its deadline passes.
Cancel(c) ==
    /\ at[c] # "idle" /\ c \notin cancelled
    /\ cancelled' = cancelled \cup {c}
    /\ UNCHANGED <<at, src, got, leader, answer, calls, sessionVars>>

\* The checks before the loop: the context, and the classification of the
\* source, which may refuse it.
Enter(c) ==
    /\ at[c] = "enter"
    /\ \/ c \in cancelled /\ Return(c, "context")
       \/ Return(c, "failed")
       \/ c \notin cancelled /\ Go(c, "lookup", NoResource) /\ UNCHANGED leader
    /\ UNCHANGED sessionVars

Known == {s \in Sources : resolved[s] # NoResource}

\* Mutant: Resolve does not look for a call in flight.
LookupAlone(c) ==
    /\ at[c] = "lookup"
    /\ \/ /\ src[c] \in Known
          /\ Return(c, resolved[src[c]]) /\ UNCHANGED inflight
       \/ /\ src[c] \notin Known
          /\ inflight' = [inflight EXCEPT ![src[c]] = c]
          /\ Go(c, "cache", NoResource) /\ UNCHANGED leader
    /\ UNCHANGED <<resolved, holders, budgetVars>>

\* One turn of the loop, under r.mu: the memo, a call in flight, or a new one.
Lookup(c) ==
    /\ at[c] = "lookup"
    /\ \/ /\ src[c] \in Known
          /\ Return(c, resolved[src[c]]) /\ UNCHANGED inflight
       \/ /\ src[c] \notin Known /\ inflight[src[c]] # NoCaller
          /\ Go(c, "wait", NoResource)
          /\ leader' = [leader EXCEPT ![c] = inflight[src[c]]]
          /\ UNCHANGED inflight
       \/ /\ src[c] \notin Known /\ inflight[src[c]] = NoCaller
          /\ inflight' = [inflight EXCEPT ![src[c]] = c]
          /\ Go(c, "cache", NoResource) /\ UNCHANGED leader
    /\ UNCHANGED <<resolved, holders, budgetVars>>

\* The select of a waiter takes ctx.Done.
WaitCancelled(c) ==
    /\ at[c] = "wait" /\ c \in cancelled
    /\ Return(c, "context")
    /\ UNCHANGED sessionVars

\* Mutant: a waiter shares the error of its leader.
WokenSharesError(c) ==
    /\ at[c] = "wait" /\ got[c] # NoResource
    /\ Return(c, got[c])
    /\ UNCHANGED sessionVars

\* ... or call.done: the resource is shared, an error is not.
Woken(c) ==
    /\ at[c] = "wait"
    /\ \/ /\ got[c] \in Errors
          /\ Go(c, "lookup", NoResource)
          /\ leader' = [leader EXCEPT ![c] = NoCaller]
       \/ /\ got[c] \in Resources
          /\ Return(c, IF c \in cancelled THEN "context" ELSE got[c])
    /\ UNCHANGED sessionVars

-----------------------------------------------------------------------------
(* resolveOne, run by the leader                                           *)

\* resolveOne goes on, or returns value.
Lead(c, place, value) == Go(c, place, value) /\ UNCHANGED <<leader, memoVars>>
Leave(c, value) == Lead(c, "leave", value)

\* The cache may hold a resource; it may be invalid under this session's limits.
CacheLookup(c) ==
    /\ at[c] = "cache"
    /\ \/ Lead(c, "slot", NoResource)
       \/ src[c] \notin Inline /\ Leave(c, "failed")
       \/ src[c] \notin Inline /\ \E x \in Resources : Lead(c, "reserve", x)
    /\ UNCHANGED <<holders, budgetVars>>

TakeSlot(c) ==
    /\ at[c] = "slot" /\ Cardinality(holders) < Slots
    /\ holders' = holders \cup {c}
    /\ Lead(c, "load", NoResource)
    /\ UNCHANGED budgetVars

SlotCancelled(c) ==
    /\ at[c] = "slot" /\ c \in cancelled
    /\ Leave(c, "context")
    /\ UNCHANGED <<holders, budgetVars>>

\* load and the probe of what it read, up to the reservation.
Load(c) ==
    /\ at[c] = "load"
    /\ \/ \E x \in Resources : Lead(c, "reserve", x)
       \/ Leave(c, "failed")
       \/ c \in cancelled /\ Leave(c, "context")
    /\ UNCHANGED <<holders, budgetVars>>

Fits(x) ==
    /\ count < MaxAssets
    /\ \A b \in Budgets : Cost[x][b] <= Limit[b] - used[b]

Charge(x) ==
    /\ count' = count + 1
    /\ used' = [b \in Budgets |-> used[b] + Cost[x][b]]

\* The context is checked, then reserve charges all budgets or none.
Reserve(c) ==
    /\ at[c] = "reserve"
    /\ \/ /\ c \in cancelled
          /\ Leave(c, "context") /\ UNCHANGED budgetVars
       \/ /\ c \notin cancelled /\ Fits(got[c])
          /\ Charge(got[c]) /\ Lead(c, "check", got[c])
       \/ /\ c \notin cancelled /\ ~Fits(got[c])
          /\ Leave(c, "failed") /\ UNCHANGED budgetVars
    /\ UNCHANGED holders

\* The context is still alive: the reservation is kept.
Commit(c) ==
    /\ at[c] = "check" /\ c \notin cancelled
    /\ Leave(c, got[c])
    /\ UNCHANGED <<holders, budgetVars>>

\* Mutant: the rollback gives back the asset, but not its bytes.
RollbackCountOnly(c) ==
    /\ at[c] = "check" /\ c \in cancelled
    /\ count' = count - 1
    /\ Leave(c, "context")
    /\ UNCHANGED <<holders, used>>

\* It is not: rollback.
Rollback(c) ==
    /\ at[c] = "check" /\ c \in cancelled
    /\ count' = count - 1
    /\ used' = [b \in Budgets |-> used[b] - Cost[got[c]][b]]
    /\ Leave(c, "context")
    /\ UNCHANGED holders

\* The deferred release of the slot, if the leader took one.
ReleaseSlot(c) ==
    /\ at[c] = "leave"
    /\ holders' = holders \ {c}
    /\ Lead(c, "publish", got[c])
    /\ UNCHANGED budgetVars

\* Waiters of c's call that have not been woken yet.
WaitersOf(c) ==
    {w \in Callers : at[w] = "wait" /\ leader[w] = c /\ got[w] = NoResource}

\* call.resource, call.err and close(call.done); c's own result is returned.
Tell(c) ==
    /\ got' = [w \in Callers |-> IF w = c THEN NoResource
                                 ELSE IF w \in WaitersOf(c) THEN got[c] ELSE got[w]]
    /\ answer' = [answer EXCEPT ![c] = got[c]]

Memoized(c) ==
    IF got[c] \in Resources THEN [resolved EXCEPT ![src[c]] = got[c]] ELSE resolved

\* Mutant: a failed call stays in inflight.
PublishKeepsFailed(c) ==
    /\ at[c] = "publish"
    /\ resolved' = Memoized(c)
    /\ inflight' = IF got[c] \in Resources
                   THEN [inflight EXCEPT ![src[c]] = NoCaller] ELSE inflight
    /\ Tell(c) /\ Forget(c)
    /\ UNCHANGED <<holders, budgetVars>>

\* Under r.mu: the memo, the end of the call, and its waiters; then Resolve
\* returns to the leader.  The offer to the cache before it is outside the model.
Publish(c) ==
    /\ at[c] = "publish"
    /\ resolved' = Memoized(c)
    /\ inflight' = [inflight EXCEPT ![src[c]] = NoCaller]
    /\ Tell(c) /\ Forget(c)
    /\ UNCHANGED <<holders, budgetVars>>

-----------------------------------------------------------------------------
LeadStep(c) ==
    \/ CacheLookup(c) \/ TakeSlot(c) \/ SlotCancelled(c) \/ Load(c) \/ Reserve(c)
    \/ Commit(c) \/ Rollback(c) \/ ReleaseSlot(c) \/ Publish(c)

ResolveStep(c) ==
    Enter(c) \/ Lookup(c) \/ WaitCancelled(c) \/ Woken(c) \/ LeadStep(c)

Next ==
    \E c \in Callers :
        \/ \E s \in Sources : Call(c, s)
        \/ Cancel(c)
        \/ ResolveStep(c)

Spec == Init /\ [][Next]_vars

\* Goroutines are scheduled, loads end (they read files, or HTTP with a
\* timeout), and the senders on a full channel are served in turn.
FairSpec ==
    /\ Spec
    /\ \A c \in Callers : WF_vars(ResolveStep(c)) /\ SF_vars(TakeSlot(c))

-----------------------------------------------------------------------------
(* Properties                                                              *)

\* Reservations that are neither committed nor rolled back.
Reserving == {c \in Callers : at[c] = "check"}
\* Reservations committed by a leader that has yet to enter them in the memo.
Committed == {c \in Callers : at[c] \in {"leave", "publish"} /\ got[c] \in Resources}
Charged == Reserving \cup Committed
CountExact == count = Cardinality(Known) + Cardinality(Charged)
KeptBytes(b) == [s \in Known |-> Cost[resolved[s]][b]]
ChargedBytes(b) == [c \in Charged |-> Cost[got[c]][b]]
BytesExact ==
    \A b \in Budgets :
        used[b] = SumFunctionOnSet(KeptBytes(b), Known)
                + SumFunctionOnSet(ChargedBytes(b), Charged)

\* The budgets are charged with exactly the resources the session keeps or is
\* about to keep: a source asked for by many is charged once, a resolution that
\* fails or is cancelled at whatever point not at all.
BudgetExact == CountExact /\ BytesExact

\* All callers that get a resource for a source get the same one, that of the
\* memo, although the image may change while the session lasts.
SameResource ==
    \A c \in Callers :
        answer[c] \in Resources => resolved[src[c]] = answer[c]

\* A caller is told of a cancellation only if its own context is done, and of
\* another failure only if it was refused at once or led the attempt itself: no
\* caller suffers for another's.
FailureIsOwn ==
    [][\A c \in Callers : answer'[c] # answer[c] =>
         /\ answer'[c] = "context" => c \in cancelled
         /\ answer'[c] = "failed" =>
              at[c] = "enter" \/ inflight[src[c]] = c]_vars

\* Every call of Resolve returns: waiters are woken, slots come back.
CallsReturn == \A c \in Callers : at[c] # "idle" ~> at[c] = "idle"

=============================================================================
