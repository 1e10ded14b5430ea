------------------------------ MODULE BundlePool ------------------------------
(***************************************************************************)
(* The worker pool of lib/imgbundler (BundleWithResolver and               *)
(* runResolverWorkersWithLimit): a producer hands the image references of  *)
(* an SVG to workers over an unbuffered channel, the workers send what     *)
(* became of them to a collector, a failure cancels the rest, and          *)
(* what was resolved until then is put into the SVG.  The resolver is only *)
(* asked: it may fail, or be cut short once the workers are cancelled.     *)
(***************************************************************************)
EXTENDS Integers, FiniteSets, Functions

CONSTANTS
    NHrefs,         \* distinct references, in the order of the document
    BundleWorkers,  \* maxImageWorkers
    Sizes,          \* lengths a replacement may have
    MaxBundled,     \* maxBundledBytes
    MaxOutput       \* maxBundledOutputBytes, less the SVG

VARIABLES
    size,       \* size[h]: the length of the replacement of h
    bundling,   \* "idle", "running", "returned"
    callerDone, \* the caller's context is done
    cause,      \* context.Cause(workerCtx), or "none"
    next,       \* what the producer sends next
    producing,  \* the producer has not closed jobs
    task,       \* task[w]: what worker w does
    results,    \* results sent and not yet received
    replaced,   \* replacements
    bundled,    \* bundledBytes
    exhausted,  \* exhaustedByError is set
    output,     \* the references replaced in the SVG that is returned
    error       \* the error returned with it

poolVars == <<next, producing, task>>
budgetVars == <<bundled, exhausted>>
ctxVars == <<callerDone, cause>>
endVars == <<output, error>>
bundleVars == <<size, bundling, ctxVars, poolVars, results, replaced, budgetVars,
                endVars>>

Hrefs == 1..NHrefs
Team == 1..BundleWorkers
Busy(h) == [at |-> "resolve", href |-> h, err |-> "none"]
Failing(h, e) == [at |-> "cancel", href |-> h, err |-> e]
Receiving == [at |-> "receive", href |-> 0, err |-> "none"]
Exited == [at |-> "exited", href |-> 0, err |-> "none"]
Errors == {"none", "image", "limit", "context", "echo"}

TypeOK ==
    /\ size \in [Hrefs -> Sizes]
    /\ bundling \in {"idle", "running", "returned"}
    /\ callerDone \in BOOLEAN /\ producing \in BOOLEAN /\ exhausted \in BOOLEAN
    /\ cause \in Errors /\ next \in 1..(NHrefs + 1)
    /\ task \in [Team -> [at : {"receive", "resolve", "cancel", "exited"},
                         href : 0..NHrefs, err : Errors]]
    /\ results \in SUBSET (Hrefs \X Errors)
    /\ replaced \subseteq Hrefs /\ output \subseteq Hrefs
    /\ bundled \in Nat /\ error \subseteq Errors

NotBegun ==
    /\ bundling = "idle" /\ callerDone = FALSE /\ cause = "none"
    /\ next = 1 /\ producing = FALSE
    /\ task = [w \in Team |-> Exited]
    /\ results = {} /\ replaced = {} /\ bundled = 0 /\ exhausted = FALSE
    /\ output = {} /\ error = {}

Init == size \in [Hrefs -> Sizes] /\ NotBegun

\* One of the initial states.
AtRest == size = [h \in Hrefs |-> CHOOSE n \in Sizes : TRUE] /\ NotBegun

\* min(maxImageWorkers, len(hrefs)) workers and the producer are started.
Begin ==
    /\ bundling = "idle"
    /\ bundling' = "running"
    /\ producing' = TRUE
    /\ task' = [w \in Team |-> IF w <= NHrefs THEN Receiving ELSE Exited]
    /\ UNCHANGED <<size, ctxVars, next, results, replaced, budgetVars, endVars>>

\* Mutant: a later cancellation replaces the cause.
LatestCause(e) == e

\* Only the first cancellation of the worker context counts.
FirstCause(e) == IF cause = "none" THEN e ELSE cause

\* The caller's context, or its timeout of five minutes, ends the workers' too.
ParentDone ==
    /\ bundling = "running" /\ ~callerDone
    /\ callerDone' = TRUE
    /\ cause' = FirstCause("context")
    /\ UNCHANGED <<size, bundling, poolVars, results, replaced, budgetVars,
                   endVars>>

-----------------------------------------------------------------------------
(* The producer and the workers                                            *)

\* jobs <- href: producer and worker meet.
HandOver(w) ==
    /\ producing /\ next <= NHrefs /\ task[w] = Receiving
    /\ task' = [task EXCEPT ![w] = Busy(next)]
    /\ next' = next + 1
    /\ UNCHANGED <<size, bundling, ctxVars, producing, results, replaced,
                   budgetVars, endVars>>

\* Mutant: the producer does not see that the workers are cancelled.
StopProducingWhenSent ==
    /\ producing
    /\ next > NHrefs
    /\ producing' = FALSE
    /\ UNCHANGED <<size, bundling, ctxVars, next, task, results, replaced,
                   budgetVars, endVars>>

\* All is sent, or the worker context is done: jobs is closed.
StopProducing ==
    /\ producing
    /\ next > NHrefs \/ cause # "none"
    /\ producing' = FALSE
    /\ UNCHANGED <<size, bundling, ctxVars, next, task, results, replaced,
                   budgetVars, endVars>>

\* The closed channel is empty.
Exit(w) ==
    /\ ~producing /\ task[w] = Receiving
    /\ task' = [task EXCEPT ![w] = Exited]
    /\ UNCHANGED <<size, bundling, ctxVars, next, producing, results, replaced,
                   budgetVars, endVars>>

\* Mutant: each replacement is compared with the whole limit.
FitsAlone(h) == ~exhausted /\ size[h] <= MaxBundled

\* reserveBundled: once refused, nothing is reserved any more.
Fits(h) == ~exhausted /\ size[h] <= MaxBundled - bundled

\* resolveReplacement and the send of its result; reserveBundled is the last
\* thing in it that can fail.
Resolve(w) ==
    LET h == task[w].href
        Report(e) ==
          /\ results' = results \cup {<<h, e>>}
          /\ task' = [task EXCEPT ![w] =
                        IF e = "none" THEN Receiving ELSE Failing(h, e)]
    IN  /\ task[w].at = "resolve"
        /\ \/ /\ Fits(h) /\ Report("none")
              /\ bundled' = bundled + size[h] /\ UNCHANGED exhausted
           \/ /\ ~Fits(h) /\ Report("limit")
              /\ exhausted' = TRUE /\ UNCHANGED bundled
           \/ Report("image") /\ UNCHANGED budgetVars
           \/ cause # "none" /\ Report("echo") /\ UNCHANGED budgetVars
        /\ UNCHANGED <<size, bundling, ctxVars, next, producing, replaced,
                       endVars>>

\* cancel(err), and return.
CancelOthers(w) ==
    /\ task[w].at = "cancel"
    /\ cause' = FirstCause(task[w].err)
    /\ task' = [task EXCEPT ![w] = Exited]
    /\ UNCHANGED <<size, bundling, callerDone, next, producing, results,
                   replaced, budgetVars, endVars>>

-----------------------------------------------------------------------------
(* The collector                                                           *)

Collect ==
    /\ bundling = "running"
    /\ \E r \in results :
         /\ results' = results \ {r}
         /\ replaced' = IF r[2] = "none" THEN replaced \cup {r[1]} ELSE replaced
    /\ UNCHANGED <<size, bundling, ctxVars, poolVars, budgetVars, endVars>>

\* applyReplacements: a context that ends, or an SVG that would be too large,
\* leaves the SVG as it was.
ApplyError ==
    IF replaced = {} THEN {}
    ELSE IF callerDone THEN {"context"}
    ELSE IF SumFunctionOnSet(size, replaced) > MaxOutput THEN {"limit"}
    ELSE {}

\* Mutant: nothing is applied after a failure.
OutputUnlessFailed == IF ApplyError = {} /\ cause = "none" THEN replaced ELSE {}

\* What was resolved is applied, whatever has failed before.
Output == IF ApplyError = {} THEN replaced ELSE {}

\* The results channel is closed when the workers are done.
Return ==
    /\ bundling = "running" /\ results = {} /\ \A w \in Team : task[w] = Exited
    /\ output' = Output
    /\ error' = ApplyError \cup ({cause} \ {"none"})
    /\ bundling' = "returned"
    /\ UNCHANGED <<size, ctxVars, poolVars, results, replaced, budgetVars>>

\* The deferred cancel(nil) ends a producer that is still there.
EndCall ==
    /\ bundling = "returned" /\ cause = "none"
    /\ cause' = "context"
    /\ UNCHANGED <<size, bundling, callerDone, poolVars, results, replaced,
                   budgetVars, endVars>>

Step ==
    \/ StopProducing \/ Collect \/ Return \/ EndCall
    \/ \E w \in Team : HandOver(w) \/ Exit(w) \/ Resolve(w) \/ CancelOthers(w)

Next == Begin \/ ParentDone \/ Step

\* The jobs are finitely many: it is enough that some goroutine that can go on
\* does.
Fairness == WF_bundleVars(Step)

Spec == Init /\ [][Next]_bundleVars /\ Fairness

-----------------------------------------------------------------------------
(* Properties                                                              *)

\* Without an error every reference is replaced; with one of another worker the
\* SVG still holds everything that was resolved before the workers ended, and
\* only an SVG that cannot be written in time or in full comes back unchanged.
PartialOutputKept ==
    bundling = "returned" =>
        /\ error = {} => output = Hrefs
        /\ ~callerDone /\ (error \subseteq {"image", "echo"}) => output = replaced
        /\ output \in {{}, replaced}

\* The error of a bundling is one that really happened: it is never what a worker
\* was cut short with because another had cancelled it; the context only when the
\* caller's has ended; an image only when a reference is missing; a limit only when
\* one was exceeded.  Of several failures it is not always the earliest: sending a
\* result and cancelling are two steps, and the first to cancel is reported.
FailureExplained ==
    bundling = "returned" =>
        /\ "echo" \notin error
        /\ "context" \in error => callerDone
        /\ "image" \in error => replaced # Hrefs
        /\ "limit" \in error => exhausted \/ SumFunctionOnSet(size, replaced) > MaxOutput

\* References resolved, on the way to the collector.
Arriving == {h \in Hrefs : <<h, "none">> \in results}

\* Concurrent reservations never exceed the limit, and what they took is what the
\* replacements need, those still under way to the collector included.
BundleWithinLimit ==
    /\ bundled <= MaxBundled
    /\ bundled = SumFunctionOnSet(size, replaced \cup Arriving)

\* A bundling that ends does so with its producer and all its workers.
BundleEnded ==
    bundling = "returned" /\ ~producing /\ \A w \in Team : task[w] = Exited

=============================================================================
