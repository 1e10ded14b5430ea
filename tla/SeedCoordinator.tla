--------------------------- MODULE SeedCoordinator ---------------------------
(***************************************************************************)
(* The TALA layout of one diagram (d2layouts/d2talalayout/layout.go).      *)
(* Layout runs every seed on a pool of worker goroutines, keeps the best   *)
(* result in whatever order the attempts arrive, may replace it by a       *)
(* compound candidate and refine that one's routes, and applies the choice *)
(* to the graph.  The caller may cancel the context at any moment.         *)
(*                                                                         *)
(* What an undisturbed attempt at seed i yields does not depend on timing: *)
(* i \in good says that it produces a layout and score[i] is its score, or *)
(* else nothing that counts.  A number that is not finite sorts after      *)
(* every finite one and equals the                                         *)
(* others that are not, as the largest penalty or area does here.          *)
(***************************************************************************)
EXTENDS Integers

CONSTANTS
    NSeeds,         \* len(seeds)
    Concurrency,    \* workers, at most one per seed
    MaxPenalty,
    MaxArea         \* bounds: scores

ASSUME SeedAssumption == NSeeds \in Nat \ {0}
ASSUME WorkerAssumption == Concurrency \in 1..NSeeds
ASSUME ScoreAssumption == MaxPenalty \in Nat /\ MaxArea \in Nat

Index == 0..(NSeeds - 1)
Workers == 1..Concurrency
Scores == [penalty : 0..MaxPenalty, area : 0..MaxArea]

VARIABLES
    good, score,    \* what the seeds yield; never changes
    jobs,           \* indices already received from the jobs channel
    at,             \* at[w]: "idle", "running", "sending" or "exited"
    job,            \* job[w]: the index w has taken last, -1 before the first
    succeeded,      \* attempts that ran to a result
    received,       \* attempts the coordinator has received
    bestIndex,      \* -1 until an attempt without error is received
    kind,           \* the selected layout: of the seed itself, its compound
                    \* candidate, or that candidate with preserved routes
    phase,          \* where Layout stands
    result,         \* "none", "error" or "applied"
    cancelled       \* ctx.Err() # nil

seedVars == <<good, score>>
poolVars == <<jobs, at, job, succeeded>>
mainVars == <<received, bestIndex, kind, phase, result>>
vars == <<seedVars, poolVars, mainVars, cancelled>>

TypeOK ==
    /\ good \subseteq Index
    /\ score \in [Index -> Scores]
    /\ jobs \in 0..NSeeds
    /\ at \in [Workers -> {"idle", "running", "sending", "exited"}]
    /\ job \in [Workers -> Index \cup {-1}]
    /\ succeeded \subseteq Index
    /\ received \subseteq Index
    /\ bestIndex \in Index \cup {-1}
    /\ kind \in {"ordinary", "compound", "rerouted"}
    /\ phase \in {"collect", "compound", "reroute", "apply", "done"}
    /\ result \in {"none", "error", "applied"}
    /\ cancelled \in BOOLEAN

Init ==
    /\ good \in SUBSET Index
    /\ score \in [Index -> Scores]
    /\ \A i \in Index \ good : score[i] = [penalty |-> 0, area |-> 0]
    /\ jobs = 0
    /\ at = [w \in Workers |-> "idle"]
    /\ job = [w \in Workers |-> -1]
    /\ succeeded = {} /\ received = {}
    /\ bestIndex = -1
    /\ kind = "ordinary" /\ phase = "collect" /\ result = "none"
    /\ cancelled = FALSE

-----------------------------------------------------------------------------
(* A worker: for i := range jobs { results <- run(i, seeds[i]) }           *)

\* Mutant: the queue of jobs holds one too many.
TakeOneMore(w) ==
    /\ at[w] = "idle" /\ jobs <= NSeeds
    /\ job' = [job EXCEPT ![w] = jobs]
    /\ jobs' = jobs + 1
    /\ at' = [at EXCEPT ![w] = "running"]
    /\ UNCHANGED <<seedVars, succeeded, mainVars, cancelled>>

Take(w) ==
    /\ at[w] = "idle" /\ jobs < NSeeds
    /\ job' = [job EXCEPT ![w] = jobs]
    /\ jobs' = jobs + 1
    /\ at' = [at EXCEPT ![w] = "running"]
    /\ UNCHANGED <<seedVars, succeeded, mainVars, cancelled>>

RunSucceeds(w) ==
    /\ at[w] = "running" /\ job[w] \in good
    /\ succeeded' = succeeded \cup {job[w]}
    /\ at' = [at EXCEPT ![w] = "sending"]
    /\ UNCHANGED <<seedVars, jobs, job, mainVars, cancelled>>

\* The attempt fails or panics by itself, or because the context is done.
RunFails(w) ==
    /\ at[w] = "running" /\ (job[w] \notin good \/ cancelled)
    /\ at' = [at EXCEPT ![w] = "sending"]
    /\ UNCHANGED <<seedVars, jobs, job, succeeded, mainVars, cancelled>>

Exit(w) ==
    /\ at[w] = "idle" /\ jobs = NSeeds
    /\ at' = [at EXCEPT ![w] = "exited"]
    /\ UNCHANGED <<seedVars, jobs, job, succeeded, mainVars, cancelled>>

-----------------------------------------------------------------------------
(* The coordinator                                                         *)

\* Mutant: the comparison has a tolerance, so equality is not transitive.
BetterTolerant(a, b) ==
    \/ a.penalty + 1 < b.penalty
    \/ a.penalty <= b.penalty + 1 /\ b.penalty <= a.penalty + 1 /\ a.area < b.area

\* layoutScore.compare(...) < 0 and == 0.
Better(a, b) == a.penalty < b.penalty \/ (a.penalty = b.penalty /\ a.area < b.area)
SameScore(a, b) == ~Better(a, b) /\ ~Better(b, a)

\* One turn of the loop over results, an unbuffered channel: w has sent.
Collect(w) ==
    /\ phase = "collect" /\ at[w] = "sending"
    /\ LET i == job[w]
           wins == \/ bestIndex = -1
                   \/ Better(score[i], score[bestIndex])
                   \/ SameScore(score[i], score[bestIndex]) /\ i > bestIndex
       IN  /\ received' = received \cup {i}
           /\ bestIndex' = IF i \in succeeded /\ wins THEN i ELSE bestIndex
    /\ at' = [at EXCEPT ![w] = "idle"]
    /\ UNCHANGED <<seedVars, jobs, job, succeeded, kind, phase, result, cancelled>>

Return(r) ==
    /\ phase' = "done"
    /\ result' = r

\* Mutant: the coordinator returns as soon as the context is done.
DecideEarly ==
    /\ phase = "collect"
    /\ cancelled \/ \A w \in Workers : at[w] = "exited"
    /\ IF cancelled \/ bestIndex = -1 THEN Return("error")
                                      ELSE phase' = "compound" /\ UNCHANGED result
    /\ UNCHANGED <<seedVars, poolVars, received, bestIndex, kind, cancelled>>

\* The channel is closed after every worker has exited.
Decide ==
    /\ phase = "collect" /\ \A w \in Workers : at[w] = "exited"
    /\ IF cancelled \/ bestIndex = -1 THEN Return("error")
                                      ELSE phase' = "compound" /\ UNCHANGED result
    /\ UNCHANGED <<seedVars, poolVars, received, bestIndex, kind, cancelled>>

\* considerSeedCandidate: a strictly better compound candidate replaces the
\* seed's result; one that fails, panics or is the same layout does not.
Consider ==
    /\ phase = "compound"
    /\ IF cancelled
       THEN Return("error") /\ UNCHANGED kind
       ELSE /\ \/ kind' = "compound" /\ phase' = "reroute"
               \/ kind' = kind /\ phase' = "apply"
            /\ UNCHANGED result
    /\ UNCHANGED <<seedVars, poolVars, received, bestIndex, cancelled>>

\* refineSeedResult with the routes of the ordinary layout.
Refine ==
    /\ phase = "reroute"
    /\ IF cancelled
       THEN Return("error") /\ UNCHANGED kind
       ELSE kind' \in {kind, "rerouted"} /\ phase' = "apply" /\ UNCHANGED result
    /\ UNCHANGED <<seedVars, poolVars, received, bestIndex, cancelled>>

\* applySeedResult: the patch may be refused, the commit is one step.
Apply ==
    /\ phase = "apply"
    /\ Return("error") \/ (~cancelled /\ Return("applied"))
    /\ UNCHANGED <<seedVars, poolVars, received, bestIndex, kind, cancelled>>

Cancel ==
    /\ ~cancelled /\ phase # "done"
    /\ cancelled' = TRUE
    /\ UNCHANGED <<seedVars, poolVars, mainVars>>

-----------------------------------------------------------------------------
WorkerStep(w) == Take(w) \/ RunSucceeds(w) \/ RunFails(w) \/ Exit(w)
MainStep == (\E w \in Workers : Collect(w)) \/ Decide \/ Consider \/ Refine \/ Apply

Next == (\E w \in Workers : WorkerStep(w)) \/ MainStep \/ Cancel

Spec == Init /\ [][Next]_vars

\* Every goroutine that can go on does; each attempt ends.
FairSpec == Spec /\ WF_vars(MainStep) /\ \A w \in Workers : WF_vars(WorkerStep(w))

-----------------------------------------------------------------------------
(* Properties                                                              *)

\* Seed i is preferred to seed j: lower penalty, then lower area, then higher
\* index.
Beats(i, j) ==
    LET p == score[i].penalty - score[j].penalty
        a == score[i].area - score[j].area
    IN  p < 0 \/ (p = 0 /\ a < 0) \/ (p = 0 /\ a = 0 /\ i > j)

\* The layout Layout goes on with comes from the seed that beats all others
\* that can produce one, whatever the order in which attempts end, and never
\* from the subset that a cancellation left.
SelectionIsBest ==
    phase \in {"compound", "reroute", "apply"} \/ result = "applied" =>
        bestIndex \in good /\ \A j \in good \ {bestIndex} : Beats(bestIndex, j)

\* Without a cancellation, Layout gives up before it has selected a layout only
\* when no seed can produce one: a failing attempt costs no other its result.
GivesUpOnlyWithoutLayout ==
    result = "error" /\ bestIndex = -1 /\ ~cancelled => good = {}

\* Layout returns, and every worker goroutine ends: none stays blocked sending
\* a result that nobody receives.
NothingLeaks == <>[](phase = "done" /\ \A w \in Workers : at[w] = "exited")

=============================================================================
