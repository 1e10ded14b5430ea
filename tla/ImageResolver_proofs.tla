------------------------ MODULE ImageResolver_proofs ------------------------
(***************************************************************************)
(* Proofs about a resolver session, for any callers, sources, resources,   *)
(* costs and limits.                                                       *)
(***************************************************************************)
EXTENDS ImageResolver, SumTheorems

Leading(c) == at[c] \in LeadingAt

\* What a leader has got, by the place it is at: the reservation is made for a
\* resource, the result is known when resolveOne returns, and a "context" error
\* is due to the leader's own context.
GotInv ==
    \A c \in Callers :
        /\ at[c] \in {"reserve", "check"} => got[c] \in Resources
        /\ at[c] \in {"leave", "publish"} => got[c] \in Results
        /\ Leading(c) /\ got[c] = "context" => c \in cancelled

\* inflight and the leaders determine each other, and a source with a leader is
\* not in the memo: there is one attempt at a time for each source.
FlightInv ==
    /\ \A c \in Callers : Leading(c) =>
         inflight[src[c]] = c /\ resolved[src[c]] = NoResource
    /\ \A s \in Sources : inflight[s] # NoCaller =>
         Leading(inflight[s]) /\ src[inflight[s]] = s

\* A waiter that has not been woken waits for a live call for its own source;
\* one that was handed a resource was handed that of the memo.
WaitInv ==
    \A w \in Callers : at[w] = "wait" =>
        /\ got[w] = NoResource => Leading(leader[w]) /\ src[leader[w]] = src[w]
                                  /\ leader[w] \in Callers
        /\ got[w] \in Resources => resolved[src[w]] = got[w]

\* SameResource is not inductive: the answer a waiter will return, and the memo
\* entry a leader will make, are decided before either returns.
IInv == TypeOK /\ GotInv /\ FlightInv /\ WaitInv /\ SameResource

-----------------------------------------------------------------------------
(* The steps of a session, by what they do to the state the invariant is    *)
(* about.                                                                  *)

\* A call that leads nothing returns; a resource it returns is in the memo.
Ends(c) ==
    /\ at[c] \in {"enter", "lookup", "wait"}
    /\ \E v \in Results :
         /\ Return(c, v)
         /\ v \in Resources => resolved[src[c]] = v
         /\ v = "context" => c \in cancelled
         /\ v = "failed" => at[c] = "enter"
    /\ UNCHANGED sessionVars

\* A call enters the loop, or starts its next turn.
Loops(c) ==
    /\ at[c] \in {"enter", "wait"}
    /\ Go(c, "lookup", NoResource)
    /\ leader' \in {leader, [leader EXCEPT ![c] = NoCaller]}
    /\ UNCHANGED sessionVars

Waits(c) ==
    /\ at[c] = "lookup" /\ inflight[src[c]] # NoCaller
    /\ Go(c, "wait", NoResource)
    /\ leader' = [leader EXCEPT ![c] = inflight[src[c]]]
    /\ UNCHANGED sessionVars

Elected(c) ==
    /\ at[c] = "lookup" /\ src[c] \notin Known /\ inflight[src[c]] = NoCaller
    /\ inflight' = [inflight EXCEPT ![src[c]] = c]
    /\ Go(c, "cache", NoResource)
    /\ UNCHANGED <<leader, resolved, holders, budgetVars>>

\* A leader goes on to place with value.
Advances(c) ==
    /\ Leading(c)
    /\ \E place \in LeadingAt, value \in Results \cup {NoResource} :
         /\ Lead(c, place, value)
         /\ place \in {"reserve", "check"} => value \in Resources
         /\ place \in {"leave", "publish"} => value \in Results
         /\ value = "context" => c \in cancelled
    /\ holders' \subseteq holders \cup {c}

Kind(c) ==
    \/ \E s \in Sources : Call(c, s)
    \/ Cancel(c) \/ Ends(c) \/ Loops(c) \/ Waits(c) \/ Elected(c) \/ Advances(c)
    \/ Publish(c)

LEMMA EveryStepIsOfAKind ==
    ASSUME TypeOK, GotInv, WaitInv, NEW c \in Callers,
           ResolveStep(c)
    PROVE  Kind(c)
<1> USE ResourcesAssumption DEF Kind, Results, Errors
<1>0. NoResource # "context" /\ "failed" # "context"
  BY DEF NoResource
<1>1. CASE Enter(c)
  BY <1>1 DEF Enter, Ends, Loops
<1>2. CASE Lookup(c)
  <2>1. CASE src[c] \in Known
    <3>1. resolved[src[c]] \in Resources
      BY <1>2, <2>1 DEF Known, TypeOK
    <3>2. Return(c, resolved[src[c]]) /\ UNCHANGED sessionVars
      BY <1>2, <2>1 DEF Lookup, sessionVars, memoVars
    <3>3. QED
      BY <1>2, <3>1, <3>2 DEF Lookup, Ends
  <2>2. CASE src[c] \notin Known
    BY <1>2, <2>2 DEF Lookup, Waits, Elected, sessionVars, memoVars
  <2>3. QED
    BY <2>1, <2>2
<1>3. CASE WaitCancelled(c)
  BY <1>3 DEF WaitCancelled, Ends
<1>4. CASE Woken(c)
  BY <1>4 DEF Woken, Ends, Loops, WaitInv
<1>5. CASE CacheLookup(c)
  BY <1>0, <1>5 DEF CacheLookup, Advances, Leave, Leading, LeadingAt
<1>6. CASE TakeSlot(c)
  BY <1>0, <1>6 DEF TakeSlot, Advances, Leading, LeadingAt
<1>7. CASE SlotCancelled(c)
  BY <1>7 DEF SlotCancelled, Advances, Leave, Leading, LeadingAt
<1>8. CASE Load(c)
  BY <1>8 DEF Load, Advances, Leave, Leading, LeadingAt
<1>9. CASE Reserve(c)
  BY <1>9 DEF Reserve, Advances, Leave, Leading, LeadingAt, GotInv
<1>10. CASE Commit(c)
  BY <1>10 DEF Commit, Advances, Leave, Leading, LeadingAt, GotInv
<1>11. CASE Rollback(c)
  BY <1>11 DEF Rollback, Advances, Leave, Leading, LeadingAt
<1>12. CASE ReleaseSlot(c)
  BY <1>12 DEF ReleaseSlot, Advances, Leading, LeadingAt, GotInv, TypeOK
<1>13. CASE Publish(c)
  BY <1>13
<1>14. QED
  BY <1>1, <1>2, <1>3, <1>4, <1>5, <1>6, <1>7, <1>8, <1>9, <1>10, <1>11, <1>12,
     <1>13 DEF ResolveStep, LeadStep

-----------------------------------------------------------------------------
(* Type correctness.                                                       *)

BudgetType ==
    /\ count \in Int /\ count <= MaxAssets
    /\ used \in [Budgets -> Int] /\ \A b \in Budgets : used[b] <= Limit[b]

\* reserve compares before it adds, and what is rolled back was added.
LEMMA BudgetTypeStep ==
    ASSUME TypeOK, GotInv, NEW c \in Callers, ResolveStep(c)
    PROVE  BudgetType'
<1> USE CostAssumption, BoundAssumption DEF BudgetType, TypeOK
<1>1. CASE Reserve(c)
  <2>1. CASE UNCHANGED budgetVars
    BY <2>1 DEF budgetVars
  <2>2. CASE Fits(got[c]) /\ Charge(got[c])
    <3>1. got[c] \in Resources
      BY <1>1 DEF Reserve, GotInv
    <3>2. \A b \in Budgets : Cost[got[c]][b] \in Nat
      BY <3>1
    <3>3. count' \in Int /\ count' <= MaxAssets
      BY <2>2 DEF Fits, Charge
    <3>4. used' \in [Budgets -> Int]
      BY <2>2, <3>2 DEF Charge
    <3>5. ASSUME NEW b \in Budgets PROVE used'[b] <= Limit[b]
      BY <2>2, <3>2 DEF Fits, Charge
    <3>6. QED
      BY <3>3, <3>4, <3>5
  <2>3. QED
    BY <1>1, <2>1, <2>2 DEF Reserve
<1>2. CASE Rollback(c)
  <2>1. got[c] \in Resources
    BY <1>2 DEF Rollback, GotInv
  <2>2. \A b \in Budgets : Cost[got[c]][b] \in Nat
    BY <2>1
  <2>3. count' \in Int /\ count' <= MaxAssets
    BY <1>2 DEF Rollback
  <2>4. used' \in [Budgets -> Int]
    BY <1>2, <2>2 DEF Rollback
  <2>5. ASSUME NEW b \in Budgets PROVE used'[b] <= Limit[b]
    BY <1>2, <2>2 DEF Rollback
  <2>6. QED
    BY <2>3, <2>4, <2>5
<1>3. CASE UNCHANGED budgetVars
  BY <1>3 DEF budgetVars
<1>4. QED
  BY <1>1, <1>2, <1>3
     DEF ResolveStep, LeadStep, Enter, Lookup, WaitCancelled, Woken, CacheLookup,
         TakeSlot, SlotCancelled, Load, Commit, ReleaseSlot, Publish, sessionVars

LEMMA TypeStep ==
    ASSUME TypeOK, BudgetType', NEW c \in Callers, Kind(c)
    PROVE  TypeOK'
<1> USE DEF TypeOK, BudgetType, sessionVars, memoVars, LeadingAt
<1>1. ASSUME NEW s \in Sources, Call(c, s) PROVE TypeOK'
  BY <1>1 DEF Call
<1>2. CASE Cancel(c)
  BY <1>2 DEF Cancel
<1>3. CASE Ends(c)
  BY <1>3 DEF Ends, Return, Forget
<1>4. CASE Loops(c)
  BY <1>4 DEF Loops, Go
<1>5. CASE Waits(c)
  BY <1>5 DEF Waits, Go
<1>6. CASE Elected(c)
  BY <1>6 DEF Elected, Go
<1>7. CASE Advances(c)
  <2>1. PICK place \in LeadingAt, value \in Results \cup {NoResource} :
          Lead(c, place, value)
    BY <1>7 DEF Advances
  <2>2. /\ at' = [at EXCEPT ![c] = place]
        /\ got' = [got EXCEPT ![c] = value]
        /\ UNCHANGED <<src, cancelled, answer, calls, leader, resolved, inflight>>
    BY <2>1 DEF Lead, Go
  <2>3. holders' \subseteq Callers
    BY <1>7 DEF Advances
  <2>4. \A d \in Callers : at'[d] # "idle" => src'[d] \in Sources
    BY <1>7, <2>2 DEF Advances, Leading
  <2>5. at' \in [Callers -> {"idle", "enter", "lookup", "wait"} \cup LeadingAt]
    BY <2>2
  <2>6. QED
    BY <2>2, <2>3, <2>4, <2>5
<1>8. CASE Publish(c)
  <2>1. /\ src[c] \in Sources /\ src' = src /\ calls' = calls
        /\ at' = [at EXCEPT ![c] = "idle"]
        /\ cancelled' = cancelled \ {c}
        /\ leader' = [leader EXCEPT ![c] = NoCaller]
        /\ answer' = [answer EXCEPT ![c] = got[c]]
        /\ inflight' = [inflight EXCEPT ![src[c]] = NoCaller]
        /\ holders' = holders
    BY <1>8 DEF Publish, Tell, Forget
  <2>2. resolved' \in [Sources -> Resources \cup {NoResource}]
    BY <1>8, <2>1 DEF Publish, Memoized
  <2>3. got' \in [Callers -> Results \cup {NoResource}]
    BY <1>8 DEF Publish, Tell
  <2>4. QED
    BY <2>1, <2>2, <2>3
<1>9. QED
  BY <1>1, <1>2, <1>3, <1>4, <1>5, <1>6, <1>7, <1>8 DEF Kind

-----------------------------------------------------------------------------
(* One attempt at a time, and one resource, for each source.               *)

LEMMA GotStep ==
    ASSUME TypeOK, GotInv, NEW c \in Callers, Kind(c)
    PROVE  GotInv'
<1> USE DEF TypeOK, GotInv, Leading, LeadingAt
<1>0. NoResource # "context"
  BY DEF NoResource
<1>1. ASSUME NEW s \in Sources, Call(c, s) PROVE GotInv'
  BY <1>1 DEF Call
<1>2. CASE Cancel(c)
  BY <1>2 DEF Cancel
<1>3. CASE Ends(c)
  BY <1>3 DEF Ends, Return, Forget
<1>4. CASE Loops(c)
  BY <1>4 DEF Loops, Go
<1>5. CASE Waits(c)
  BY <1>5 DEF Waits, Go
<1>6. CASE Elected(c)
  BY <1>0, <1>6 DEF Elected, Go
<1>7. CASE Advances(c)
  BY <1>7 DEF Advances, Lead, Go
<1>8. CASE Publish(c)
  BY <1>8 DEF Publish, Tell, Forget, WaitersOf
<1>9. QED
  BY <1>1, <1>2, <1>3, <1>4, <1>5, <1>6, <1>7, <1>8 DEF Kind

LEMMA FlightStep ==
    ASSUME TypeOK, FlightInv, NEW c \in Callers, Kind(c)
    PROVE  FlightInv'
<1> USE CallersAssumption DEF TypeOK, FlightInv, Leading, LeadingAt, sessionVars, memoVars
<1>1. ASSUME NEW s \in Sources, Call(c, s) PROVE FlightInv'
  BY <1>1 DEF Call
<1>2. CASE Cancel(c)
  BY <1>2 DEF Cancel
<1>3. CASE Ends(c)
  BY <1>3 DEF Ends, Return, Forget
<1>4. CASE Loops(c)
  BY <1>4 DEF Loops, Go
<1>5. CASE Waits(c)
  BY <1>5 DEF Waits, Go
<1>6. CASE Elected(c)
  BY <1>6 DEF Elected, Go, Known
<1>7. CASE Advances(c)
  BY <1>7 DEF Advances, Lead, Go
<1>8. CASE Publish(c)
  BY <1>8 DEF Publish, Forget, Memoized
<1>9. QED
  BY <1>1, <1>2, <1>3, <1>4, <1>5, <1>6, <1>7, <1>8 DEF Kind

LEMMA WaitStep ==
    ASSUME TypeOK, GotInv, FlightInv, WaitInv, NEW c \in Callers, Kind(c)
    PROVE  WaitInv'
<1> USE ResourcesAssumption
    DEF TypeOK, WaitInv, Leading, LeadingAt, sessionVars, memoVars
<1>1. ASSUME NEW s \in Sources, Call(c, s) PROVE WaitInv'
  BY <1>1 DEF Call
<1>2. CASE Cancel(c)
  BY <1>2 DEF Cancel
<1>3. CASE Ends(c)
  BY <1>3 DEF Ends, Return, Forget
<1>4. CASE Loops(c)
  BY <1>4 DEF Loops, Go
<1>5. CASE Waits(c)
  BY <1>5 DEF Waits, Go, FlightInv
<1>6. CASE Elected(c)
  BY <1>6 DEF Elected, Go
<1>7. CASE Advances(c)
  BY <1>7 DEF Advances, Lead, Go
<1>8. CASE Publish(c)
  <2>1. /\ src' = src /\ at' = [at EXCEPT ![c] = "idle"]
        /\ leader' = [leader EXCEPT ![c] = NoCaller]
        /\ resolved' = Memoized(c)
    BY <1>8 DEF Publish, Forget
  <2>2. ASSUME NEW w \in Callers, at'[w] = "wait"
        PROVE  /\ at[w] = "wait" /\ w # c /\ leader'[w] = leader[w]
               /\ got'[w] = IF w \in WaitersOf(c) THEN got[c] ELSE got[w]
    BY <1>8, <2>1, <2>2 DEF Publish, Tell
  <2>3. got[c] \in Resources => resolved'[src[c]] = got[c]
    BY <1>8, <2>1 DEF Publish, Memoized
  <2>4. resolved[src[c]] = NoResource
    BY <1>8 DEF Publish, FlightInv
  <2>5. \A s \in Sources : resolved[s] \in Resources => resolved'[s] = resolved[s]
    BY <2>1, <2>4 DEF Memoized
  <2>6. got[c] \in Results /\ got[c] # NoResource
    BY <1>8 DEF Publish, GotInv, NoResource, Results, Errors
  <2>7. ASSUME NEW w \in Callers, at'[w] = "wait", w \in WaitersOf(c)
        PROVE  /\ got'[w] # NoResource
               /\ got'[w] \in Resources => resolved'[src'[w]] = got'[w]
    <3>1. got'[w] = got[c] /\ src[w] = src[c]
      BY <2>2, <2>7 DEF WaitersOf
    <3>2. QED
      BY <2>1, <2>3, <2>6, <3>1
  <2>8. ASSUME NEW w \in Callers, at'[w] = "wait", w \notin WaitersOf(c)
        PROVE  /\ got'[w] = NoResource =>
                    /\ at'[leader'[w]] \in LeadingAt /\ src'[leader'[w]] = src'[w]
                    /\ leader'[w] \in Callers
               /\ got'[w] \in Resources => resolved'[src'[w]] = got'[w]
    <3>1. got'[w] = got[w] /\ at[w] = "wait" /\ leader'[w] = leader[w]
      BY <2>2, <2>8
    <3>2. got[w] = NoResource => leader[w] # c
      BY <2>8, <3>1 DEF WaitersOf
    <3>3. got'[w] = NoResource => at'[leader'[w]] \in LeadingAt
      BY <2>1, <3>1, <3>2
    <3>4. QED
      BY <2>1, <2>5, <3>1, <3>3
  <2>9. QED
    BY <2>7, <2>8
<1>9. QED
  BY <1>1, <1>2, <1>3, <1>4, <1>5, <1>6, <1>7, <1>8 DEF Kind

\* An answer comes from the memo, or is entered there as it is given, and an
\* entry is made only where there was none.
LEMMA SameResourceStep ==
    ASSUME TypeOK, FlightInv, SameResource, NEW c \in Callers, Kind(c)
    PROVE  SameResource'
<1> USE ResourcesAssumption DEF TypeOK, SameResource, sessionVars, memoVars
<1>1. ASSUME NEW s \in Sources, Call(c, s) PROVE SameResource'
  BY <1>1 DEF Call
<1>2. CASE Cancel(c)
  BY <1>2 DEF Cancel
<1>3. CASE Ends(c)
  BY <1>3 DEF Ends, Return, Forget
<1>4. CASE Loops(c)
  BY <1>4 DEF Loops, Go
<1>5. CASE Waits(c)
  BY <1>5 DEF Waits, Go
<1>6. CASE Elected(c)
  BY <1>6 DEF Elected, Go
<1>7. CASE Advances(c)
  BY <1>7 DEF Advances, Lead, Go
<1>8. CASE Publish(c)
  BY <1>8 DEF Publish, Forget, Tell, Memoized, FlightInv, Leading, LeadingAt
<1>9. QED
  BY <1>1, <1>2, <1>3, <1>4, <1>5, <1>6, <1>7, <1>8 DEF Kind

-----------------------------------------------------------------------------
(* The invariant.                                                          *)

LEMMA InitIInv == Init => IInv
<1> SUFFICES ASSUME Init PROVE IInv
  OBVIOUS
<1>1. TypeOK
  <2>1. count \in Int /\ count <= MaxAssets /\ calls \in Nat
    BY BoundAssumption DEF Init
  <2>2. used \in [Budgets -> Int] /\ \A b \in Budgets : used[b] <= Limit[b]
    BY CostAssumption DEF Init
  <2>3. QED
    BY <2>1, <2>2 DEF Init, TypeOK
<1>2. \A c \in Callers : at[c] = "idle" /\ answer[c] \notin Resources
  BY ResourcesAssumption DEF Init
<1>3. GotInv /\ FlightInv /\ WaitInv /\ SameResource
  BY <1>2 DEF Init, GotInv, FlightInv, WaitInv, SameResource, Leading, LeadingAt
<1>4. QED
  BY <1>1, <1>3 DEF IInv

\* Every step of Next is a step of the code of one caller, a call, a
\* cancellation, or a stutter.
LEMMA IInvHolds == IInv /\ [Next]_vars => IInv'
<1> SUFFICES ASSUME IInv, [Next]_vars PROVE IInv'
  OBVIOUS
<1> USE DEF IInv
<1>1. ASSUME NEW c \in Callers, Kind(c), BudgetType' PROVE IInv'
  BY <1>1, TypeStep, GotStep, FlightStep, WaitStep, SameResourceStep
<1>2. ASSUME NEW c \in Callers, ResolveStep(c) PROVE IInv'
  BY <1>1, <1>2, EveryStepIsOfAKind, BudgetTypeStep
<1>3. ASSUME UNCHANGED budgetVars PROVE BudgetType'
  BY <1>3 DEF BudgetType, TypeOK, budgetVars
<1>4. ASSUME NEW c \in Callers, (\E s \in Sources : Call(c, s)) \/ Cancel(c)
      PROVE  IInv'
  <2>1. Kind(c)
    BY <1>4 DEF Kind
  <2>2. UNCHANGED budgetVars
    BY <1>4 DEF Call, Cancel, sessionVars
  <2>3. QED
    BY <1>1, <1>3, <2>1, <2>2
<1>5. CASE UNCHANGED vars
  BY <1>5 DEF vars, callVars, sessionVars, memoVars, budgetVars, TypeOK, GotInv,
              FlightInv, WaitInv, SameResource, Leading
<1>6. QED
  BY <1>2, <1>4, <1>5 DEF Next

LEMMA IInvAlways == Spec => []IInv
  BY InitIInv, IInvHolds, PTL DEF Spec

\* The session stays in its types: no more assets than MaxAssets and no more
\* bytes than the limits are ever charged, though reserve is called by many
\* callers and rolled back by some.
THEOREM TypeOKHolds == Spec => []TypeOK
<1>1. IInv => TypeOK
  BY DEF IInv
<1>2. QED
  BY <1>1, IInvAlways, PTL

\* All callers that get a resource for a source get the one the memo has: the
\* leader's, for its waiters and for all later callers.
THEOREM SameResourceHolds == Spec => []SameResource
<1>1. IInv => SameResource
  BY DEF IInv
<1>2. QED
  BY <1>1, IInvAlways, PTL

-----------------------------------------------------------------------------
(* Whose failure a caller is told of.                                      *)

AnswerIsOwn(c) ==
    answer'[c] # answer[c] =>
       /\ answer'[c] = "context" => c \in cancelled
       /\ answer'[c] = "failed" => at[c] = "enter" \/ inflight[src[c]] = c

LEMMA AnswerStep ==
    ASSUME IInv, NEW c \in Callers, Kind(c), NEW d \in Callers
    PROVE  AnswerIsOwn(d)
<1> USE DEF IInv, TypeOK, AnswerIsOwn
<1>1. ASSUME NEW s \in Sources, Call(c, s) PROVE AnswerIsOwn(d)
  BY <1>1 DEF Call, NoResource
<1>2. CASE Cancel(c)
  BY <1>2 DEF Cancel
<1>3. CASE Ends(c)
  BY <1>3 DEF Ends, Return
<1>4. CASE Loops(c) \/ Waits(c) \/ Elected(c) \/ Advances(c)
  BY <1>4 DEF Loops, Waits, Elected, Advances, Lead, Go
<1>5. CASE Publish(c)
  <2>1. answer' = [answer EXCEPT ![c] = got[c]] /\ Leading(c)
    BY <1>5 DEF Publish, Tell, Leading, LeadingAt
  <2>2. QED
    BY <2>1 DEF GotInv, FlightInv
<1>6. QED
  BY <1>1, <1>2, <1>3, <1>4, <1>5 DEF Kind

\* A leader that fails, or whose own caller cancels it, fails no other caller:
\* an error is returned only to the caller it belongs to.
THEOREM FailureIsOwnHolds == Spec => FailureIsOwn
<1> DEFINE Own == \A c \in Callers : AnswerIsOwn(c)
<1>1. ASSUME IInv, [Next]_vars PROVE Own \/ UNCHANGED vars
  <2>1. ASSUME NEW c \in Callers, ResolveStep(c) PROVE Own
    BY <1>1, <2>1, EveryStepIsOfAKind, AnswerStep DEF IInv
  <2>2. ASSUME NEW c \in Callers, (\E s \in Sources : Call(c, s)) \/ Cancel(c)
        PROVE  Own
    BY <1>1, <2>2, AnswerStep DEF Kind
  <2>3. QED
    BY <1>1, <2>1, <2>2 DEF Next
<1>2. IInv /\ [Next]_vars =>
        [\A c \in Callers : answer'[c] # answer[c] =>
           /\ answer'[c] = "context" => c \in cancelled
           /\ answer'[c] = "failed" =>
                at[c] = "enter" \/ inflight[src[c]] = c]_vars
  BY <1>1 DEF AnswerIsOwn
<1>3. QED
  BY <1>2, IInvAlways, PTL DEF Spec, FailureIsOwn

-----------------------------------------------------------------------------
(* The number of assets.                                                   *)

LEMMA FiniteParts ==
    /\ IsFiniteSet(Known) /\ Cardinality(Known) \in Nat
    /\ IsFiniteSet(Charged) /\ Cardinality(Charged) \in Nat
<1>1. Known \subseteq Sources /\ Charged \subseteq Callers
  BY DEF Known, Charged, Reserving, Committed
<1>2. QED
  BY <1>1, SourcesAssumption, CallersAssumption, FS_Subset, FS_CardinalityType

\* What a step that charges nothing and keeps nothing leaves alone.
SameParts == count' = count /\ Known' = Known /\ Charged' = Charged

LEMMA QuietStep ==
    ASSUME IInv, NEW c \in Callers,
           \/ Enter(c) \/ Lookup(c) \/ WaitCancelled(c) \/ Woken(c)
           \/ CacheLookup(c) \/ TakeSlot(c) \/ SlotCancelled(c) \/ Load(c)
           \/ Commit(c) \/ ReleaseSlot(c)
           \/ Reserve(c) /\ UNCHANGED budgetVars
    PROVE  SameParts
<1> USE ResourcesAssumption
    DEF IInv, TypeOK, SameParts, Charged, Reserving, Committed, Known, Results,
        Errors, sessionVars, memoVars, budgetVars
<1>1. CASE Enter(c) \/ Lookup(c) \/ WaitCancelled(c) \/ Woken(c)
  BY <1>1 DEF Enter, Lookup, WaitCancelled, Woken, Return, Forget, Go
<1>2. CASE CacheLookup(c) \/ TakeSlot(c) \/ SlotCancelled(c) \/ Load(c)
  BY <1>2 DEF CacheLookup, TakeSlot, SlotCancelled, Load, Leave, Lead, Go
<1>3. CASE Commit(c) \/ ReleaseSlot(c)
  BY <1>3 DEF Commit, ReleaseSlot, Leave, Lead, Go, GotInv
<1>4. CASE Reserve(c) /\ UNCHANGED budgetVars
  <2>1. at[c] = "reserve" /\ UNCHANGED <<resolved, count>>
    BY <1>4 DEF Reserve, Leave, Lead
  <2>2. Leave(c, "context") \/ Leave(c, "failed")
    <3>1. ~Charge(got[c])
      BY <1>4 DEF Charge
    <3>2. QED
      BY <1>4, <3>1 DEF Reserve
  <2>3. QED
    BY <2>1, <2>2 DEF Leave, Lead, Go
<1>5. QED
  BY <1>1, <1>2, <1>3, <1>4

LEMMA ChargeStep ==
    ASSUME IInv, NEW c \in Callers, Reserve(c), Charge(got[c]), Lead(c, "check", got[c])
    PROVE  /\ count' = count + 1 /\ Known' = Known
           /\ c \notin Charged /\ Charged' = Charged \cup {c}
  BY DEF IInv, TypeOK, Reserve, Charge, Lead, Go, memoVars, Charged, Reserving,
         Committed, Known

LEMMA RollbackStep ==
    ASSUME IInv, NEW c \in Callers, Rollback(c)
    PROVE  /\ count' = count - 1 /\ Known' = Known
           /\ c \in Charged /\ Charged' = Charged \ {c}
  BY ResourcesAssumption
     DEF IInv, TypeOK, Rollback, Leave, Lead, Go, memoVars, Charged, Reserving,
         Committed, Known, Errors

LEMMA PublishStep ==
    ASSUME IInv, NEW c \in Callers, Publish(c)
    PROVE  /\ count' = count /\ Charged' = Charged \ {c}
           /\ \/ got[c] \in Resources /\ c \in Charged
                 /\ src[c] \notin Known /\ Known' = Known \cup {src[c]}
              \/ got[c] \notin Resources /\ c \notin Charged /\ Known' = Known
<1> USE DEF IInv, TypeOK
<1>1. count' = count /\ resolved' = Memoized(c)
  BY DEF Publish, budgetVars
<1>2. at' = [at EXCEPT ![c] = "idle"] /\ at[c] = "publish"
  BY DEF Publish, Forget
<1>3. \A w \in Callers : w # c /\ at[w] # "wait" => got'[w] = got[w]
  BY DEF Publish, Tell, WaitersOf
<1>4. Charged' = Charged \ {c}
  BY <1>2, <1>3 DEF Charged, Reserving, Committed
<1>5. c \in Charged <=> got[c] \in Resources
  BY <1>2 DEF Charged, Reserving, Committed
<1>6. src[c] \in Sources /\ resolved[src[c]] = NoResource
  BY <1>2 DEF FlightInv, Leading, LeadingAt
<1>7. ASSUME got[c] \in Resources PROVE Known' = Known \cup {src[c]}
  BY <1>1, <1>6, <1>7, ResourcesAssumption DEF Memoized, Known
<1>8. ASSUME got[c] \notin Resources PROVE Known' = Known
  BY <1>1, <1>8 DEF Memoized, Known
<1>9. QED
  BY <1>1, <1>4, <1>5, <1>6, <1>7, <1>8 DEF Known

LEMMA CountStep == IInv /\ CountExact /\ [Next]_vars => CountExact'
<1> SUFFICES ASSUME IInv, CountExact, [Next]_vars PROVE CountExact'
  OBVIOUS
<1> USE FiniteParts DEF CountExact
<1>1. ASSUME SameParts PROVE CountExact'
  BY <1>1 DEF SameParts
<1>2. ASSUME NEW c \in Callers, ResolveStep(c) PROVE CountExact'
  <2>1. CASE Reserve(c) /\ Charge(got[c]) /\ Lead(c, "check", got[c])
    <3>1. Cardinality(Charged') = Cardinality(Charged) + 1
      BY <2>1, ChargeStep, FS_AddElement
    <3>2. QED
      BY <2>1, <3>1, ChargeStep
  <2>2. CASE Rollback(c)
    <3>1. Cardinality(Charged') = Cardinality(Charged) - 1
      BY <2>2, RollbackStep, FS_RemoveElement
    <3>2. QED
      BY <2>2, <3>1, RollbackStep
  <2>3. CASE Publish(c)
    <3>1. CASE got[c] \in Resources
      <4>1. Cardinality(Charged') = Cardinality(Charged) - 1
        BY <2>3, <3>1, PublishStep, FS_RemoveElement
      <4>2. Cardinality(Known') = Cardinality(Known) + 1
        BY <2>3, <3>1, PublishStep, FS_AddElement
      <4>3. QED
        BY <2>3, <4>1, <4>2, PublishStep
    <3>2. CASE got[c] \notin Resources
      <4>1. SameParts
        BY <2>3, <3>2, PublishStep DEF SameParts
      <4>2. QED
        BY <1>1, <4>1
    <3>3. QED
      BY <3>1, <3>2
  <2>4. QED
    BY <1>1, <1>2, <2>1, <2>2, <2>3, QuietStep DEF ResolveStep, LeadStep, Reserve
<1>3. ASSUME NEW c \in Callers, (\E s \in Sources : Call(c, s)) \/ Cancel(c)
      PROVE  SameParts
  BY <1>3 DEF IInv, TypeOK, Call, Cancel, SameParts, Known, Charged, Reserving,
              Committed, sessionVars, memoVars, budgetVars
<1>4. CASE UNCHANGED vars
  BY <1>1, <1>4 DEF SameParts, vars, callVars, sessionVars, memoVars, budgetVars,
                    Known, Charged, Reserving, Committed
<1>5. QED
  BY <1>1, <1>2, <1>3, <1>4 DEF Next

LEMMA InitCount == Init => CountExact
<1> SUFFICES ASSUME Init PROVE CountExact
  OBVIOUS
<1>1. Known = {} /\ Charged = {} /\ count = 0
  BY DEF Init, Known, Charged, Reserving, Committed
<1>2. QED
  BY <1>1, FS_EmptySet DEF CountExact

LEMMA CountAlways == Spec => [](IInv /\ CountExact)
  BY InitCount, InitIInv, IInvHolds, CountStep, PTL DEF Spec

\* The asset counter is exact: one for each source in the memo and for each
\* reservation about to get there, none for a resolution that failed or was
\* rolled back.  The memo never holds more than MaxAssets.
THEOREM CountExactHolds ==
    Spec => [](CountExact /\ Cardinality(Known) <= MaxAssets)
<1>1. IInv /\ CountExact => Cardinality(Known) <= MaxAssets
  BY FiniteParts, BoundAssumption DEF IInv, TypeOK, CountExact
<1>2. QED
  BY <1>1, CountAlways, PTL

-----------------------------------------------------------------------------
(* The bytes.                                                              *)

\* What is kept or charged has a cost.
LEMMA Costs ==
    ASSUME IInv, NEW b \in Budgets
    PROVE  /\ used[b] \in Int
           /\ \A s \in Known : KeptBytes(b)[s] \in Int
           /\ \A c \in Charged : ChargedBytes(b)[c] \in Int
           /\ SumFunctionOnSet(KeptBytes(b), Known) \in Int
           /\ SumFunctionOnSet(ChargedBytes(b), Charged) \in Int
<1>1. \A x \in Resources : Cost[x][b] \in Int
  BY CostAssumption
<1>2. \A s \in Known : resolved[s] \in Resources
  BY DEF IInv, TypeOK, Known
<1>3. \A c \in Charged : got[c] \in Resources
  BY DEF IInv, GotInv, Charged, Reserving, Committed
<1>4. /\ \A s \in Known : KeptBytes(b)[s] \in Int
      /\ \A c \in Charged : ChargedBytes(b)[c] \in Int
  BY <1>1, <1>2, <1>3 DEF KeptBytes, ChargedBytes
<1> QED
  BY <1>4, FiniteParts, SumInt DEF IInv, TypeOK

\* What a step that is not quiet does to the bytes: nobody else's change.
KeepsOthers(c) ==
    /\ \A s \in Known : resolved'[s] = resolved[s]
    /\ \A d \in Callers : d \in Charged /\ d # c => got'[d] = got[d]

LEMMA OthersKept ==
    ASSUME IInv, NEW c \in Callers, Reserve(c) \/ Rollback(c) \/ Publish(c)
    PROVE  KeepsOthers(c)
<1> USE DEF IInv, TypeOK, KeepsOthers
<1>1. CASE Reserve(c) \/ Rollback(c)
  BY <1>1 DEF Reserve, Rollback, Leave, Lead, Go, memoVars
<1>2. CASE Publish(c)
  <2>1. \A d \in Callers : d # c /\ at[d] # "wait" => got'[d] = got[d]
    BY <1>2 DEF Publish, Tell, WaitersOf
  <2>2. src[c] \notin Known /\ resolved' = Memoized(c)
    BY <1>2 DEF Publish, FlightInv, Leading, LeadingAt, Known
  <2> QED
    BY <2>1, <2>2 DEF Memoized, Known, Charged, Reserving, Committed
<1> QED
  BY <1>1, <1>2

\* A quiet step changes neither the bytes nor what they are for.
SameBytes ==
    /\ used' = used
    /\ \A s \in Known : resolved'[s] = resolved[s]
    /\ \A c \in Charged : got'[c] = got[c]

LEMMA QuietBytes ==
    ASSUME IInv, NEW c \in Callers,
           \/ Enter(c) \/ Lookup(c) \/ WaitCancelled(c) \/ Woken(c)
           \/ CacheLookup(c) \/ TakeSlot(c) \/ SlotCancelled(c) \/ Load(c)
           \/ Commit(c) \/ ReleaseSlot(c)
           \/ Reserve(c) /\ UNCHANGED budgetVars
    PROVE  SameBytes
<1> USE DEF IInv, TypeOK, SameBytes, Charged, Reserving, Committed, sessionVars,
        memoVars, budgetVars
<1>1. CASE Enter(c) \/ Lookup(c) \/ WaitCancelled(c) \/ Woken(c)
  BY <1>1 DEF Enter, Lookup, WaitCancelled, Woken, Return, Forget, Go
<1>2. CASE CacheLookup(c) \/ TakeSlot(c) \/ SlotCancelled(c) \/ Load(c)
  BY <1>2 DEF CacheLookup, TakeSlot, SlotCancelled, Load, Leave, Lead, Go
<1>3. CASE Commit(c) \/ ReleaseSlot(c)
  BY <1>3 DEF Commit, ReleaseSlot, Leave, Lead, Go
<1>4. CASE Reserve(c) /\ UNCHANGED budgetVars
  BY <1>4 DEF Reserve, Leave, Lead, Go
<1> QED
  BY <1>1, <1>2, <1>3, <1>4

LEMMA BytesQuiet ==
    ASSUME BytesExact, SameParts, SameBytes
    PROVE  BytesExact'
<1> SUFFICES ASSUME NEW b \in Budgets
             PROVE  (used[b] = SumFunctionOnSet(KeptBytes(b), Known)
                             + SumFunctionOnSet(ChargedBytes(b), Charged))'
  BY DEF BytesExact
<1>1. Known' = Known /\ Charged' = Charged
  BY DEF SameParts
<1>2. KeptBytes(b)' = KeptBytes(b) /\ ChargedBytes(b)' = ChargedBytes(b)
  BY <1>1 DEF SameBytes, KeptBytes, ChargedBytes
<1> QED
  BY <1>1, <1>2 DEF BytesExact, SameBytes

LEMMA BytesStep == IInv /\ BytesExact /\ [Next]_vars => BytesExact'
<1> SUFFICES ASSUME IInv, BytesExact, [Next]_vars PROVE BytesExact'
  OBVIOUS
<1>1. ASSUME NEW c \in Callers, ResolveStep(c) PROVE BytesExact'
  <2>1. CASE /\ ~(Reserve(c) /\ Charge(got[c]) /\ Lead(c, "check", got[c]))
             /\ ~Rollback(c) /\ ~Publish(c)
    BY <1>1, <2>1, QuietStep, QuietBytes, BytesQuiet DEF ResolveStep, LeadStep, Reserve
  <2> SUFFICES ASSUME ~(/\ ~(Reserve(c) /\ Charge(got[c]) /\ Lead(c, "check", got[c]))
                        /\ ~Rollback(c) /\ ~Publish(c)),
                      NEW b \in Budgets
               PROVE  (used[b] = SumFunctionOnSet(KeptBytes(b), Known)
                               + SumFunctionOnSet(ChargedBytes(b), Charged))'
    BY <2>1 DEF BytesExact
  <2> DEFINE kept == SumFunctionOnSet(KeptBytes(b), Known)
             charged == SumFunctionOnSet(ChargedBytes(b), Charged)
  <2> SUFFICES used'[b] = kept' + charged'
    OBVIOUS
  <2>2. used[b] = kept + charged
    BY DEF BytesExact
  <2>3. KeepsOthers(c)
    BY OthersKept
  <2>4. /\ used[b] \in Int /\ kept \in Int /\ charged \in Int
    BY Costs
  <2>5. ASSUME Known' = Known PROVE kept' = kept
    <3>1. KeptBytes(b)' = KeptBytes(b)
      BY <2>3, <2>5 DEF KeptBytes, KeepsOthers
    <3> QED
      BY <2>5, <3>1
  <2>c. /\ \A s \in Known : KeptBytes(b)[s] \in Int
        /\ \A d \in Charged : ChargedBytes(b)[d] \in Int
        /\ IsFiniteSet(Known) /\ IsFiniteSet(Charged)
    BY Costs, FiniteParts
  <2>6. CASE Reserve(c) /\ Charge(got[c]) /\ Lead(c, "check", got[c])
    <3>1. Known' = Known /\ c \notin Charged /\ Charged' = Charged \cup {c}
      BY <2>6, ChargeStep
    <3>2. got'[c] = got[c] /\ got[c] \in Resources /\ Cost[got[c]][b] \in Int
      BY <2>6, CostAssumption DEF Reserve, Lead, Go, IInv, TypeOK, GotInv
    <3>3. /\ ChargedBytes(b)'[c] = Cost[got[c]][b]
          /\ \A d \in Charged : ChargedBytes(b)'[d] = ChargedBytes(b)[d]
      BY <2>3, <3>1, <3>2 DEF ChargedBytes, KeepsOthers, Charged, Reserving, Committed
    <3>4. charged' = charged + Cost[got[c]][b]
      BY <2>c, <3>1, <3>2, <3>3, SumGrow
    <3>5. used'[b] = used[b] + Cost[got[c]][b]
      BY <2>6 DEF Charge
    <3>6. kept' = kept
      BY <2>5, <3>1
    <3> HIDE DEF kept, charged
    <3> QED
      BY <2>2, <2>4, <3>2, <3>4, <3>5, <3>6
  <2>7. CASE Rollback(c)
    <3>1. Known' = Known /\ c \in Charged /\ Charged' = Charged \ {c}
      BY <2>7, RollbackStep
    <3>2. got[c] \in Resources /\ Cost[got[c]][b] \in Int
      BY <2>7, CostAssumption DEF Rollback, IInv, GotInv
    <3>3. /\ ChargedBytes(b)[c] = Cost[got[c]][b]
          /\ \A d \in Charged \ {c} : ChargedBytes(b)'[d] = ChargedBytes(b)[d]
      BY <2>3, <3>1, <3>2 DEF ChargedBytes, KeepsOthers, Charged, Reserving, Committed
    <3>4. charged' = charged - Cost[got[c]][b]
      <4>1. SumFunctionOnSet(ChargedBytes(b)', Charged \ {c})
              = SumFunctionOnSet(ChargedBytes(b), Charged) - ChargedBytes(b)[c]
        BY <2>c, <3>1, <3>3, SumShrink
      <4> QED
        BY <3>1, <3>3, <4>1
    <3>5. used'[b] = used[b] - Cost[got[c]][b]
      BY <2>7 DEF Rollback
    <3>6. kept' = kept
      BY <2>5, <3>1
    <3> HIDE DEF kept, charged
    <3> QED
      BY <2>2, <2>4, <3>2, <3>4, <3>5, <3>6
  <2>8. CASE Publish(c)
    <3>1. used'[b] = used[b]
      BY <2>8 DEF Publish, budgetVars
    <3>2. CASE got[c] \notin Resources
      <4>1. Known' = Known /\ Charged' = Charged /\ c \notin Charged
        BY <2>8, <3>2, PublishStep
      <4>2. ChargedBytes(b)' = ChargedBytes(b)
        BY <2>3, <4>1 DEF ChargedBytes, KeepsOthers, Charged, Reserving, Committed
      <4>3. charged' = charged /\ kept' = kept
        BY <2>5, <4>1, <4>2
      <4> HIDE DEF kept, charged
      <4> QED
        BY <2>2, <3>1, <4>3
    <3>3. CASE got[c] \in Resources
      <4>1. /\ c \in Charged /\ Charged' = Charged \ {c}
            /\ src[c] \notin Known /\ Known' = Known \cup {src[c]}
        BY <2>8, <3>3, PublishStep
      <4>2. Cost[got[c]][b] \in Int
        BY <3>3, CostAssumption
      <4>3. /\ ChargedBytes(b)[c] = Cost[got[c]][b]
            /\ \A d \in Charged \ {c} : ChargedBytes(b)'[d] = ChargedBytes(b)[d]
        BY <2>3, <4>1 DEF ChargedBytes, KeepsOthers, Charged, Reserving, Committed
      <4>4. charged' = charged - Cost[got[c]][b]
        BY <2>c, <4>1, <4>2, <4>3, SumShrink
      <4>5. resolved'[src[c]] = got[c]
        BY <2>8, <3>3 DEF Publish, Memoized, IInv, TypeOK
      <4>6. /\ KeptBytes(b)'[src[c]] = Cost[got[c]][b]
            /\ \A s \in Known : KeptBytes(b)'[s] = KeptBytes(b)[s]
        BY <2>3, <4>1, <4>5 DEF KeptBytes, KeepsOthers
      <4>7. kept' = kept + Cost[got[c]][b]
        BY <2>c, <4>1, <4>2, <4>6, SumGrow
      <4> HIDE DEF kept, charged
      <4> QED
        BY <2>2, <2>4, <3>1, <4>2, <4>4, <4>7
    <3> QED
      BY <3>2, <3>3
  <2> QED
    BY <2>6, <2>7, <2>8
<1>2. ASSUME NEW c \in Callers, (\E s \in Sources : Call(c, s)) \/ Cancel(c)
      PROVE  SameParts /\ SameBytes
  BY <1>2 DEF IInv, TypeOK, Call, Cancel, SameParts, SameBytes, Known, Charged,
              Reserving, Committed, sessionVars, memoVars, budgetVars
<1>3. CASE UNCHANGED vars
  BY <1>3, BytesQuiet
     DEF SameParts, SameBytes, vars, callVars, sessionVars, memoVars, budgetVars,
         Known, Charged, Reserving, Committed
<1> QED
  BY <1>1, <1>2, <1>3, BytesQuiet DEF Next

LEMMA InitBytes == Init => BytesExact
<1> SUFFICES ASSUME Init, NEW b \in Budgets
             PROVE  used[b] = SumFunctionOnSet(KeptBytes(b), Known)
                            + SumFunctionOnSet(ChargedBytes(b), Charged)
  BY DEF BytesExact
<1>1. Known = {} /\ Charged = {} /\ used[b] = 0
  BY DEF Init, Known, Charged, Reserving, Committed
<1>2. /\ SumFunctionOnSet(KeptBytes(b), Known) = 0
      /\ SumFunctionOnSet(ChargedBytes(b), Charged) = 0
  BY <1>1, SumEmpty
<1> QED
  BY <1>1, <1>2

\* The budgets are exact, in assets and in bytes: they are charged with what the
\* memo keeps and with the reservations about to get there, each source once,
\* and with nothing that failed or was rolled back.
THEOREM BudgetExactHolds == Spec => []BudgetExact
<1>1. Init => BytesExact
  BY InitBytes
<1>2. IInv /\ CountExact => (BytesExact => BudgetExact)
  BY DEF BudgetExact
<1> QED
  BY <1>1, <1>2, CountAlways, BytesStep, PTL DEF Spec

=============================================================================
