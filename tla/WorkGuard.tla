------------------------------ MODULE WorkGuard ------------------------------
(***************************************************************************)
(* WorkGuard of internal/limits: every algorithm of TALA charges its work  *)
(* to a guard, which refuses what exceeds the limit and looks at the       *)
(* context whenever the work done reaches or crosses a multiple of the     *)
(* polling stride.                                                         *)
(***************************************************************************)
EXTENDS Integers

CONSTANTS
    Strides,    \* contextCheckStride, cancellableContextCheckStride
    Limits,     \* limits a guard may be given
    Charges,    \* what Add may be asked to charge
    MaxWorkInt  \* the largest int64

VARIABLES
    guarding,   \* an operation is guarded and has seen no error
    used, limit,
    stride,     \* pollingStride
    ended,      \* the context is done
    charged,    \* history: the work charged
    since       \* history: what of it was accepted after the context had ended

guardVars == <<guarding, used, limit, stride, ended, charged, since>>

\* Integers of 64 bits wrap around.
Int64(n) ==
    LET size == 2 * (MaxWorkInt + 1)
    IN  ((n + MaxWorkInt + 1) % size) - (MaxWorkInt + 1)

TypeOK ==
    /\ guarding \in BOOLEAN /\ ended \in BOOLEAN
    /\ used \in Int /\ limit \in Limits /\ stride \in Strides
    /\ charged \in Int /\ since \in Nat

Fresh(l, s) ==
    /\ guarding = FALSE /\ used = 0 /\ limit = l /\ stride = s
    /\ ended = FALSE /\ charged = 0 /\ since = 0

Init == \E l \in Limits, s \in Strides : Fresh(l, s)
AtRest == Fresh(CHOOSE l \in Limits : TRUE, CHOOSE s \in Strides : TRUE)

-----------------------------------------------------------------------------
(* What Step and Add answer with u units done, and what they leave in used *)

Check == IF ended THEN "context" ELSE "ok"

StepUsed(u) == Int64(u + 1)
StepResult(u) ==
    IF StepUsed(u) > limit THEN "limit"
    ELSE IF StepUsed(u) % stride = 0 THEN Check
    ELSE "ok"

\* Mutant: the sum is compared, and may wrap around.
RefusesSum(u, units) == Int64(u + units) > limit

\* Whether units more are too many, compared without adding.
Refuses(u, units) == units > limit \/ u > Int64(limit - units)

\* A negative charge is an error of its own.
AddUsed(u, units) ==
    IF units < 0 THEN u
    ELSE IF Refuses(u, units) THEN Int64(limit + 1)
    ELSE Int64(u + units)

\* Mutant: only a charge that ends on a boundary polls.
PollsOnBoundary(from, to) == to % stride = 0

\* A boundary lies after from and not after to.
Polls(from, to) == to % stride = 0 \/ from \div stride # to \div stride

AddResult(u, units) ==
    IF units < 0 THEN "negative"
    ELSE IF Refuses(u, units)
    THEN IF u <= limit /\ u \div stride # limit \div stride /\ ended
         THEN "context" ELSE "limit"
    ELSE IF Polls(u, u + units) THEN Check
    ELSE "ok"

-----------------------------------------------------------------------------

\* NewWorkGuard looks at the context first.
NewWorkGuard ==
    /\ ~guarding /\ charged = 0 /\ used = 0 /\ ~ended
    /\ guarding' = TRUE
    /\ UNCHANGED <<used, limit, stride, ended, charged, since>>

End ==
    /\ guarding /\ ~ended
    /\ ended' = TRUE
    /\ UNCHANGED <<guarding, used, limit, stride, charged, since>>

\* An error ends the guarded operation.
Charge(units, left, result) ==
    /\ guarding
    /\ used' = left
    /\ charged' = charged + units
    /\ since' = IF ended /\ result = "ok" THEN since + units ELSE since
    /\ guarding' = (result = "ok")
    /\ UNCHANGED <<limit, stride, ended>>

Step == Charge(1, StepUsed(used), StepResult(used))
Add(units) == Charge(units, AddUsed(used, units), AddResult(used, units))

Next == NewWorkGuard \/ End \/ Step \/ \E units \in Charges : Add(units)

Spec == Init /\ [][Next]_guardVars

-----------------------------------------------------------------------------
(* Properties                                                              *)

\* The work accepted is counted exactly and never exceeds the limit, up to the
\* largest integer that a charge may be.
ChargesExact == guarding => used = charged /\ charged <= limit

\* Charging units at once is accepted, refused or interrupted as charging them one
\* by one would be: large charges neither skip the limit nor the context.
AddIsSteps ==
    LET results(n) == {StepResult(used + i) : i \in 0..(n - 1)} \ {"ok"}
        first(n) == CHOOSE i \in 0..(n - 1) :
                       /\ StepResult(used + i) # "ok"
                       /\ \A j \in 0..(i - 1) : StepResult(used + j) = "ok"
        steps(n) == IF results(n) = {} THEN "ok" ELSE StepResult(used + first(n))
    IN  guarding => \A n \in Charges :
            0 < n /\ n <= 2 * limit + 2 => AddResult(used, n) = steps(n)

\* An operation notices within a stride that its context has ended.
EndNoticed == guarding => since < stride

\* Charging in bulk polls for the context's end as charging one by one does.
PollingExact == AddIsSteps /\ EndNoticed

=============================================================================
