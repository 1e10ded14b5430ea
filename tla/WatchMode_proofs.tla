-------------------------- MODULE WatchMode_proofs --------------------------
(***************************************************************************)
(* Proofs about watch mode.  The serving side, for every finite set of     *)
(* connections and every number of results: the inductive invariant Inv,   *)
(* no lost wakeup, monotone views, a drained shutdown, and the refinement  *)
(* of ResultFeed.  The file side, for every set of imports and any number  *)
(* of edits: its types, no empty burst, no blind spot, and no change that  *)
(* goes unnoticed.  Both together: they implement each, a tab that waits   *)
(* shows what is on disk, and the loops end before the file watcher does.  *)
(***************************************************************************)
EXTENDS WatchMode, FiniteSetTheorems, TLAPS

(* How Cardinality(Active) follows an update of one connection.            *)

LEMMA ActiveFinite == IsFiniteSet(Active)
  BY ClientsAssumption, FS_Subset DEF Active

LEMMA CountUp ==
  ASSUME NEW c \in Clients, conn \in [Clients -> {"idle", "refused"} \cup Counted],
         conn[c] \notin Counted, NEW s \in Counted,
         conn' = [conn EXCEPT ![c] = s]
  PROVE  Cardinality(Active') = Cardinality(Active) + 1
<1>1. Active' = Active \cup {c} /\ c \notin Active
  BY DEF Active
<1>2. QED
  BY <1>1, ActiveFinite, FS_AddElement

LEMMA CountDown ==
  ASSUME NEW c \in Clients, conn \in [Clients -> {"idle", "refused"} \cup Counted],
         conn[c] \in Counted, NEW s, s \notin Counted,
         conn' = [conn EXCEPT ![c] = s]
  PROVE  /\ Cardinality(Active') = Cardinality(Active) - 1
         /\ Cardinality(Active') \in Nat
<1>1. Active' = Active \ {c} /\ c \in Active
  BY DEF Active
<1>2. IsFiniteSet(Active') /\ Cardinality(Active') = Cardinality(Active) - 1
  BY <1>1, ActiveFinite, FS_RemoveElement
<1>3. QED
  BY <1>2, FS_CardinalityType

LEMMA CountSame ==
  ASSUME NEW c \in Clients, conn \in [Clients -> {"idle", "refused"} \cup Counted],
         NEW s, s \in Counted <=> conn[c] \in Counted,
         conn' = [conn EXCEPT ![c] = s]
  PROVE  Active' = Active
  BY DEF Active

-----------------------------------------------------------------------------
LEMMA InitInv == Init => Inv
<1> SUFFICES ASSUME Init PROVE Inv
  OBVIOUS
<1>1. TypeOK
  <2>1. /\ res \in 0..MaxRes
        /\ got \in [Clients -> 0..MaxRes]
        /\ sent \in [Clients -> 0..MaxRes]
        /\ wg \in Nat
    BY MaxResAssumption DEF Init
  <2>2. token \in [Clients -> BOOLEAN]
    BY Zenon DEF Init
  <2>3. conn \in [Clients -> {"idle", "refused"} \cup Counted]
    BY DEF Init
  <2>4. QED
    BY <2>1, <2>2, <2>3 DEF Init, TypeOK
<1>2. RegisteredInv /\ TodoInv /\ FreshInv /\ CloseInv
  BY MaxResAssumption
     DEF Init, RegisteredInv, Registered, TodoInv, FreshInv, CloseInv
<1>3. CountInv
  <2>1. Active = {}
    BY DEF Init, Active, Counted, Registered
  <2>2. QED
    BY <2>1, FS_EmptySet DEF Init, CountInv
<1>4. QED
  BY <1>1, <1>2, <1>3 DEF Inv

-----------------------------------------------------------------------------
(* Inv is preserved: one step per action, under it one per group of        *)
(* conjuncts the action can disturb.                                       *)

LEMMA NextInv == Inv /\ [Next]_vars => Inv'
<1> SUFFICES ASSUME Inv, [Next]_vars PROVE Inv'
  OBVIOUS
<1> USE DEF Inv, TypeOK, bcVars, mainVars, clientVars
<1>1. ASSUME NEW c \in Clients, HandleWatch(c) PROVE Inv'
  <2>1. CountInv' /\ wg' \in Nat
    <3>1. CASE closing
      BY <1>1, <3>1, CountSame DEF HandleWatch, CountInv, Counted, Registered
    <3>2. CASE ~closing
      BY <1>1, <3>2, CountUp DEF HandleWatch, CountInv, Counted, Registered
    <3>3. QED
      BY <3>1, <3>2
  <2>2. TypeOK'
    BY <1>1, <2>1, MaxResAssumption DEF HandleWatch, Counted, Registered, Loops
  <2>3. RegisteredInv' /\ TodoInv'
    BY <1>1 DEF HandleWatch, RegisteredInv, TodoInv, Registered, MuFree
  <2>4. FreshInv'
    BY <1>1
       DEF HandleWatch, FreshInv, SignalDue, TodoInv, RegisteredInv, Registered,
           MuFree
  <2>5. CloseInv'
    BY <1>1 DEF HandleWatch, CloseInv
  <2>6. QED
    BY <2>1, <2>2, <2>3, <2>4, <2>5
<1>2. ASSUME NEW c \in Clients, AcceptFail(c) PROVE Inv'
  <2>1. CountInv' /\ wg' \in Nat
    BY <1>2, CountDown DEF AcceptFail, CountInv, Counted, Registered
  <2>2. TypeOK'
    BY <1>2, <2>1, MaxResAssumption DEF AcceptFail, Counted, Registered, Loops
  <2>3. RegisteredInv' /\ TodoInv'
    BY <1>2 DEF AcceptFail, RegisteredInv, TodoInv, Registered, MuFree
  <2>4. FreshInv'
    BY <1>2
       DEF AcceptFail, FreshInv, SignalDue, TodoInv, RegisteredInv, Registered,
           MuFree
  <2>5. CloseInv'
    BY <1>2, ActiveFinite, FS_EmptySet
       DEF AcceptFail, CloseInv, CountInv, Active, Counted
  <2>6. QED
    BY <2>1, <2>2, <2>3, <2>4, <2>5
<1>3. ASSUME NEW c \in Clients, Accept(c) PROVE Inv'
  <2>1. CountInv' /\ wg' \in Nat
    BY <1>3, CountSame DEF Accept, CountInv, Counted, Registered
  <2>2. TypeOK'
    BY <1>3, <2>1, MaxResAssumption DEF Accept, Counted, Registered, Loops
  <2>3. RegisteredInv' /\ TodoInv'
    BY <1>3 DEF Accept, RegisteredInv, TodoInv, Registered, MuFree
  <2>4. FreshInv'
    BY <1>3
       DEF Accept, FreshInv, SignalDue, TodoInv, RegisteredInv, Registered,
           MuFree
  <2>5. CloseInv'
    BY <1>3 DEF Accept, CloseInv
  <2>6. QED
    BY <2>1, <2>2, <2>3, <2>4, <2>5
<1>4. ASSUME NEW c \in Clients, Register(c) PROVE Inv'
  <2>1. CountInv' /\ wg' \in Nat
    BY <1>4, CountSame DEF Register, CountInv, Counted, Registered
  <2>2. TypeOK'
    BY <1>4, <2>1, MaxResAssumption DEF Register, Counted, Registered, Loops
  <2>3. RegisteredInv' /\ TodoInv'
    BY <1>4 DEF Register, RegisteredInv, TodoInv, Registered, MuFree
  <2>4. FreshInv'
    BY <1>4
       DEF Register, FreshInv, SignalDue, TodoInv, RegisteredInv, Registered,
           MuFree
  <2>5. CloseInv'
    BY <1>4 DEF Register, CloseInv
  <2>6. QED
    BY <2>1, <2>2, <2>3, <2>4, <2>5
<1>5. ASSUME NEW c \in Clients, GetRes(c) PROVE Inv'
  <2>1. CountInv' /\ wg' \in Nat
    BY <1>5, CountSame DEF GetRes, CountInv, Counted, Registered
  <2>2. TypeOK'
    BY <1>5, <2>1, MaxResAssumption DEF GetRes, Counted, Registered, Loops
  <2>3. RegisteredInv' /\ TodoInv'
    BY <1>5 DEF GetRes, RegisteredInv, TodoInv, Registered, MuFree
  <2>4. FreshInv'
    BY <1>5
       DEF GetRes, FreshInv, SignalDue, TodoInv, RegisteredInv, Registered,
           MuFree
  <2>5. CloseInv'
    BY <1>5 DEF GetRes, CloseInv
  <2>6. QED
    BY <2>1, <2>2, <2>3, <2>4, <2>5
<1>6. ASSUME NEW c \in Clients, Write(c) PROVE Inv'
  <2>1. CountInv' /\ wg' \in Nat
    BY <1>6, CountSame DEF Write, CountInv, Counted, Registered
  <2>2. TypeOK'
    BY <1>6, <2>1, MaxResAssumption DEF Write, Counted, Registered, Loops
  <2>3. RegisteredInv' /\ TodoInv'
    BY <1>6 DEF Write, RegisteredInv, TodoInv, Registered, MuFree
  <2>4. FreshInv'
    BY <1>6
       DEF Write, FreshInv, SignalDue, TodoInv, RegisteredInv, Registered,
           MuFree
  <2>5. CloseInv'
    BY <1>6 DEF Write, CloseInv
  <2>6. QED
    BY <2>1, <2>2, <2>3, <2>4, <2>5
<1>7. ASSUME NEW c \in Clients, WriteFail(c) PROVE Inv'
  <2>1. CountInv' /\ wg' \in Nat
    BY <1>7, CountSame DEF WriteFail, CountInv, Counted, Registered
  <2>2. TypeOK'
    BY <1>7, <2>1, MaxResAssumption DEF WriteFail, Counted, Registered, Loops
  <2>3. RegisteredInv' /\ TodoInv'
    BY <1>7 DEF WriteFail, RegisteredInv, TodoInv, Registered, MuFree
  <2>4. FreshInv'
    BY <1>7
       DEF WriteFail, FreshInv, SignalDue, TodoInv, RegisteredInv, Registered,
           MuFree
  <2>5. CloseInv'
    BY <1>7 DEF WriteFail, CloseInv
  <2>6. QED
    BY <2>1, <2>2, <2>3, <2>4, <2>5
<1>8. ASSUME NEW c \in Clients, Receive(c) PROVE Inv'
  <2>1. CountInv' /\ wg' \in Nat
    BY <1>8, CountSame DEF Receive, CountInv, Counted, Registered
  <2>2. TypeOK'
    BY <1>8, <2>1, MaxResAssumption DEF Receive, Counted, Registered, Loops
  <2>3. RegisteredInv' /\ TodoInv'
    BY <1>8 DEF Receive, RegisteredInv, TodoInv, Registered, MuFree
  <2>4. FreshInv'
    BY <1>8
       DEF Receive, FreshInv, SignalDue, TodoInv, RegisteredInv, Registered,
           MuFree
  <2>5. CloseInv'
    BY <1>8 DEF Receive, CloseInv
  <2>6. QED
    BY <2>1, <2>2, <2>3, <2>4, <2>5
<1>9. ASSUME NEW c \in Clients, PeerGone(c) PROVE Inv'
  <2>1. CountInv' /\ wg' \in Nat
    BY <1>9, CountSame DEF PeerGone, CountInv, Counted, Registered
  <2>2. TypeOK'
    BY <1>9, <2>1, MaxResAssumption DEF PeerGone, Counted, Registered, Loops
  <2>3. RegisteredInv' /\ TodoInv'
    BY <1>9 DEF PeerGone, RegisteredInv, TodoInv, Registered, MuFree
  <2>4. FreshInv'
    BY <1>9
       DEF PeerGone, FreshInv, SignalDue, TodoInv, RegisteredInv, Registered,
           MuFree
  <2>5. CloseInv'
    BY <1>9 DEF PeerGone, CloseInv
  <2>6. QED
    BY <2>1, <2>2, <2>3, <2>4, <2>5
<1>10. ASSUME NEW c \in Clients, Deregister(c) PROVE Inv'
  <2>1. CountInv' /\ wg' \in Nat
    BY <1>10, CountSame DEF Deregister, CountInv, Counted, Registered
  <2>2. TypeOK'
    BY <1>10, <2>1, MaxResAssumption DEF Deregister, Counted, Registered, Loops
  <2>3. RegisteredInv' /\ TodoInv'
    BY <1>10 DEF Deregister, RegisteredInv, TodoInv, Registered, MuFree
  <2>4. FreshInv'
    BY <1>10
       DEF Deregister, FreshInv, SignalDue, TodoInv, RegisteredInv, Registered,
           MuFree
  <2>5. CloseInv'
    BY <1>10 DEF Deregister, CloseInv
  <2>6. QED
    BY <2>1, <2>2, <2>3, <2>4, <2>5
<1>11. ASSUME NEW c \in Clients, Release(c) PROVE Inv'
  <2>1. CountInv' /\ wg' \in Nat
    BY <1>11, CountDown DEF Release, CountInv, Counted, Registered
  <2>2. TypeOK'
    BY <1>11, <2>1, MaxResAssumption DEF Release, Counted, Registered, Loops
  <2>3. RegisteredInv' /\ TodoInv'
    BY <1>11 DEF Release, RegisteredInv, TodoInv, Registered, MuFree
  <2>4. FreshInv'
    BY <1>11
       DEF Release, FreshInv, SignalDue, TodoInv, RegisteredInv, Registered,
           MuFree
  <2>5. CloseInv'
    BY <1>11, ActiveFinite, FS_EmptySet
       DEF Release, CloseInv, CountInv, Active, Counted
  <2>6. QED
    BY <2>1, <2>2, <2>3, <2>4, <2>5
<1>12. CASE BroadcastStore
  <2>1. CountInv' /\ wg' \in Nat
    BY <1>12 DEF BroadcastStore, CountInv, Active
  <2>2. TypeOK'
    BY <1>12, <2>1, MaxResAssumption
       DEF BroadcastStore, Counted, Registered, Loops
  <2>3. RegisteredInv' /\ TodoInv'
    BY <1>12 DEF BroadcastStore, RegisteredInv, TodoInv, Registered, MuFree
  <2>4. FreshInv'
    BY <1>12
       DEF BroadcastStore, FreshInv, SignalDue, TodoInv, RegisteredInv,
           Registered, MuFree
  <2>5. CloseInv'
    BY <1>12 DEF BroadcastStore, CloseInv
  <2>6. QED
    BY <2>1, <2>2, <2>3, <2>4, <2>5
<1>13. CASE BroadcastLock
  <2>1. CountInv' /\ wg' \in Nat
    BY <1>13 DEF BroadcastLock, CountInv, Active
  <2>2. TypeOK'
    BY <1>13, <2>1, MaxResAssumption
       DEF BroadcastLock, Counted, Registered, Loops
  <2>3. RegisteredInv' /\ TodoInv'
    BY <1>13 DEF BroadcastLock, RegisteredInv, TodoInv, Registered, MuFree
  <2>4. FreshInv'
    BY <1>13
       DEF BroadcastLock, FreshInv, SignalDue, TodoInv, RegisteredInv,
           Registered, MuFree
  <2>5. CloseInv'
    BY <1>13 DEF BroadcastLock, CloseInv
  <2>6. QED
    BY <2>1, <2>2, <2>3, <2>4, <2>5
<1>14. ASSUME NEW c \in Clients, BroadcastSignal(c) PROVE Inv'
  <2>1. CountInv' /\ wg' \in Nat
    BY <1>14 DEF BroadcastSignal, CountInv, Active
  <2>2. TypeOK'
    BY <1>14, <2>1, MaxResAssumption
       DEF BroadcastSignal, Counted, Registered, Loops
  <2>3. RegisteredInv' /\ TodoInv'
    BY <1>14 DEF BroadcastSignal, RegisteredInv, TodoInv, Registered, MuFree
  <2>4. FreshInv'
    BY <1>14
       DEF BroadcastSignal, FreshInv, SignalDue, TodoInv, RegisteredInv,
           Registered, MuFree
  <2>5. CloseInv'
    BY <1>14 DEF BroadcastSignal, CloseInv
  <2>6. QED
    BY <2>1, <2>2, <2>3, <2>4, <2>5
<1>15. CASE BroadcastUnlock
  <2>1. CountInv' /\ wg' \in Nat
    BY <1>15 DEF BroadcastUnlock, CountInv, Active
  <2>2. TypeOK'
    BY <1>15, <2>1, MaxResAssumption
       DEF BroadcastUnlock, Counted, Registered, Loops
  <2>3. RegisteredInv' /\ TodoInv'
    BY <1>15 DEF BroadcastUnlock, RegisteredInv, TodoInv, Registered, MuFree
  <2>4. FreshInv'
    BY <1>15
       DEF BroadcastUnlock, FreshInv, SignalDue, TodoInv, RegisteredInv,
           Registered, MuFree
  <2>5. CloseInv'
    BY <1>15 DEF BroadcastUnlock, CloseInv
  <2>6. QED
    BY <2>1, <2>2, <2>3, <2>4, <2>5
<1>16. CASE CompileLoopExit
  <2>1. CountInv' /\ wg' \in Nat
    BY <1>16 DEF CompileLoopExit, CountInv, Active
  <2>2. TypeOK'
    BY <1>16, <2>1, MaxResAssumption
       DEF CompileLoopExit, Counted, Registered, Loops
  <2>3. RegisteredInv' /\ TodoInv'
    BY <1>16 DEF CompileLoopExit, RegisteredInv, TodoInv, Registered, MuFree
  <2>4. FreshInv'
    BY <1>16
       DEF CompileLoopExit, FreshInv, SignalDue, TodoInv, RegisteredInv,
           Registered, MuFree
  <2>5. CloseInv'
    BY <1>16 DEF CompileLoopExit, CloseInv
  <2>6. QED
    BY <2>1, <2>2, <2>3, <2>4, <2>5
<1>17. CASE Interrupt
  <2>1. CountInv' /\ wg' \in Nat
    BY <1>17 DEF Interrupt, CountInv, Active
  <2>2. TypeOK'
    BY <1>17, <2>1, MaxResAssumption DEF Interrupt, Counted, Registered, Loops
  <2>3. RegisteredInv' /\ TodoInv'
    BY <1>17 DEF Interrupt, RegisteredInv, TodoInv, Registered, MuFree
  <2>4. FreshInv'
    BY <1>17
       DEF Interrupt, FreshInv, SignalDue, TodoInv, RegisteredInv, Registered,
           MuFree
  <2>5. CloseInv'
    BY <1>17 DEF Interrupt, CloseInv
  <2>6. QED
    BY <2>1, <2>2, <2>3, <2>4, <2>5
<1>18. ASSUME NEW l \in Loops, LoopExit(l) PROVE Inv'
  <2>1. CountInv' /\ wg' \in Nat
    BY <1>18 DEF LoopExit, CountInv, Active
  <2>2. TypeOK'
    BY <1>18, <2>1, MaxResAssumption DEF LoopExit, Counted, Registered, Loops
  <2>3. RegisteredInv' /\ TodoInv'
    BY <1>18 DEF LoopExit, RegisteredInv, TodoInv, Registered, MuFree
  <2>4. FreshInv'
    BY <1>18
       DEF LoopExit, FreshInv, SignalDue, TodoInv, RegisteredInv, Registered,
           MuFree
  <2>5. CloseInv'
    BY <1>18 DEF LoopExit, CloseInv
  <2>6. QED
    BY <2>1, <2>2, <2>3, <2>4, <2>5
<1>19. CASE CloseBegin
  <2>1. CountInv' /\ wg' \in Nat
    BY <1>19 DEF CloseBegin, CountInv, Active
  <2>2. TypeOK'
    BY <1>19, <2>1, MaxResAssumption DEF CloseBegin, Counted, Registered, Loops
  <2>3. RegisteredInv' /\ TodoInv'
    BY <1>19 DEF CloseBegin, RegisteredInv, TodoInv, Registered, MuFree
  <2>4. FreshInv'
    BY <1>19
       DEF CloseBegin, FreshInv, SignalDue, TodoInv, RegisteredInv, Registered,
           MuFree
  <2>5. CloseInv'
    BY <1>19 DEF CloseBegin, CloseInv
  <2>6. QED
    BY <2>1, <2>2, <2>3, <2>4, <2>5
<1>20. CASE CloseResources
  <2>1. CountInv' /\ wg' \in Nat
    BY <1>20 DEF CloseResources, CountInv, Active
  <2>2. TypeOK'
    BY <1>20, <2>1, MaxResAssumption
       DEF CloseResources, Counted, Registered, Loops
  <2>3. RegisteredInv' /\ TodoInv'
    BY <1>20 DEF CloseResources, RegisteredInv, TodoInv, Registered, MuFree
  <2>4. FreshInv'
    BY <1>20
       DEF CloseResources, FreshInv, SignalDue, TodoInv, RegisteredInv,
           Registered, MuFree
  <2>5. CloseInv'
    BY <1>20 DEF CloseResources, CloseInv
  <2>6. QED
    BY <2>1, <2>2, <2>3, <2>4, <2>5
<1>21. CASE CloseReturn
  <2>1. CountInv' /\ wg' \in Nat
    BY <1>21 DEF CloseReturn, CountInv, Active
  <2>2. TypeOK'
    BY <1>21, <2>1, MaxResAssumption DEF CloseReturn, Counted, Registered, Loops
  <2>3. RegisteredInv' /\ TodoInv'
    BY <1>21 DEF CloseReturn, RegisteredInv, TodoInv, Registered, MuFree
  <2>4. FreshInv'
    BY <1>21
       DEF CloseReturn, FreshInv, SignalDue, TodoInv, RegisteredInv, Registered,
           MuFree
  <2>5. CloseInv'
    BY <1>21 DEF CloseReturn, CloseInv
  <2>6. QED
    BY <2>1, <2>2, <2>3, <2>4, <2>5
<1>22. CASE UNCHANGED vars
  BY <1>22
     DEF vars, RegisteredInv, TodoInv, FreshInv, SignalDue, CountInv, Active,
         CloseInv
<1>23. QED
  BY <1>1, <1>2, <1>3, <1>4, <1>5, <1>6, <1>7, <1>8, <1>9, <1>10, <1>11, <1>12,
     <1>13, <1>14, <1>15, <1>16, <1>17, <1>18, <1>19, <1>20, <1>21, <1>22
     DEF Next, ClientStep, GoingAway, BroadcastStep, CloseStep, Finished

-----------------------------------------------------------------------------
\* The inductive invariant holds of every behaviour of the watcher's serving
\* side; it is what the theorems below rest on.
THEOREM InvHolds == Spec => []Inv
  BY InitInv, NextInv, PTL DEF Spec

\* broadcast loses no wakeup, whatever the number of browsers: a writeLoop that
\* sleeps without a signal shows the newest result or is about to be signalled.
THEOREM NoLostWakeupHolds == Spec => []NoLostWakeup
<1>1. Inv => NoLostWakeup
  BY DEF Inv, FreshInv, SignalDue, NoLostWakeup
<1>2. QED
  BY InvHolds, <1>1, PTL

\* close() returns only when every handler and goroutine it counted is gone,
\* and none starts afterwards.
THEOREM ClosedMeansDrainedHolds == Spec => []ClosedMeansDrained
<1>1. Inv => ClosedMeansDrained
  <2> SUFFICES ASSUME Inv, main = "closed" PROVE Active = {}
    BY DEF Inv, TypeOK, ClosedMeansDrained, Active, RegisteredInv, Counted
  <2>1. Cardinality(Active) = 0
    BY DEF Inv, CloseInv, CountInv
  <2>2. QED
    BY <2>1, ActiveFinite, FS_EmptySet
<1>2. QED
  BY InvHolds, <1>1, PTL

\* On one connection the results written never go back in time.
THEOREM ViewNeverGoesBackHolds == Spec => ViewNeverGoesBack
<1>1. Inv /\ [Next]_vars =>
        [\A c \in Clients : conn[c] # "accepted" => sent'[c] >= sent[c]]_vars
  <2> SUFFICES ASSUME Inv, Next, NEW d \in Clients, conn[d] # "accepted"
               PROVE  sent'[d] >= sent[d]
    OBVIOUS
  <2>1. sent[d] \in Nat
    BY MaxResAssumption DEF Inv, TypeOK
  <2>2. ASSUME NEW c \in Clients, Write(c) PROVE sent'[d] >= sent[d]
    BY <2>1, <2>2, MaxResAssumption DEF Write, Inv, TypeOK, FreshInv
  <2>3. ASSUME NEW c \in Clients, Register(c) PROVE sent'[d] >= sent[d]
    BY <2>1, <2>3 DEF Register, Inv, TypeOK
  <2>4. CASE UNCHANGED sent
    BY <2>1, <2>4
  <2>5. QED
    BY <2>2, <2>3, <2>4
       DEF Next, ClientStep, HandleWatch, AcceptFail, Accept, GetRes, WriteFail,
           Receive, PeerGone, GoingAway, Deregister, Release, BroadcastStore,
           BroadcastStep, BroadcastLock, BroadcastSignal, BroadcastUnlock,
           CompileLoopExit, Interrupt, LoopExit, CloseStep, CloseBegin,
           CloseResources, CloseReturn, Finished, vars, clientVars, bcVars,
           mainVars
<1>2. QED
  BY InvHolds, <1>1, PTL DEF Spec, ViewNeverGoesBack

-----------------------------------------------------------------------------
(* Refinement of ResultFeed.                                               *)

\* The connections the feed calls open.
Opened == {c \in Clients : conn[c] \in Registered \cup {"release"}}

\* A step that touches nothing the feed can see.
Hidden == res' = res /\ sent' = sent /\ Opened' = Opened /\ (main' = "closed") = (main = "closed")

LEMMA HiddenStutters == Hidden => UNCHANGED Feed!vars
  BY DEF Hidden, Opened, Feed!vars

\* The watcher's serving side implements the result feed: every step is a
\* Publish, Connect, Deliver, Disconnect or Close of it, or invisible to it.
THEOREM RefinesFeed == Spec => FeedSpec
<1>1. Init => Feed!Init
  BY DEF Init, Feed!Init, Registered
<1>2. Inv /\ [Next]_vars => [Feed!Next]_(Feed!vars)
  <2> SUFFICES ASSUME Inv, [Next]_vars PROVE [Feed!Next]_(Feed!vars)
    OBVIOUS
  <2> USE DEF clientVars, bcVars, mainVars
  <2>1. ASSUME NEW c \in Clients, Register(c) PROVE Feed!Connect(c)
    <3>1. main # "closed"
      <4>1. c \in Active
        BY <2>1 DEF Register, Active, Counted
      <4>2. Cardinality(Active) # 0
        BY <4>1, ActiveFinite, FS_EmptySet
      <4>3. QED
        BY <4>2 DEF Inv, CloseInv, CountInv
    <3>2. QED
      BY <2>1, <3>1 DEF Register, Inv, TypeOK, Registered, Feed!Connect
  <2>2. ASSUME NEW c \in Clients, Write(c) PROVE Feed!Deliver(c)
    BY <2>2, MaxResAssumption
       DEF Write, Inv, TypeOK, FreshInv, Registered, Feed!Deliver
  <2>3. ASSUME NEW c \in Clients, Release(c) PROVE Feed!Disconnect(c)
    BY <2>3 DEF Release, Inv, TypeOK, Registered, Feed!Disconnect
  <2>4. ASSUME BroadcastStore PROVE Feed!Publish
    <3>1. main # "closed" /\ main' = main
      BY <2>4 DEF BroadcastStore, Inv, CloseInv
    <3>2. res' = res + 1 /\ sent' = sent /\ Opened' = Opened
      BY <2>4 DEF BroadcastStore, Opened
    <3>3. QED
      BY <3>1, <3>2 DEF Opened, Feed!Publish
  <2>5. ASSUME CloseReturn PROVE Feed!Close
    <3>1. main' = "closed" /\ main # "closed" /\ wg = 0
      BY <2>5 DEF CloseReturn
    <3>2. Active = {}
      BY <3>1, ActiveFinite, FS_EmptySet DEF Inv, CountInv
    <3>3. QED
      <4>1. Opened = {} /\ Opened' = Opened /\ res' = res /\ sent' = sent
        BY <2>5, <3>2 DEF CloseReturn, Opened, Active, Counted
      <4>2. QED
        BY <3>1, <4>1 DEF Opened, Feed!Close
  <2>6. ASSUME NEW c \in Clients,
               \/ HandleWatch(c) \/ AcceptFail(c) \/ Accept(c) \/ GetRes(c)
               \/ WriteFail(c) \/ Receive(c) \/ PeerGone(c) \/ Deregister(c)
        PROVE  Hidden
    BY <2>6 DEF HandleWatch, AcceptFail, Accept, GetRes, WriteFail, Receive,
                PeerGone, Deregister, Hidden, Opened, Inv, TypeOK, Registered
  <2>7. CASE \/ BroadcastLock \/ BroadcastUnlock \/ CompileLoopExit
             \/ \E c \in Clients : BroadcastSignal(c)
    <3>1. Hidden
      BY <2>7 DEF BroadcastLock, BroadcastUnlock, CompileLoopExit,
                  BroadcastSignal, Hidden, Opened
    <3>2. QED
      BY <3>1, HiddenStutters
  <2>8. CASE \/ Interrupt \/ CloseBegin \/ CloseResources
             \/ (\E l \in Loops : LoopExit(l)) \/ UNCHANGED vars
    <3>1. Hidden
      BY <2>8 DEF Interrupt, CloseBegin, CloseResources, LoopExit, vars,
                  Hidden, Opened
    <3>2. QED
      BY <3>1, HiddenStutters
  <2>9. QED
    BY <2>1, <2>2, <2>3, <2>4, <2>5, <2>6, <2>7, <2>8, HiddenStutters
       DEF Next, ClientStep, GoingAway, BroadcastStep, CloseStep, Finished,
           Feed!Next
<1>3. QED
  BY InvHolds, <1>1, <1>2, PTL DEF Spec, FeedSpec, Feed!Spec

-----------------------------------------------------------------------------
(* The file side by itself                                                 *)

\* The timer and its tick exclude each other, because Reset takes a tick that
\* was not received out of the channel; without this, a tick left over from a
\* burst that is already handled would find changed empty.
BurstInv == Disk!BurstHasChange /\ ~(armed /\ tick)

\* watchLoop never handles an empty burst, so that changedList[0] is in range
\* whenever it is read.
LEMMA DiskBurstHasChange == Disk!Spec => []Disk!BurstHasChange
<1>1. Disk!Init => BurstInv
  BY DEF Disk!Init, BurstInv, Disk!BurstHasChange
<1>2. BurstInv /\ [Disk!Next]_(Disk!vars) => BurstInv'
  <2> SUFFICES ASSUME BurstInv, [Disk!Next]_(Disk!vars) PROVE BurstInv'
    OBVIOUS
  <2> USE DEF BurstInv, Disk!BurstHasChange
  <2>1. CASE Disk!EventChanged
    BY <2>1 DEF Disk!EventChanged
  <2>2. CASE Disk!BurstExpire
    BY <2>2 DEF Disk!BurstExpire
  <2>3. CASE Disk!BurstDone
    BY <2>3 DEF Disk!BurstDone
  <2>4. CASE UNCHANGED <<armed, tick, changed>>
    BY <2>4
  <2>5. QED
    BY <2>1, <2>2, <2>3, <2>4
       DEF Disk!Next, Disk!User, Disk!Save, Disk!Replace, Disk!Chmod,
           Disk!Delete, Disk!Create, Disk!SystemUnchanged, Disk!WatchLoopBusy,
           Disk!WatchAdd, Disk!WatchStatFail, Disk!StartDone, Disk!EventBenign,
           Disk!PollNext, Disk!PollDone, Disk!EventBegin, Disk!PollBegin,
           Disk!WatchLoopExit, Disk!CompileLoop, Disk!CompileBegin,
           Disk!ReadInput, Disk!DropUnused, Disk!AddImport, Disk!StatImport,
           Disk!Broadcast, Disk!ReadImport, Disk!AddVisit, Disk!CompileLoopExit,
           Disk!CompileLoopOnly, Disk!HandleRootRequest, Disk!HandleRoot,
           Disk!Cancel, Disk!vars, Disk!wlVars
<1>3. BurstInv => Disk!BurstHasChange
  BY DEF BurstInv
<1>4. QED
  BY <1>1, <1>2, <1>3, PTL DEF Disk!Spec

-----------------------------------------------------------------------------
(* No blind spot.                                                          *)

\* f is on the watch list, or fsnotify is about to say that its inode went.
Told(f) == f \in watchList \/ <<f, "remove">> \in events

\* ... or watchLoop has been told and has yet to add f again.
Covered(f) == Told(f) \/ (wlAt \in {"start", "event"} /\ wlPath = f /\ ~wlAdded)

\* The files replaceWatchList has dealt with since they were opened.
Settled ==
    {Input} \cup
    (IF clAt = "idle" THEN opened
     ELSE IF clAt = "add" THEN opened \ (clRest \cup {clPath}) ELSE {})

\* NoBlindSpot is not inductive: what makes a file safe between compilations is
\* decided while replaceWatchList is at work, and while watchLoop stands between
\* the Add and the Stat of ensureAddWatch.
BlindSpotInv ==
    /\ opened \subseteq Imports
    /\ wlAdded => wlAt \in {"start", "event", "poll"}
    /\ clAt # "add" => clPath = Disk!NoFile
    /\ clAdded => clPath # Disk!NoFile
    /\ wlAt # "exited" => \A f \in Settled : Covered(f)
    /\ wlAt # "exited" /\ clAdded => Covered(clPath)

\* Between compilations every file the result depends on is watched or about to
\* be: replaceWatchList, the events that remove a watch and the retries of
\* ensureAddWatch leave no gap, whatever their interleaving.
LEMMA DiskNoBlindSpot == Disk!Spec => []Disk!NoBlindSpot
<1>1. Disk!Init => BlindSpotInv
  BY DEF Disk!Init, BlindSpotInv, Settled, Covered, Told
<1>2. BlindSpotInv /\ [Disk!Next]_(Disk!vars) => BlindSpotInv'
  <2> SUFFICES ASSUME BlindSpotInv, [Disk!Next]_(Disk!vars) PROVE BlindSpotInv'
    OBVIOUS
  <2> USE DEF BlindSpotInv, Settled, Covered, Told, Disk!wlVars, Disk!clVars,
              Disk!fwVars
  <2>1. ASSUME NEW f \in Disk!Files, Disk!User(f) PROVE BlindSpotInv'
    BY <2>1
       DEF Disk!User, Disk!Save, Disk!Replace, Disk!Chmod, Disk!Delete,
           Disk!Create, Disk!SystemUnchanged, Disk!NotifyInPlace,
           Disk!NotifyGone
  <2>2. CASE Disk!WatchAdd
    BY <2>2 DEF Disk!WatchAdd, Disk!WatchLoopOnly
  <2>3. CASE Disk!WatchStatFail
    BY <2>3 DEF Disk!WatchStatFail, Disk!WatchLoopOnly
  <2>4. CASE Disk!StartDone \/ Disk!EventBenign \/ Disk!EventChanged \/ Disk!PollDone \/ Disk!PollNext
    BY <2>4
       DEF Disk!StartDone, Disk!EventBenign, Disk!EventChanged, Disk!PollDone,
           Disk!PollNext, Disk!Stat, Disk!ToSelect, Disk!WatchLoopOnly
  <2>5. CASE Disk!EventBegin
    BY <2>5 DEF Disk!EventBegin, Disk!WatchLoopOnly
  <2>6. CASE Disk!PollBegin
    BY <2>6 DEF Disk!PollBegin, Disk!WatchLoopOnly
  <2>7. CASE Disk!BurstExpire \/ Disk!BurstDone \/ Disk!WatchLoopExit
    BY <2>7
       DEF Disk!BurstExpire, Disk!BurstDone, Disk!WatchLoopExit,
           Disk!WatchLoopOnly
  <2>8. CASE Disk!CompileBegin \/ Disk!ReadInput
    BY <2>8 DEF Disk!CompileBegin, Disk!ReadInput, Disk!CompileLoopOnly
  <2>9. ASSUME NEW f \in Imports, Disk!ReadImport(f) PROVE BlindSpotInv'
    BY <2>9 DEF Disk!ReadImport, Disk!CompileLoopOnly
  <2>10. CASE Disk!DropUnused
    BY <2>2, <2>10 DEF Disk!DropUnused, Disk!CompileLoopOnly
  <2>11. ASSUME NEW f \in Imports, Disk!AddVisit(f) PROVE BlindSpotInv'
    BY <2>11, DiskAssumption DEF Disk!AddVisit, Disk!CompileLoopOnly, Disk!Files
  <2>12. CASE Disk!AddImport
    BY <2>2, <2>12 DEF Disk!AddImport, Disk!CompileLoopOnly
  <2>13. CASE Disk!StatImport
    BY <2>13, DiskAssumption DEF Disk!StatImport, Disk!CompileLoopOnly, Disk!Files
  <2>14. CASE Disk!Broadcast
    BY <2>14, DiskAssumption DEF Disk!Broadcast, Disk!CompileLoopOnly, Disk!Files
  <2>15. CASE Disk!CompileLoopExit
    BY <2>15 DEF Disk!CompileLoopExit, Disk!CompileLoopOnly
  <2>16. CASE UNCHANGED <<Disk!fwVars, Disk!wlVars, Disk!clVars>>
    BY <2>16
  <2>17. QED
    BY <2>1, <2>2, <2>3, <2>4, <2>5, <2>6, <2>7, <2>8, <2>9, <2>10, <2>11,
       <2>12, <2>13, <2>14, <2>15, <2>16
       DEF Disk!Next, Disk!WatchLoopBusy, Disk!CompileLoop, Disk!HandleRootRequest, Disk!HandleRoot,
           Disk!Cancel, Disk!vars
<1>3. BlindSpotInv => Disk!NoBlindSpot
  BY DEF BlindSpotInv, Disk!NoBlindSpot, Settled, Covered, Told
<1>4. QED
  BY <1>1, <1>2, <1>3, PTL DEF Disk!Spec

-----------------------------------------------------------------------------
(* Types.                                                                  *)

Missing == {f \in Disk!Files : file[f] = 0}

\* Create is not bounded by MaxEdits, so that a bound on the versions is not a
\* matter of one step: each creation answers a deletion, which is bounded.
EditInv ==
    /\ edits \in Nat \ {0}
    /\ uses \subseteq Imports
    /\ file \in [Disk!Files -> Nat]
    /\ lastMod \in [Disk!Files -> Nat]
    /\ \A f \in Disk!Files : file[f] <= edits /\ lastMod[f] <= edits
    /\ IsFiniteSet(Missing)
    /\ Cardinality(Missing) < edits
    /\ edits + Cardinality(Missing) <= 2 * MaxEdits + 1

\* The components of the state that are compared with each other by kind.
TypeInv ==
    /\ Disk!TypeOK
    /\ wlAt \in {"start", "event", "poll"} => wlPath \in Disk!Files
    /\ wlAdded => wlAt \in {"start", "event", "poll"}
    /\ clAdded => clPath # Disk!NoFile
    /\ clPath # Disk!NoFile => clAt = "add"

\* A new content of f is newer than every version seen before.
LEMMA NewContentInv ==
    ASSUME EditInv, NEW f \in Disk!Files, Disk!NewContent(f), UNCHANGED lastMod,
           file[f] = 0 \/ edits < MaxEdits
    PROVE  EditInv'
<1> USE DEF EditInv, Disk!NewContent
<1>1. /\ edits' = edits + 1 /\ edits' \in Nat \ {0}
      /\ file' \in [Disk!Files -> Nat] /\ lastMod' \in [Disk!Files -> Nat]
      /\ uses' \subseteq Imports
  OBVIOUS
<1>2. \A g \in Disk!Files : file'[g] <= edits' /\ lastMod'[g] <= edits'
  OBVIOUS
<1>3. Missing' = Missing \ {f}
  BY DEF Missing
<1>4. /\ IsFiniteSet(Missing')
      /\ Cardinality(Missing) \in Nat
      /\ Cardinality(Missing') =
             IF f \in Missing THEN Cardinality(Missing) - 1 ELSE Cardinality(Missing)
  BY <1>3, FS_RemoveElement, FS_CardinalityType
<1>5. f \in Missing <=> file[f] = 0
  BY DEF Missing
<1>6. Cardinality(Missing') < edits'
  BY <1>1, <1>4
<1>7. edits' + Cardinality(Missing') <= 2 * MaxEdits + 1
  BY <1>1, <1>4, <1>5, DiskAssumption
<1>8. QED
  BY <1>1, <1>2, <1>4, <1>6, <1>7

LEMMA DeleteInv ==
    ASSUME EditInv, NEW f \in Disk!Files, Disk!Delete(f)
    PROVE  EditInv'
<1> USE DEF EditInv, Disk!Delete, Disk!SystemUnchanged, Disk!wlVars
<1>1. /\ edits < MaxEdits /\ edits' = edits + 1 /\ edits' \in Nat \ {0}
      /\ file' = [file EXCEPT ![f] = 0] /\ file[f] # 0
      /\ file' \in [Disk!Files -> Nat] /\ lastMod' \in [Disk!Files -> Nat]
      /\ uses' \subseteq Imports
  OBVIOUS
<1>2. \A g \in Disk!Files : file'[g] <= edits' /\ lastMod'[g] <= edits'
  OBVIOUS
<1>3. Missing' = Missing \cup {f} /\ f \notin Missing
  BY <1>1 DEF Missing
<1>4. /\ IsFiniteSet(Missing')
      /\ Cardinality(Missing) \in Nat
      /\ Cardinality(Missing') = Cardinality(Missing) + 1
  BY <1>3, FS_AddElement, FS_CardinalityType
<1>5. Cardinality(Missing') < edits'
  BY <1>1, <1>4
<1>6. edits' + Cardinality(Missing') <= 2 * MaxEdits + 1
  BY <1>1, <1>4, DiskAssumption
<1>7. QED
  BY <1>1, <1>2, <1>4, <1>5, <1>6

\* An action of a user that leaves the contents alone.
LEMMA ActsInv ==
    ASSUME EditInv, edits < MaxEdits, edits' = edits + 1,
           UNCHANGED <<file, uses, lastMod>>
    PROVE  EditInv'
<1>1. Missing' = Missing
  BY DEF Missing
<1>2. Cardinality(Missing) \in Nat
  BY FS_CardinalityType DEF EditInv
<1>3. QED
  BY <1>1, <1>2, DiskAssumption DEF EditInv

LEMMA EditInvInit == Disk!Init => EditInv
<1> SUFFICES ASSUME Disk!Init PROVE EditInv
  OBVIOUS
<1>1. Missing = {}
  BY DEF Disk!Init, Missing
<1>2. IsFiniteSet(Missing) /\ Cardinality(Missing) = 0
  BY <1>1, FS_EmptySet
<1>3. QED
  BY <1>2, DiskAssumption DEF Disk!Init, EditInv

LEMMA EditInvNext == TypeInv /\ EditInv /\ [Disk!Next]_(Disk!vars) => EditInv'
<1> SUFFICES ASSUME TypeInv, EditInv, [Disk!Next]_(Disk!vars) PROVE EditInv'
  OBVIOUS
<1>1. ASSUME NEW f \in Disk!Files, Disk!Save(f) \/ Disk!Replace(f) \/ Disk!Create(f) PROVE EditInv'
  BY <1>1, NewContentInv
     DEF Disk!Save, Disk!Replace, Disk!Create, Disk!SystemUnchanged, Disk!wlVars
<1>2. ASSUME NEW f \in Disk!Files, Disk!Delete(f) PROVE EditInv'
  BY <1>2, DeleteInv
<1>3. ASSUME NEW f \in Disk!Files, Disk!Chmod(f) PROVE EditInv'
  <2>1. /\ edits < MaxEdits /\ edits' = edits + 1
        /\ UNCHANGED <<file, uses, lastMod>>
    BY <1>3 DEF Disk!Chmod, Disk!SystemUnchanged, Disk!wlVars
  <2>2. QED
    BY <2>1, ActsInv
<1>4. CASE UNCHANGED <<file, edits, uses>> /\ lastMod' \in [Disk!Files -> Nat]
           /\ \A f \in Disk!Files : lastMod'[f] \in {lastMod[f], file[f]}
  <2>1. Missing' = Missing
    BY <1>4 DEF Missing
  <2>2. QED
    BY <1>4, <2>1 DEF EditInv
<1>5. CASE UNCHANGED <<file, edits, uses, lastMod>>
  BY <1>5, <1>4 DEF EditInv
<1>6. CASE Disk!StartDone \/ Disk!EventChanged \/ Disk!PollNext \/ Disk!PollDone
  <2>1. UNCHANGED <<file, edits, uses>> /\ wlPath \in Disk!Files
    BY <1>6
       DEF Disk!StartDone, Disk!EventChanged, Disk!PollNext, Disk!PollDone,
           Disk!Stat, TypeInv, Disk!WatchLoopOnly, Disk!fsVars
  <2>2. lastMod' \in {lastMod, [lastMod EXCEPT ![wlPath] = file[wlPath]]}
    BY <1>6 DEF Disk!StartDone, Disk!EventChanged, Disk!PollNext, Disk!PollDone
  <2>3. QED
    BY <2>1, <2>2, <1>4 DEF EditInv
<1>7. ASSUME NEW b \in Boards, Disk!HandleRoot(b) PROVE EditInv'
  <2>1. /\ edits < MaxEdits /\ edits' = edits + 1
        /\ UNCHANGED <<file, uses, lastMod>>
    BY <1>7 DEF Disk!HandleRoot, Disk!wlVars
  <2>2. QED
    BY <2>1, ActsInv
<1>8. QED
  BY <1>1, <1>2, <1>3, <1>5, <1>6, <1>7
     DEF Disk!Next, Disk!User, Disk!WatchLoopBusy, Disk!WatchAdd,
         Disk!WatchStatFail, Disk!EventBenign, Disk!EventBegin,
         Disk!BurstExpire, Disk!BurstDone, Disk!PollBegin, Disk!WatchLoopExit,
         Disk!WatchLoopOnly, Disk!CompileLoop, Disk!CompileBegin,
         Disk!ReadInput, Disk!DropUnused, Disk!AddImport, Disk!StatImport,
         Disk!Broadcast, Disk!ReadImport, Disk!AddVisit, Disk!CompileLoopExit,
         Disk!CompileLoopOnly, Disk!HandleRootRequest, Disk!Cancel, Disk!vars,
         Disk!fsVars, Disk!wlVars

LEMMA TypeInvInit == Disk!Init => TypeInv
<1> SUFFICES ASSUME Disk!Init PROVE TypeInv
  OBVIOUS
<1>1. 0 \in Disk!Versions /\ 1 \in Disk!Versions
  BY DiskAssumption DEF Disk!Versions
<1>2. Disk!NothingRead \in Disk!Snapshots
  BY <1>1, DiskAssumption DEF Disk!NothingRead, Disk!Snapshots
<1>3. Input \in Disk!Files
  BY DEF Disk!Files
<1>4. /\ file \in [Disk!Files -> Disk!Versions] /\ lastMod \in [Disk!Files -> Disk!Versions]
      /\ uses \subseteq Imports /\ edits \in Disk!Versions
  BY <1>1 DEF Disk!Init
<1>5. QED
  BY <1>2, <1>3, <1>4, DiskAssumption DEF Disk!Init, TypeInv, Disk!TypeOK, Disk!Ops

LEMMA TypeInvNext == TypeInv /\ EditInv /\ [Disk!Next]_(Disk!vars) => TypeInv'
<1> SUFFICES ASSUME TypeInv, EditInv, [Disk!Next]_(Disk!vars) PROVE TypeInv'
  OBVIOUS
<1>1. EditInv'
  BY EditInvNext
<1>2. edits' \in Disk!Versions /\ file' \in [Disk!Files -> Disk!Versions]
      /\ lastMod' \in [Disk!Files -> Disk!Versions] /\ uses' \subseteq Imports
  <2>1. edits' <= 2 * MaxEdits + 1 /\ edits' \in Nat
    <3>1. Cardinality(Missing') \in Nat
      BY <1>1, FS_CardinalityType DEF EditInv
    <3>2. QED
      BY <1>1, <3>1, DiskAssumption DEF EditInv
  <2>2. \A f \in Disk!Files : file'[f] \in Disk!Versions /\ lastMod'[f] \in Disk!Versions
    BY <1>1, <2>1, DiskAssumption DEF EditInv, Disk!Versions
  <2>3. QED
    BY <1>1, <2>1, <2>2, DiskAssumption DEF EditInv, Disk!Versions
<1>3. \A f \in Disk!Files : file[f] \in Disk!Versions
  BY DEF TypeInv, Disk!TypeOK
<1> USE DEF TypeInv, Disk!TypeOK, Disk!vars, Disk!fsVars, Disk!fwVars,
            Disk!wlVars, Disk!clVars, Disk!rootVars, Disk!Ops
<1>4. ASSUME NEW f \in Disk!Files, Disk!User(f) PROVE TypeInv'
  BY <1>2, <1>4
     DEF Disk!User, Disk!Save, Disk!Replace, Disk!Chmod, Disk!Delete,
         Disk!Create, Disk!SystemUnchanged, Disk!NotifyInPlace, Disk!NotifyGone
<1>5. CASE Disk!WatchAdd
  BY <1>5 DEF Disk!WatchAdd, Disk!WatchLoopOnly
<1>6. CASE Disk!WatchStatFail
  <2>1. UNCHANGED <<Disk!fsVars, Disk!fwVars, wlAt, wlPath, wlOp, pollRest, missed, lastMod,
                    changed, armed, tick, compileCh, Disk!clVars, Disk!rootVars, cancelled>>
    BY <1>6 DEF Disk!WatchStatFail, Disk!WatchLoopOnly
  <2>2. wlAdded' \in BOOLEAN /\ ~wlAdded'
    BY <1>6 DEF Disk!WatchStatFail
  <2>3. QED
    BY <2>1, <2>2
<1>7. CASE Disk!BurstExpire
  <2>1. UNCHANGED <<Disk!fsVars, Disk!fwVars, wlAt, wlPath, wlOp, wlAdded, pollRest, missed,
                    lastMod, changed, compileCh, Disk!clVars, Disk!rootVars, cancelled>>
    BY <1>7 DEF Disk!BurstExpire, Disk!WatchLoopOnly
  <2>2. armed' \in BOOLEAN
    BY <1>7 DEF Disk!BurstExpire
  <2>3. tick' \in BOOLEAN
    BY <1>7 DEF Disk!BurstExpire
  <2>4. QED
    BY <2>1, <2>2, <2>3
<1>8. CASE Disk!BurstDone
  BY <1>8 DEF Disk!BurstDone, Disk!WatchLoopOnly
<1>9. CASE Disk!WatchLoopExit
  BY <1>9 DEF Disk!WatchLoopExit, Disk!WatchLoopOnly
<1>10. CASE Disk!StartDone
  BY <1>2, <1>10
     DEF Disk!StartDone, Disk!Stat, Disk!ToSelect, Disk!WatchLoopOnly
<1>11. CASE Disk!EventBenign
  BY <1>11 DEF Disk!EventBenign, Disk!Stat, Disk!ToSelect, Disk!WatchLoopOnly
<1>12. CASE Disk!EventChanged
  BY <1>2, <1>12
     DEF Disk!EventChanged, Disk!Stat, Disk!ToSelect, Disk!WatchLoopOnly
<1>13. CASE Disk!PollDone
  BY <1>2, <1>13
     DEF Disk!PollDone, Disk!Stat, Disk!ToSelect, Disk!PollMissed,
         Disk!WatchLoopOnly
<1>14. CASE Disk!PollNext
  BY <1>2, <1>14
     DEF Disk!PollNext, Disk!Stat, Disk!PollMissed, Disk!WatchLoopOnly
<1>15. CASE Disk!EventBegin
  BY <1>15 DEF Disk!EventBegin, Disk!WatchLoopOnly
<1>16. CASE Disk!PollBegin
  BY <1>16 DEF Disk!PollBegin, Disk!WatchLoopOnly
<1>17. CASE Disk!CompileBegin
  <2>1. snap' \in Disk!Snapshots
    BY <1>17, DiskAssumption
       DEF Disk!CompileBegin, Disk!Snapshots, Disk!NothingRead,
           Disk!Versions
  <2>2. QED
    <3>1. UNCHANGED <<Disk!fsVars, Disk!fwVars, Disk!wlVars, clRest, clPath, clAdded, published,
                      Disk!rootVars, cancelled>>
      BY <1>17 DEF Disk!CompileBegin, Disk!CompileLoopOnly
    <3>2. /\ compileCh' \in BOOLEAN /\ opened' = {} /\ clAt' = "input"
          /\ clAt = "idle"
      BY <1>17 DEF Disk!CompileBegin
    <3>3. QED
      BY <2>1, <3>1, <3>2
<1>18. CASE Disk!ReadInput
  BY <1>18, <1>3
     DEF Disk!ReadInput, Disk!CompileLoopOnly, Disk!Snapshots, Disk!Files
<1>19. ASSUME NEW f \in Imports, Disk!ReadImport(f) PROVE TypeInv'
  BY <1>19, <1>3
     DEF Disk!ReadImport, Disk!CompileLoopOnly, Disk!Snapshots, Disk!Files
<1>20. CASE Disk!DropUnused
  BY <1>20 DEF Disk!DropUnused, Disk!CompileLoopOnly
<1>21. ASSUME NEW f \in Imports, Disk!AddVisit(f) PROVE TypeInv'
  BY <1>21 DEF Disk!AddVisit, Disk!CompileLoopOnly
<1>22. CASE Disk!AddImport
  BY <1>22 DEF Disk!AddImport, Disk!CompileLoopOnly, Disk!Files
<1>23. CASE Disk!StatImport
  <2>1. UNCHANGED <<Disk!fsVars, Disk!fwVars, Disk!wlVars, compileCh, clAt, clRest, opened, snap,
                    published, Disk!rootVars, cancelled>>
    BY <1>23 DEF Disk!StatImport, Disk!CompileLoopOnly
  <2>2. clAdded' \in BOOLEAN /\ ~clAdded' /\ clPath' \in {clPath, Disk!NoFile}
    BY <1>23 DEF Disk!StatImport
  <2>3. QED
    BY <2>1, <2>2
<1>24. CASE Disk!Broadcast
  BY <1>24 DEF Disk!Broadcast, Disk!CompileLoopOnly
<1>25. CASE Disk!CompileLoopExit
  BY <1>25 DEF Disk!CompileLoopExit, Disk!CompileLoopOnly
<1>26. CASE Disk!Cancel
  BY <1>26 DEF Disk!Cancel
<1>27. CASE Disk!HandleRootRequest
  <2>1. UNCHANGED <<Disk!fsVars, Disk!fwVars, Disk!wlVars, Disk!clVars, boardPath, cancelled>>
    BY <1>27 DEF Disk!HandleRootRequest
  <2>2. compileCh' \in BOOLEAN /\ asking' \in BOOLEAN
    BY <1>27 DEF Disk!HandleRootRequest
  <2>3. QED
    BY <2>1, <2>2
<1>28. ASSUME NEW b \in Boards, Disk!HandleRoot(b) PROVE TypeInv'
  BY <1>2, <1>28 DEF Disk!HandleRoot
<1>29. CASE UNCHANGED Disk!vars
  BY <1>29
<1>30. QED
  BY <1>4, <1>5, <1>6, <1>7, <1>8, <1>9, <1>10, <1>11, <1>12, <1>13, <1>14,
     <1>15, <1>16, <1>17, <1>18, <1>19, <1>20, <1>21, <1>22, <1>23, <1>24,
     <1>25, <1>26, <1>27, <1>28, <1>29
     DEF Disk!Next, Disk!WatchLoopBusy, Disk!CompileLoop

\* The conditions on which a run may evaluate the model: every variable keeps
\* its type, in particular every version stays below the bound of Versions.
THEOREM TypeCorrect == Disk!Spec => []Disk!TypeOK
<1>1. Disk!Init => TypeInv /\ EditInv
  BY TypeInvInit, EditInvInit
<1>2. TypeInv /\ EditInv /\ [Disk!Next]_(Disk!vars) => TypeInv' /\ EditInv'
  BY TypeInvNext, EditInvNext
<1>3. TypeInv => Disk!TypeOK
  BY DEF TypeInv
<1>4. QED
  BY <1>1, <1>2, <1>3, PTL DEF Disk!Spec

-----------------------------------------------------------------------------
(* No forgotten change.                                                    *)

\* ChangeNoticed together with what makes it inductive: the versions only grow,
\* so that a change made after lastModified was filled in shows up as a
\* difference from it.
NoticeInv ==
    /\ TypeInv
    /\ EditInv
    /\ clAt = "input" => opened = {}
    /\ Disk!ChangeNoticed

\* What ChangeNoticed says of one file.
Noticed(f) ==
    \/ Disk!LastRead(f) = file[f]
    \/ compileCh \/ clAt = "input" \/ f \in changed
    \/ wlAt = "start" \/ (wlAt = "poll" /\ missed)
    \/ \E op \in {"write", "remove"} : <<f, op>> \in events
    \/ wlAt = "event" /\ wlPath = f /\ wlOp # "chmod"
    \/ lastMod[f] # file[f] \/ file[f] = 0

LEMMA ChangeNoticedNext ==
    NoticeInv /\ TypeInv' /\ EditInv' /\ [Disk!Next]_(Disk!vars) => Disk!ChangeNoticed'
<1> SUFFICES ASSUME NoticeInv, TypeInv', EditInv', [Disk!Next]_(Disk!vars),
                    wlAt' # "exited", clAt' # "exited",
                    NEW f \in opened' \cup {Input}
             PROVE  Noticed(f)'
  BY DEF Disk!ChangeNoticed, Noticed
<1>1. opened' \subseteq Imports /\ f \in Disk!Files
  BY DEF TypeInv, Disk!TypeOK, Disk!Files
<1>2. f \in opened \cup {Input} /\ wlAt # "exited" /\ clAt # "exited" => Noticed(f)
  BY DEF NoticeInv, Disk!ChangeNoticed, Noticed
<1> USE <1>1, <1>2 DEF Noticed, Disk!LastRead
\* A user changes g.
<1>3. ASSUME NEW g \in Disk!Files, Disk!User(g) PROVE Noticed(f)'
  <2>1. /\ UNCHANGED <<compileCh, Disk!wlVars, Disk!clVars>>
        /\ events \subseteq events'
    BY <1>3
       DEF Disk!User, Disk!Save, Disk!Replace, Disk!Chmod, Disk!Delete,
           Disk!Create, Disk!SystemUnchanged, Disk!NotifyInPlace,
           Disk!NotifyGone, Disk!fwVars
  <2>2. CASE file'[f] = file[f]
    BY <2>1, <2>2 DEF Disk!wlVars, Disk!clVars
  <2>3. CASE file'[f] # file[f]
    <3>1. file'[f] \in {edits + 1, 0}
      BY <1>3, <2>3
         DEF Disk!User, Disk!Save, Disk!Replace, Disk!Chmod, Disk!Delete,
             Disk!Create, Disk!NewContent, NoticeInv, EditInv
    <3>2. lastMod'[f] <= edits /\ lastMod'[f] \in Nat /\ edits \in Nat
      BY <2>1 DEF NoticeInv, EditInv, Disk!wlVars
    <3>3. QED
      BY <3>1, <3>2
  <2>4. QED
    BY <2>2, <2>3
\* watchLoop.
<1>4. CASE Disk!WatchAdd \/ Disk!WatchStatFail
  BY <1>4
     DEF Disk!WatchAdd, Disk!WatchStatFail, Disk!WatchLoopOnly, Disk!fsVars,
         Disk!fwVars, Disk!clVars
<1>5. CASE Disk!StartDone
  BY <1>5 DEF Disk!StartDone
<1>6. CASE Disk!EventBegin
  BY <1>6 DEF Disk!EventBegin, Disk!WatchLoopOnly, Disk!fsVars, Disk!clVars
<1>7. CASE Disk!EventBenign
  BY <1>7
     DEF Disk!EventBenign, Disk!Stat, Disk!ToSelect, Disk!WatchLoopOnly,
         Disk!fsVars, Disk!fwVars, Disk!clVars
<1>8. CASE Disk!EventChanged
  <2>1. wlAt = "event" /\ UNCHANGED <<file, events, compileCh, clAt, snap, opened>>
    BY <1>8
       DEF Disk!EventChanged, Disk!Stat, Disk!WatchLoopOnly, Disk!fsVars,
           Disk!fwVars, Disk!clVars
  <2>2. /\ changed' = changed \cup {wlPath}
        /\ f # wlPath => lastMod'[f] = lastMod[f]
    BY <1>8 DEF Disk!EventChanged, NoticeInv, EditInv
  <2>3. QED
    BY <1>8, <2>1, <2>2 DEF Disk!EventChanged
<1>9. CASE Disk!BurstExpire
  BY <1>9
     DEF Disk!BurstExpire, Disk!WatchLoopOnly, Disk!fsVars, Disk!fwVars,
         Disk!clVars
<1>10. CASE Disk!BurstDone
  BY <1>10 DEF Disk!BurstDone
<1>11. CASE Disk!PollBegin
  BY <1>11
     DEF Disk!PollBegin, Disk!WatchLoopOnly, Disk!fsVars, Disk!fwVars,
         Disk!clVars
<1>12. CASE Disk!PollNext
  <2>1. /\ wlAt = "poll" /\ wlAt' = "poll"
        /\ UNCHANGED <<file, events, compileCh, changed, clAt, snap, opened>>
        /\ missed' = Disk!PollMissed
    BY <1>12
       DEF Disk!PollNext, Disk!Stat, Disk!WatchLoopOnly, Disk!fsVars,
           Disk!fwVars, Disk!clVars
  <2>2. lastMod'[f] = IF f = wlPath THEN file[f] ELSE lastMod[f]
    BY <1>12 DEF Disk!PollNext, NoticeInv, EditInv
  <2>3. QED
    BY <2>1, <2>2 DEF Disk!PollMissed
<1>13. CASE Disk!PollDone
  <2>1. /\ wlAt = "poll"
        /\ UNCHANGED <<file, events, changed, clAt, snap, opened>>
        /\ compileCh' = (compileCh \/ Disk!PollMissed)
    BY <1>13
       DEF Disk!PollDone, Disk!Stat, Disk!WatchLoopOnly, Disk!fsVars,
           Disk!fwVars, Disk!clVars
  <2>2. lastMod'[f] = IF f = wlPath THEN file[f] ELSE lastMod[f]
    BY <1>13 DEF Disk!PollDone, NoticeInv, EditInv
  <2>3. QED
    BY <2>1, <2>2 DEF Disk!PollMissed
<1>14. CASE Disk!WatchLoopExit
  BY <1>14 DEF Disk!WatchLoopExit
\* compileLoop.
<1>15. CASE Disk!CompileBegin
  BY <1>15 DEF Disk!CompileBegin
<1>16. CASE Disk!ReadInput
  <2>1. f = Input
    BY <1>16 DEF Disk!ReadInput, NoticeInv
  <2>2. snap'.input = file[Input] /\ file' = file
    BY <1>16
       DEF Disk!ReadInput, NoticeInv, TypeInv, Disk!TypeOK, Disk!Snapshots,
           Disk!CompileLoopOnly, Disk!fsVars
  <2>3. QED
    BY <2>1, <2>2
<1>17. ASSUME NEW g \in Imports, Disk!ReadImport(g) PROVE Noticed(f)'
  <2>1. /\ clAt = "imports" /\ UNCHANGED <<file, Disk!fwVars, Disk!wlVars, compileCh, clAt>>
        /\ snap' = [snap EXCEPT !.import[g] = file[g]]
        /\ opened' \subseteq opened \cup {g}
    BY <1>17 DEF Disk!ReadImport, Disk!CompileLoopOnly, Disk!fsVars
  <2>2. snap \in Disk!Snapshots /\ g # Input
    BY DiskAssumption DEF NoticeInv, TypeInv, Disk!TypeOK
  <2>3. snap'.input = snap.input /\ snap'.import[g] = file[g]
    BY <2>1, <2>2 DEF Disk!Snapshots
  <2>4. \A h \in Imports : h # g => snap'.import[h] = snap.import[h]
    BY <2>1, <2>2 DEF Disk!Snapshots
  <2>5. CASE f = g
    BY <2>1, <2>2, <2>3, <2>5
  <2>6. CASE f # g
    <3>1. Disk!LastRead(f)' = Disk!LastRead(f)
      BY <2>1, <2>3, <2>4, <2>6
    <3>2. QED
      BY <2>1, <2>6, <3>1 DEF Disk!fwVars, Disk!wlVars
  <2>7. QED
    BY <2>5, <2>6
<1>18. CASE Disk!DropUnused \/ Disk!AddImport \/ Disk!StatImport \/ Disk!Broadcast
  BY <1>18
     DEF Disk!DropUnused, Disk!AddImport, Disk!StatImport, Disk!Broadcast,
         Disk!CompileLoopOnly, Disk!fsVars, Disk!fwVars, Disk!wlVars
<1>19. ASSUME NEW g \in Imports, Disk!AddVisit(g) PROVE Noticed(f)'
  BY <1>19
     DEF Disk!AddVisit, Disk!CompileLoopOnly, Disk!fsVars, Disk!fwVars,
         Disk!wlVars
<1>20. CASE Disk!CompileLoopExit
  BY <1>20 DEF Disk!CompileLoopExit
\* handleRoot and the context.
<1>21. CASE Disk!HandleRootRequest \/ Disk!Cancel \/ UNCHANGED Disk!vars
  BY <1>21
     DEF Disk!HandleRootRequest, Disk!Cancel, Disk!vars, Disk!fsVars,
         Disk!fwVars, Disk!wlVars, Disk!clVars
<1>22. ASSUME NEW b \in Boards, Disk!HandleRoot(b) PROVE Noticed(f)'
  BY <1>22
     DEF Disk!HandleRoot, Disk!fsVars, Disk!fwVars, Disk!wlVars, Disk!clVars
<1>23. QED
  BY <1>3, <1>4, <1>5, <1>6, <1>7, <1>8, <1>9, <1>10, <1>11, <1>12, <1>13,
     <1>14, <1>15, <1>16, <1>17, <1>18, <1>19, <1>20, <1>21, <1>22
     DEF Disk!Next, Disk!WatchLoopBusy, Disk!CompileLoop

\* opened is emptied when a compilation begins, before the input is read.
LEMMA OpenedNext ==
    ASSUME clAt = "input" => opened = {}, [Disk!Next]_(Disk!vars)
    PROVE  clAt' = "input" => opened' = {}
<1>1. CASE Disk!CompileBegin
  BY <1>1 DEF Disk!CompileBegin
<1>2. CASE Disk!ReadInput \/ Disk!DropUnused \/ Disk!Broadcast \/ Disk!CompileLoopExit
  BY <1>2
     DEF Disk!ReadInput, Disk!DropUnused, Disk!Broadcast, Disk!CompileLoopExit
<1>3. ASSUME NEW f \in Imports, Disk!ReadImport(f) PROVE clAt' # "input"
  BY <1>3 DEF Disk!ReadImport
<1>4. CASE UNCHANGED <<clAt, opened>>
  BY <1>4
<1>5. QED
  BY <1>1, <1>2, <1>3, <1>4
     DEF Disk!Next, Disk!User, Disk!Save, Disk!Replace, Disk!Chmod, Disk!Delete,
         Disk!Create, Disk!SystemUnchanged, Disk!WatchLoopBusy, Disk!WatchAdd,
         Disk!WatchStatFail, Disk!StartDone, Disk!EventBenign,
         Disk!EventChanged, Disk!PollNext, Disk!PollDone, Disk!EventBegin,
         Disk!BurstExpire, Disk!BurstDone, Disk!PollBegin, Disk!WatchLoopExit,
         Disk!WatchLoopOnly, Disk!CompileLoop, Disk!AddImport, Disk!StatImport,
         Disk!AddVisit, Disk!HandleRootRequest, Disk!HandleRoot, Disk!Cancel,
         Disk!vars, Disk!clVars

\* A file that the newest compilation used and that has changed since is
\* recompiled: however events, bursts, polls and compilations interleave, and
\* whichever events are lost, some request, event, burst or poll that will
\* notice the change is on its way.
LEMMA DiskChangeNoticed == Disk!Spec => []Disk!ChangeNoticed
<1>1. Disk!Init => NoticeInv
  <2>1. Disk!Init => Disk!ChangeNoticed
    BY DEF Disk!Init, Disk!ChangeNoticed
  <2>2. QED
    BY <2>1, TypeInvInit, EditInvInit DEF NoticeInv, Disk!Init
<1>2. NoticeInv /\ [Disk!Next]_(Disk!vars) => NoticeInv'
  BY TypeInvNext, EditInvNext, OpenedNext, ChangeNoticedNext DEF NoticeInv
<1>3. NoticeInv => Disk!ChangeNoticed
  BY DEF NoticeInv
<1>4. QED
  BY <1>1, <1>2, <1>3, PTL DEF Disk!Spec

-----------------------------------------------------------------------------
(* Both sides                                                              *)

\* Where the two sides speak of the same goroutines.  A compile loop that broadcasts
\* has published what it read last.
Joined ==
    /\ Inv
    /\ "watchLoop" \in loops <=> wlAt # "exited"
    /\ bc = "exited" <=> clAt = "exited"
    /\ bc \in {"lock", "signal"} => clAt = "idle"
    /\ bc = "exited" => cancelled
    /\ main # "running" => loops = {}
    /\ clAt = "idle" => published = snap

LEMMA JoinedInit == ModeInit => Joined
<1> SUFFICES ASSUME ModeInit PROVE Joined
  OBVIOUS
<1>1. Inv
  BY InitInv DEF ModeInit
<1> QED
  BY <1>1 DEF ModeInit, Init, Disk!Init, Joined, Loops

\* Every step is one of the serving side, or leaves it alone.
LEMMA ModeServes == [ModeNext]_modeVars => [Next]_vars
<1> SUFFICES ASSUME [ModeNext]_modeVars PROVE [Next]_vars
  OBVIOUS
<1>1. CASE Publish
  BY <1>1 DEF Publish, Next
<1>2. CASE WatchLoopReturns
  BY <1>2 DEF WatchLoopReturns, Next, Loops
<1>3. CASE CompileLoopReturns
  BY <1>3 DEF CompileLoopReturns, Next
<1>4. CASE FileStep
  BY <1>4 DEF FileStep
<1>5. CASE Stop
  BY <1>5 DEF Stop, Next, Loops
<1>6. CASE ServeStep
  BY <1>6 DEF ServeStep, Next, Loops
<1>7. CASE UNCHANGED modeVars
  BY <1>7 DEF modeVars
<1> QED
  BY <1>1, <1>2, <1>3, <1>4, <1>5, <1>6, <1>7 DEF ModeNext

\* The serving side stops d2 only as a user may, or when it is stopped already.
LEMMA ServeCancels ==
    ASSUME Joined, ServeStep
    PROVE  UNCHANGED cancelled
<1>1. CASE \E c \in Clients : HandleWatch(c) \/ ClientStep(c) \/ PeerGone(c)
  BY <1>1 DEF HandleWatch, ClientStep, PeerGone, GoingAway, AcceptFail, Accept, Register,
              GetRes, Write, WriteFail, Receive, Deregister, Release, mainVars
<1>2. CASE BroadcastStep
  BY <1>2 DEF BroadcastStep, BroadcastLock, BroadcastUnlock, BroadcastSignal, mainVars
<1>3. CASE CloseStep
  BY <1>3 DEF CloseStep, CloseBegin, CloseResources, CloseReturn, Joined, Inv, CloseInv
<1>4. CASE Finished
  BY <1>4 DEF Finished, vars, mainVars
<1>5. CASE cancelled /\ LoopExit("serve")
  BY <1>5 DEF LoopExit
<1> QED
  BY <1>1, <1>2, <1>3, <1>4, <1>5 DEF ServeStep

\* Every step is one of the file side, or leaves it alone.
LEMMA ModeReads ==
    ASSUME Joined, [ModeNext]_modeVars
    PROVE  [Disk!Next]_(Disk!vars)
<1> USE DEF Disk!Next
<1>1. CASE Publish
  BY <1>1 DEF Publish, Disk!CompileLoop
<1>2. CASE WatchLoopReturns
  BY <1>2 DEF WatchLoopReturns
<1>3. CASE CompileLoopReturns
  BY <1>3 DEF CompileLoopReturns
<1>4. CASE FileStep
  BY <1>4 DEF FileStep, Compiling, Disk!CompileLoop
<1>5. ASSUME UNCHANGED diskVars, UNCHANGED cancelled PROVE UNCHANGED Disk!vars
  BY <1>5 DEF diskVars, Disk!vars, Disk!fsVars, Disk!fwVars, Disk!wlVars, Disk!clVars,
              Disk!rootVars
<1>6. CASE Stop
  <2>1. UNCHANGED diskVars /\ cancelled' = TRUE /\ MayCancel
    BY <1>6 DEF Stop, Interrupt, LoopExit
  <2>2. CASE cancelled
    <3>1. cancelled = TRUE
      BY <2>2 DEF Joined, Inv, TypeOK
    <3> QED
      BY <1>5, <2>1, <3>1
  <2>3. CASE ~cancelled
    BY <2>1, <2>3 DEF Disk!Cancel, diskVars, Disk!fsVars, Disk!fwVars, Disk!wlVars,
                      Disk!clVars, Disk!rootVars
  <2> QED
    BY <2>2, <2>3
<1>7. CASE ServeStep
  BY <1>5, <1>7, ServeCancels DEF ServeStep
<1>8. CASE UNCHANGED modeVars
  BY <1>5, <1>8 DEF modeVars, vars, mainVars
<1> QED
  BY <1>1, <1>2, <1>3, <1>4, <1>6, <1>7, <1>8 DEF ModeNext

\* No step of the file side alone ends a loop, and none but compileLoop's publishes or
\* reads.
LEMMA FileStepKeeps ==
    ASSUME Joined, FileStep
    PROVE  /\ wlAt' = "exited" <=> wlAt = "exited"
           /\ clAt' = "exited" <=> clAt = "exited"
           /\ bc # "idle" => clAt' = clAt
           /\ clAt' = "idle" => clAt = "idle" /\ UNCHANGED <<published, snap>>
<1> USE DEF Disk!WatchLoopOnly, Disk!CompileLoopOnly, Disk!SystemUnchanged, Disk!fwVars,
            Disk!wlVars, Disk!clVars, Disk!rootVars
<1>1. CASE \E f \in Disk!Files : Disk!User(f)
  BY <1>1 DEF Disk!User, Disk!Save, Disk!Replace, Disk!Chmod, Disk!Delete, Disk!Create
<1>2. CASE Disk!EventBegin \/ Disk!BurstExpire \/ Disk!BurstDone \/ Disk!PollBegin
  BY <1>2 DEF Disk!EventBegin, Disk!BurstExpire, Disk!BurstDone, Disk!PollBegin
<1>3. CASE Disk!WatchLoopBusy
  BY <1>3 DEF Disk!WatchLoopBusy, Disk!WatchAdd, Disk!WatchStatFail, Disk!StartDone,
              Disk!EventBenign, Disk!EventChanged, Disk!PollNext, Disk!PollDone,
              Disk!Stat, Disk!ToSelect
<1>4. CASE Compiling
  <2>1. bc = "idle" /\ clAt # "exited"
    BY <1>4 DEF Compiling, Joined
  <2>2. CASE Disk!CompileBegin \/ Disk!ReadInput \/ Disk!DropUnused
    BY <2>1, <2>2 DEF Disk!CompileBegin, Disk!ReadInput, Disk!DropUnused
  <2>3. CASE Disk!AddImport \/ Disk!StatImport
    BY <2>1, <2>3 DEF Disk!AddImport, Disk!StatImport
  <2>4. CASE \E f \in Imports : Disk!ReadImport(f) \/ Disk!AddVisit(f)
    BY <2>1, <2>4 DEF Disk!ReadImport, Disk!AddVisit
  <2> QED
    BY <1>4, <2>2, <2>3, <2>4 DEF Compiling
<1>5. CASE Disk!HandleRootRequest \/ \E b \in Boards : Disk!HandleRoot(b)
  BY <1>5 DEF Disk!HandleRootRequest, Disk!HandleRoot
<1> QED
  BY <1>1, <1>2, <1>3, <1>4, <1>5 DEF FileStep

\* No step of the serving side alone ends a loop other than the server's.
LEMMA ServeStepKeeps ==
    ASSUME Joined, ServeStep
    PROVE  /\ "watchLoop" \in loops' <=> "watchLoop" \in loops
           /\ bc' = "exited" <=> bc = "exited"
           /\ bc' \in {"lock", "signal"} => bc \in {"lock", "signal"}
           /\ main' # "running" => loops' = {}
<1>1. CASE \E c \in Clients : HandleWatch(c) \/ ClientStep(c) \/ PeerGone(c)
  BY <1>1 DEF HandleWatch, ClientStep, PeerGone, GoingAway, AcceptFail, Accept, Register,
              GetRes, Write, WriteFail, Receive, Deregister, Release, bcVars, mainVars,
              Joined
<1>2. CASE BroadcastStep
  BY <1>2 DEF BroadcastStep, BroadcastLock, BroadcastUnlock, BroadcastSignal, mainVars,
              Joined
<1>3. CASE CloseStep
  BY <1>3 DEF CloseStep, CloseBegin, CloseResources, CloseReturn, bcVars, Joined
<1>4. CASE Finished
  BY <1>4 DEF Finished, vars, mainVars, bcVars, Joined
<1>5. CASE cancelled /\ LoopExit("serve")
  BY <1>5 DEF LoopExit, bcVars, Joined
<1> QED
  BY <1>1, <1>2, <1>3, <1>4, <1>5 DEF ServeStep

LEMMA JoinedNext == Joined /\ [ModeNext]_modeVars => Joined'
<1> SUFFICES ASSUME Joined, [ModeNext]_modeVars PROVE Joined'
  OBVIOUS
<1>1. Inv'
  BY ModeServes, NextInv DEF Joined
<1>2. CASE Publish
  BY <1>1, <1>2 DEF Publish, BroadcastStore, Disk!Broadcast, Disk!CompileLoopOnly,
                    Disk!wlVars, mainVars, Joined
<1>3. CASE WatchLoopReturns
  BY <1>1, <1>3 DEF WatchLoopReturns, LoopExit, Disk!WatchLoopExit, Disk!WatchLoopOnly,
                    Disk!clVars, bcVars, Joined
<1>4. CASE CompileLoopReturns
  BY <1>1, <1>4 DEF CompileLoopReturns, CompileLoopExit, Disk!CompileLoopExit,
                    Disk!CompileLoopOnly, Disk!wlVars, mainVars, Joined
<1>5. CASE FileStep
  <2>1. UNCHANGED <<bc, loops, main, cancelled>>
    BY <1>5 DEF FileStep, vars, bcVars, mainVars
  <2> QED
    BY <1>1, <1>5, <2>1, FileStepKeeps DEF Joined
<1>6. CASE Stop
  BY <1>1, <1>6 DEF Stop, Interrupt, LoopExit, bcVars, diskVars, Joined
<1>7. CASE ServeStep
  <2>1. UNCHANGED <<wlAt, clAt, published, snap>>
    BY <1>7 DEF ServeStep, diskVars
  <2> QED
    BY <1>1, <1>7, <2>1, ServeCancels, ServeStepKeeps DEF Joined
<1>8. CASE UNCHANGED modeVars
  BY <1>1, <1>8 DEF modeVars, vars, bcVars, mainVars, diskVars, Joined
<1> QED
  BY <1>2, <1>3, <1>4, <1>5, <1>6, <1>7, <1>8 DEF ModeNext

LEMMA JoinedHolds == ModeSpec => []Joined
  BY JoinedInit, JoinedNext, PTL DEF ModeSpec

\* Watch mode as a whole does what each of its sides is specified to do: neither the
\* broadcast to browsers nor the end of a loop disturbs the other one (watch.go, run,
\* compileLoop and broadcast).
THEOREM WholeImplementsSides == ModeSpec => Spec /\ Disk!Spec
<1>1. ModeInit => Init /\ Disk!Init
  BY DEF ModeInit
<1>2. Joined /\ [ModeNext]_modeVars => [Next]_vars /\ [Disk!Next]_(Disk!vars)
  BY ModeServes, ModeReads
<1> QED
  BY <1>1, <1>2, JoinedHolds, PTL DEF ModeSpec, Spec, Disk!Spec

\* watchLoop never handles an empty burst, so that changedList[0] is in range
\* whenever it is read.
THEOREM BurstHasChangeHolds == ModeSpec => []BurstHasChange
  BY WholeImplementsSides, DiskBurstHasChange, PTL DEF BurstHasChange

\* Between compilations every file the last one opened is watched, or watchLoop has
\* been told that it has to be again (replaceWatchList and ensureAddWatch).
THEOREM NoBlindSpotHolds == ModeSpec => []NoBlindSpot
  BY WholeImplementsSides, DiskNoBlindSpot, PTL DEF NoBlindSpot

\* No change of a file that matters is forgotten, whatever events are lost: what will
\* make d2 compile it is on its way, or the poll finds it (watchLoop).
THEOREM ChangeNoticedHolds == ModeSpec => []ChangeNoticed
  BY WholeImplementsSides, DiskChangeNoticed, PTL DEF ChangeNoticed

\* A browser that waits has been sent what is on disk, or something is on its way that
\* will make d2 compile the file again (watchLoop, compileLoop, broadcast and
\* writeLoop), for any files, edits, lost events and connections.
THEOREM TabsShowDiskHolds == ModeSpec => []TabsShowDisk
<1>1. Joined /\ ChangeNoticed => TabsShowDisk
  <2> SUFFICES ASSUME Joined, ChangeNoticed, clAt = "idle", bc = "idle",
                      NEW c \in Clients, conn[c] = "select", ~token[c]
               PROVE  /\ sent[c] = res
                      /\ \A f \in opened \cup {Input} :
                           Quiet(f) => ShownVersion(f) = file[f]
    BY DEF TabsShowDisk
  <2>1. sent[c] = res
    BY DEF Joined, Inv, FreshInv, TodoInv, SignalDue
  <2>2. ASSUME NEW f \in opened \cup {Input}, Quiet(f) PROVE ShownVersion(f) = file[f]
    <3>1. published = snap
      BY DEF Joined
    <3>2. Disk!LastRead(f) = file[f]
      BY <2>2 DEF ChangeNoticed, Disk!ChangeNoticed, Quiet, Disk!Ops
    <3> QED
      BY <3>1, <3>2 DEF Disk!LastRead, ShownVersion
  <2> QED
    BY <2>1, <2>2
<1> QED
  BY <1>1, JoinedHolds, ChangeNoticedHolds, PTL

\* close closes the file watcher only when watchLoop and compileLoop have returned,
\* so that neither uses a closed one (run, goFunc and close).
THEOREM LoopsEndBeforeCloseHolds == ModeSpec => []LoopsEndBeforeClose
<1>1. Joined => LoopsEndBeforeClose
  BY DEF Joined, Inv, CloseInv, LoopsEndBeforeClose
<1> QED
  BY <1>1, JoinedHolds, PTL

=============================================================================
