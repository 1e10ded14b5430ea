---------------------------- MODULE Diagram_proofs ----------------------------
(***************************************************************************)
(* Proofs about the parts of compiling and laying out a diagram: the seed  *)
(* search for any number of seeds and workers, the compilation of every    *)
(* tree of boards, work guards for every limit, stride and charge an int64 *)
(* can hold, the transactions of the layout for every graph and any number *)
(* of moves, the output paths of every tree of boards, and, from the       *)
(* proofs of their own that Texts_proofs has, the edits of every tree of   *)
(* objects and the imports of every set of files.                          *)
(***************************************************************************)
EXTENDS MCDiagram, SumTheorems, SequenceTheorems

-----------------------------------------------------------------------------
(* The seed search.  The coordinator sees one attempt at a time, so the      *)
(* invariant says what its choice is worth so far (ChoiceSoFar), that an     *)
(* attempt it has not received is still somewhere (NothingLost), and that    *)
(* while nobody has cancelled an attempt that could succeed did              *)
(* (Undisturbed).  At the moment of the decision these give SelectionIsBest. *)

NothingLost ==
    /\ \A i \in Index : i < jobs =>
         i \in received \/ \E w \in Workers : at[w] \in {"running", "sending"} /\ job[w] = i
    /\ \A w \in Workers : at[w] = "exited" => jobs = NSeeds
    /\ \A w \in Workers : at[w] \in {"running", "sending"} => job[w] \in Index

Undisturbed ==
    /\ succeeded \subseteq good
    /\ ~cancelled => \A w \in Workers :
         at[w] = "sending" /\ job[w] \in good => job[w] \in succeeded

ChoiceSoFar ==
    /\ bestIndex \in good \cup {-1}
    /\ ~cancelled => \A j \in received \cap good :
         bestIndex # -1 /\ (bestIndex = j \/ Beats(bestIndex, j))

SeedInv ==
    /\ TypeOK /\ NothingLost /\ Undisturbed /\ ChoiceSoFar
    /\ SelectionIsBest /\ GivesUpOnlyWithoutLayout
    /\ phase # "done" => result = "none"

\* Beating is transitive, also through the two comparisons Collect makes.
LEMMA BeatsTransitive ==
    ASSUME TypeOK, NEW i \in Index, NEW b \in Index, NEW j \in Index,
           Beats(b, j),
           Better(score[i], score[b]) \/ (SameScore(score[i], score[b]) /\ i > b)
    PROVE  Beats(i, j)
<1>1. /\ score[i].penalty \in Int /\ score[b].penalty \in Int /\ score[j].penalty \in Int
      /\ score[i].area \in Int /\ score[b].area \in Int /\ score[j].area \in Int
    BY ScoreAssumption DEF TypeOK, Scores
<1>2. i \in Int /\ b \in Int /\ j \in Int
    BY SeedAssumption DEF Index
<1> QED  BY <1>1, <1>2 DEF Beats, Better, SameScore

\* An attempt that does not win against the choice so far is beaten by it.
LEMMA LoserIsBeaten ==
    ASSUME TypeOK, NEW i \in Index, NEW b \in Index, i # b,
           ~Better(score[i], score[b]), ~(SameScore(score[i], score[b]) /\ i > b)
    PROVE  Beats(b, i)
<1>1. /\ score[i].penalty \in Int /\ score[b].penalty \in Int
      /\ score[i].area \in Int /\ score[b].area \in Int
    BY ScoreAssumption DEF TypeOK, Scores
<1>2. i \in Int /\ b \in Int
    BY SeedAssumption DEF Index
<1> QED  BY <1>1, <1>2 DEF Beats, Better, SameScore

\* A winner beats the choice it replaces.
LEMMA WinnerBeats ==
    ASSUME TypeOK, NEW i \in Index, NEW b \in Index,
           Better(score[i], score[b]) \/ (SameScore(score[i], score[b]) /\ i > b)
    PROVE  Beats(i, b)
<1>1. /\ score[i].penalty \in Int /\ score[b].penalty \in Int
      /\ score[i].area \in Int /\ score[b].area \in Int
    BY ScoreAssumption DEF TypeOK, Scores
<1>2. i \in Int /\ b \in Int
    BY SeedAssumption DEF Index
<1> QED  BY <1>1, <1>2 DEF Beats, Better, SameScore

\* The state type is preserved.
LEMMA SeedTypeStep == TypeOK /\ NothingLost /\ [Next]_vars => TypeOK'
<1> SUFFICES ASSUME TypeOK, NothingLost, [Next]_vars PROVE TypeOK'
    OBVIOUS
<1> USE SeedAssumption, WorkerAssumption
<1>1. ASSUME NEW w \in Workers, Take(w) PROVE TypeOK'
  <2>1. jobs \in Index /\ jobs' \in 0..NSeeds
      BY <1>1 DEF TypeOK, Take, Index
  <2> QED  BY <1>1, <2>1 DEF TypeOK, Take, seedVars, mainVars
<1>2. ASSUME NEW w \in Workers, RunSucceeds(w) PROVE TypeOK'
  <2>1. job[w] \in Index
      BY <1>2 DEF NothingLost, RunSucceeds
  <2> QED  BY <1>2, <2>1 DEF TypeOK, RunSucceeds, seedVars, mainVars
<1>3. ASSUME NEW w \in Workers, RunFails(w) PROVE TypeOK'
    BY <1>3 DEF TypeOK, RunFails, seedVars, mainVars
<1>4. ASSUME NEW w \in Workers, Exit(w) PROVE TypeOK'
    BY <1>4 DEF TypeOK, Exit, seedVars, mainVars
<1>5. ASSUME NEW w \in Workers, Collect(w) PROVE TypeOK'
  <2>1. job[w] \in Index
      BY <1>5 DEF NothingLost, Collect
  <2>2. bestIndex' \in Index \cup {-1}
      BY <1>5, <2>1 DEF TypeOK, Collect
  <2> QED  BY <1>5, <2>1, <2>2 DEF TypeOK, Collect, seedVars
<1>6. Decide => TypeOK'
    BY DEF TypeOK, Decide, Return, seedVars, poolVars
<1>7. Consider => TypeOK'
    BY DEF TypeOK, Consider, Return, seedVars, poolVars
<1>8. Refine => TypeOK'
    BY DEF TypeOK, Refine, Return, seedVars, poolVars
<1>9. Apply => TypeOK'
    BY DEF TypeOK, Apply, Return, seedVars, poolVars
<1>10. Cancel => TypeOK'
    BY DEF TypeOK, Cancel, seedVars, poolVars, mainVars
<1>11. UNCHANGED vars => TypeOK'
    BY DEF TypeOK, vars, seedVars, poolVars, mainVars
<1> QED
    BY <1>1, <1>2, <1>3, <1>4, <1>5, <1>6, <1>7, <1>8, <1>9, <1>10, <1>11 DEF Next,
       WorkerStep, MainStep

\* An attempt is taken once, and stays with its worker until it is received.
LEMMA NothingLostStep == TypeOK /\ NothingLost /\ [Next]_vars => NothingLost'
<1> SUFFICES ASSUME TypeOK, NothingLost, [Next]_vars PROVE NothingLost'
    OBVIOUS
<1> USE SeedAssumption, WorkerAssumption
<1>1. ASSUME NEW w \in Workers, Take(w) PROVE NothingLost'
  <2>1. jobs \in Index /\ jobs' = jobs + 1
      BY <1>1 DEF TypeOK, Take, Index
  <2>2. at'[w] = "running" /\ job'[w] = jobs
      BY <1>1 DEF TypeOK, Take
  <2>3. \A v \in Workers \ {w} : at'[v] = at[v] /\ job'[v] = job[v]
      BY <1>1 DEF TypeOK, Take
  <2>4. ASSUME NEW i \in Index, i < jobs'
        PROVE  i \in received' \/ \E v \in Workers :
                 at'[v] \in {"running", "sending"} /\ job'[v] = i
    <3>1. CASE i = jobs
        BY <3>1, <2>2
    <3>2. CASE i # jobs
      <4>1. i < jobs
          BY <3>2, <2>1, <2>4 DEF Index
      <4>2. received' = received /\ at[w] = "idle"
          BY <1>1 DEF Take, mainVars
      <4> QED  BY <4>1, <4>2, <2>3 DEF NothingLost
    <3> QED  BY <3>1, <3>2
  <2>5. \A v \in Workers : at'[v] # "exited"
    <3>1. \A v \in Workers : at[v] # "exited"
        BY <1>1 DEF NothingLost, Take, TypeOK
    <3> QED  BY <3>1, <2>2, <2>3
  <2> QED  BY <2>1, <2>2, <2>3, <2>4, <2>5 DEF NothingLost
<1>2. ASSUME NEW w \in Workers, RunSucceeds(w) PROVE NothingLost'
    BY <1>2 DEF NothingLost, TypeOK, RunSucceeds, mainVars
<1>3. ASSUME NEW w \in Workers, RunFails(w) PROVE NothingLost'
    BY <1>3 DEF NothingLost, TypeOK, RunFails, mainVars
<1>4. ASSUME NEW w \in Workers, Exit(w) PROVE NothingLost'
    BY <1>4 DEF NothingLost, TypeOK, Exit, mainVars
<1>5. ASSUME NEW w \in Workers, Collect(w) PROVE NothingLost'
    BY <1>5 DEF NothingLost, TypeOK, Collect
<1>6. Decide => NothingLost'
    BY DEF NothingLost, Decide, seedVars, poolVars
<1>7. Consider => NothingLost'
    BY DEF NothingLost, Consider, seedVars, poolVars
<1>8. Refine => NothingLost'
    BY DEF NothingLost, Refine, seedVars, poolVars
<1>9. Apply => NothingLost'
    BY DEF NothingLost, Apply, seedVars, poolVars
<1>10. Cancel => NothingLost'
    BY DEF NothingLost, Cancel, seedVars, poolVars, mainVars
<1>11. UNCHANGED vars => NothingLost'
    BY DEF NothingLost, vars, seedVars, poolVars, mainVars
<1> QED
    BY <1>1, <1>2, <1>3, <1>4, <1>5, <1>6, <1>7, <1>8, <1>9, <1>10, <1>11 DEF Next,
       WorkerStep, MainStep

\* Only a cancellation makes an attempt at a good seed fail.
LEMMA UndisturbedStep == TypeOK /\ Undisturbed /\ [Next]_vars => Undisturbed'
<1> SUFFICES ASSUME TypeOK, Undisturbed, [Next]_vars PROVE Undisturbed'
    OBVIOUS
<1>1. ASSUME NEW w \in Workers, Take(w) PROVE Undisturbed'
    BY <1>1 DEF Undisturbed, TypeOK, Take, seedVars, mainVars
<1>2. ASSUME NEW w \in Workers, RunSucceeds(w) PROVE Undisturbed'
    BY <1>2 DEF Undisturbed, TypeOK, RunSucceeds, seedVars, mainVars
<1>3. ASSUME NEW w \in Workers, RunFails(w) PROVE Undisturbed'
    BY <1>3 DEF Undisturbed, TypeOK, RunFails, seedVars, mainVars
<1>4. ASSUME NEW w \in Workers, Exit(w) PROVE Undisturbed'
    BY <1>4 DEF Undisturbed, TypeOK, Exit, seedVars, mainVars
<1>5. ASSUME NEW w \in Workers, Collect(w) PROVE Undisturbed'
    BY <1>5 DEF Undisturbed, TypeOK, Collect, seedVars
<1>6. Decide \/ Consider \/ Refine \/ Apply => Undisturbed'
    BY DEF Undisturbed, Decide, Consider, Refine, Apply, seedVars, poolVars
<1>7. Cancel => Undisturbed'
    BY DEF Undisturbed, Cancel, seedVars, poolVars, mainVars
<1>8. UNCHANGED vars => Undisturbed'
    BY DEF Undisturbed, vars, seedVars, poolVars, mainVars
<1> QED
    BY <1>1, <1>2, <1>3, <1>4, <1>5, <1>6, <1>7, <1>8 DEF Next, WorkerStep, MainStep

\* Steps other than Collect leave the choice and what it is worth alone.
LEMMA ChoiceKept ==
    ASSUME ChoiceSoFar, UNCHANGED <<good, score, received, bestIndex>>,
           cancelled => cancelled'
    PROVE  ChoiceSoFar'
<1>1. ASSUME NEW i, NEW j PROVE Beats(i, j) <=> Beats(i, j)'
    BY DEF Beats
<1> QED  BY <1>1 DEF ChoiceSoFar

\* Receiving an attempt keeps the choice the best of those received.
LEMMA ChoiceAfterCollect ==
    ASSUME TypeOK, NothingLost, Undisturbed, ChoiceSoFar,
           NEW w \in Workers, Collect(w)
    PROVE  ChoiceSoFar'
<1> DEFINE i == job[w]
<1>1. /\ i \in Index /\ received' = received \cup {i}
      /\ good' = good /\ score' = score /\ cancelled' = cancelled
    BY DEF Collect, NothingLost, seedVars
<1>2. -1 \notin Index
    BY SeedAssumption DEF Index
<1>3. bestIndex' \in good \cup {-1}
    BY DEF Collect, ChoiceSoFar, Undisturbed
<1>4. ASSUME ~cancelled, NEW j \in received' \cap good
      PROVE  bestIndex' # -1 /\ (bestIndex' = j \/ Beats(bestIndex', j))
  <2>1. i \in good => i \in succeeded
      BY <1>4 DEF Undisturbed, Collect
  <2>2. j \in Index
      BY <1>4 DEF TypeOK
  <2>3. bestIndex # -1 => bestIndex \in Index
      BY DEF TypeOK
  <2>4. CASE bestIndex' = bestIndex
    <3>1. CASE j \in received
        BY <3>1, <2>4, <1>4 DEF ChoiceSoFar
    <3>2. CASE j = i /\ i # bestIndex
      <4>1. i \in succeeded /\ i # bestIndex'
          BY <3>2, <2>1, <2>4, <1>4
      <4>2. /\ bestIndex # -1
            /\ ~Better(score[i], score[bestIndex])
            /\ ~(SameScore(score[i], score[bestIndex]) /\ i > bestIndex)
          BY <4>1 DEF Collect
      <4> QED  BY <4>2, <3>2, <2>3, <2>4, <1>1, LoserIsBeaten
    <3>3. CASE j = i /\ i = bestIndex
        BY <3>3, <2>4, <1>1, <1>2
    <3> QED  BY <3>1, <3>2, <3>3, <1>1, <1>4
  <2>5. CASE bestIndex' # bestIndex
    <3>1. /\ bestIndex' = i
          /\ \/ bestIndex = -1
             \/ Better(score[i], score[bestIndex])
             \/ SameScore(score[i], score[bestIndex]) /\ i > bestIndex
        BY <2>5 DEF Collect
    <3>2. CASE j = i
        BY <3>2, <3>1, <1>1, <1>2
    <3>3. CASE j # i
      <4>1. j \in received /\ j \in good
          BY <3>3, <1>1, <1>4
      <4>2. bestIndex # -1 /\ (bestIndex = j \/ Beats(bestIndex, j))
          BY <4>1, <1>4 DEF ChoiceSoFar
      <4>3. Better(score[i], score[bestIndex])
              \/ (SameScore(score[i], score[bestIndex]) /\ i > bestIndex)
          BY <4>2, <3>1
      <4>4. Beats(i, j)
          BY <4>2, <4>3, <2>2, <2>3, <1>1, WinnerBeats, BeatsTransitive
      <4> QED  BY <4>4, <3>1, <1>1, <1>2
    <3> QED  BY <3>2, <3>3
  <2> QED  BY <2>4, <2>5
<1>5. ASSUME NEW a, NEW b PROVE Beats(a, b)' <=> Beats(a, b)
    BY <1>1 DEF Beats
<1> QED  BY <1>1, <1>3, <1>4, <1>5 DEF ChoiceSoFar

\* Once every worker has exited, every seed has been received.
LEMMA AllReceived ==
    ASSUME TypeOK, NothingLost, \A w \in Workers : at[w] = "exited"
    PROVE  received = Index
<1>1. PICK w \in Workers : TRUE
    BY SeedAssumption, WorkerAssumption DEF Workers
<1>2. jobs = NSeeds
    BY <1>1 DEF NothingLost
<1>3. \A i \in Index : i < jobs
    BY <1>2, SeedAssumption DEF Index
<1>4. \A i \in Index : i \in received
    BY <1>3 DEF NothingLost
<1> QED  BY <1>4 DEF TypeOK

\* The choice made by Decide is the best of all; later steps keep it.
LEMMA SelectionStep ==
    ASSUME SeedInv, [Next]_vars
    PROVE  /\ ChoiceSoFar' /\ SelectionIsBest' /\ GivesUpOnlyWithoutLayout'
           /\ (phase # "done" => result = "none")'
<1> DEFINE P == /\ ChoiceSoFar' /\ SelectionIsBest' /\ GivesUpOnlyWithoutLayout'
                /\ (phase # "done" => result = "none")'
<1> USE DEF SeedInv
<1>0. ASSUME NEW a, NEW b, score' = score PROVE Beats(a, b)' <=> Beats(a, b)
    BY <1>0 DEF Beats
<1>1. ASSUME NEW w \in Workers, Take(w) \/ RunSucceeds(w) \/ RunFails(w) \/ Exit(w)
      PROVE  P
  <2>1. UNCHANGED <<good, score, received, bestIndex, phase, result, cancelled>>
      BY <1>1 DEF Take, RunSucceeds, RunFails, Exit, seedVars, mainVars
  <2>2. ChoiceSoFar'
      BY <2>1, ChoiceKept
  <2> QED  BY <2>1, <2>2, <1>0 DEF SelectionIsBest, GivesUpOnlyWithoutLayout
<1>2. ASSUME NEW w \in Workers, Collect(w) PROVE P
  <2>1. ChoiceSoFar'
      BY <1>2, ChoiceAfterCollect
  <2>2. phase' = "collect" /\ result' = "none"
      BY <1>2 DEF Collect
  <2> QED  BY <2>1, <2>2 DEF SelectionIsBest, GivesUpOnlyWithoutLayout
<1>3. ASSUME Decide PROVE P
  <2>1. UNCHANGED <<good, score, received, bestIndex, cancelled>>
      BY <1>3 DEF Decide, seedVars
  <2>2. ChoiceSoFar'
      BY <2>1, ChoiceKept
  <2>3. received \cap good = good
      BY <1>3, AllReceived DEF Decide, TypeOK
  <2>4. phase' # "done" => result' = "none"
      BY <1>3 DEF Decide, Return
  <2>5. SelectionIsBest'
    <3>1. CASE cancelled \/ bestIndex = -1
        BY <3>1, <1>3 DEF Decide, Return, SelectionIsBest
    <3>2. CASE ~(cancelled \/ bestIndex = -1)
      <4>1. bestIndex \in good
          BY <3>2 DEF ChoiceSoFar
      <4>2. \A j \in good \ {bestIndex} : Beats(bestIndex, j)
          BY <3>2, <2>3 DEF ChoiceSoFar
      <4> QED  BY <4>1, <4>2, <2>1, <1>0 DEF SelectionIsBest
    <3> QED  BY <3>1, <3>2
  <2>6. GivesUpOnlyWithoutLayout'
    <3>1. ~cancelled /\ bestIndex = -1 => good = {}
        BY <2>3 DEF ChoiceSoFar
    <3> QED  BY <3>1, <2>1 DEF GivesUpOnlyWithoutLayout
  <2> QED  BY <2>2, <2>4, <2>5, <2>6
<1>4. ASSUME Consider \/ Refine \/ Apply PROVE P
  <2>1. /\ UNCHANGED <<good, score, received, bestIndex, cancelled>>
        /\ phase \in {"compound", "reroute", "apply"}
      BY <1>4 DEF Consider, Refine, Apply, seedVars
  <2>2. ChoiceSoFar'
      BY <2>1, ChoiceKept
  <2>3. bestIndex \in good /\ bestIndex # -1
      BY <2>1, SeedAssumption DEF SelectionIsBest, TypeOK, Index
  <2>4. SelectionIsBest'
      BY <2>1, <1>0 DEF SelectionIsBest
  <2>5. phase' # "done" => result' = "none"
      BY <1>4 DEF Consider, Refine, Apply, Return
  <2> QED  BY <2>1, <2>2, <2>3, <2>4, <2>5 DEF GivesUpOnlyWithoutLayout
<1>5. ASSUME Cancel PROVE P
  <2>1. /\ UNCHANGED <<good, score, received, bestIndex, phase, result>>
        /\ cancelled'
      BY <1>5 DEF Cancel, seedVars, mainVars
  <2>2. ChoiceSoFar'
      BY <2>1, ChoiceKept
  <2> QED  BY <2>1, <2>2, <1>0 DEF SelectionIsBest, GivesUpOnlyWithoutLayout
<1>6. ASSUME UNCHANGED vars PROVE P
  <2>1. UNCHANGED <<good, score, received, bestIndex, phase, result, cancelled>>
      BY <1>6 DEF vars, seedVars, mainVars
  <2>2. ChoiceSoFar'
      BY <2>1, ChoiceKept
  <2> QED  BY <2>1, <2>2, <1>0 DEF SelectionIsBest, GivesUpOnlyWithoutLayout
<1> QED
    BY <1>1, <1>2, <1>3, <1>4, <1>5, <1>6 DEF Next, WorkerStep, MainStep

LEMMA SeedInit == Init => SeedInv
<1> SUFFICES ASSUME Init PROVE SeedInv
    OBVIOUS
<1> USE SeedAssumption, WorkerAssumption DEF Init
<1>1. TypeOK
  <2>1. jobs \in 0..NSeeds
      OBVIOUS
  <2>2. at \in [Workers -> {"idle", "running", "sending", "exited"}]
      OBVIOUS
  <2>3. job \in [Workers -> Index \cup {-1}]
      OBVIOUS
  <2> QED  BY <2>1, <2>2, <2>3 DEF TypeOK
<1>2. NothingLost
    BY DEF NothingLost, Index
<1>3. Undisturbed
    BY DEF Undisturbed
<1>4. ChoiceSoFar /\ SelectionIsBest /\ GivesUpOnlyWithoutLayout
    BY DEF ChoiceSoFar, SelectionIsBest, GivesUpOnlyWithoutLayout
<1> QED  BY <1>1, <1>2, <1>3, <1>4 DEF SeedInv

LEMMA SeedStep == SeedInv /\ [Next]_vars => SeedInv'
<1> SUFFICES ASSUME SeedInv, [Next]_vars PROVE SeedInv'
    OBVIOUS
<1>1. TypeOK'
    BY SeedTypeStep DEF SeedInv
<1>2. NothingLost'
    BY NothingLostStep DEF SeedInv
<1>3. Undisturbed'
    BY UndisturbedStep DEF SeedInv
<1>4. /\ ChoiceSoFar' /\ SelectionIsBest' /\ GivesUpOnlyWithoutLayout'
      /\ (phase # "done" => result = "none")'
    BY SelectionStep
<1> QED  BY <1>1, <1>2, <1>3, <1>4 DEF SeedInv

-----------------------------------------------------------------------------
(* The compilation of boards.  Geometry that is kept of a board is what a     *)
(* layout of it computes, and it is kept only where nothing else can matter.  *)

Geometry ==
    [input : {c.input : c \in Contents} \cup {"none"},
     style : {c.style : c \in Contents} \cup {"none"}, special : BOOLEAN]

BoardsTyped ==
    /\ parentOf \in [Compilation!Boards -> 0..NBoards]
    /\ section \in [Compilation!Boards -> 1..3] /\ section[1] = 1
    /\ \A b \in Compilation!Boards \ {1} : parentOf[b] \in Compilation!Boards
    /\ content \in [Compilation!Boards -> Contents \cup {Compilation!Nothing}]
    /\ builtin \in BOOLEAN
    /\ compiling \in {"idle", "running", "ok", "failed"}
    /\ board \in 1..(NBoards + 1)
    /\ compiling \in {"idle", "running"} => board \in Compilation!Boards
    /\ interrupted \in BOOLEAN
    /\ DOMAIN captured = Compilation!Boards
    /\ shown \in [Compilation!Boards -> Geometry]
    /\ late \subseteq Compilation!Boards

\* What is kept of b serves all boards whose signature is that of b.
Kept(b) ==
    /\ builtin /\ ~content[b].special
    /\ captured[b].signature = Compilation!Signature(b)
    /\ captured[b].geometry = Compilation!Fresh(b)

BoardsInv ==
    /\ BoardsTyped
    /\ \A b \in Compilation!Boards : captured[b] # Compilation!NotCaptured => Kept(b)
    /\ Compilation!GeometryIsFresh
    /\ late # {} => compiling = "failed"

LEMMA BoardNumbers ==
    /\ Compilation!Boards = 1..NBoards /\ NBoards \in Nat \ {0}
    /\ Compilation!Nothing \in Geometry
    /\ \A b \in Compilation!Boards : BoardsTyped => content[b] \in Geometry
<1>1. Compilation!Boards = 1..NBoards /\ NBoards \in Nat \ {0}
  BY BoardAssumption DEF Compilation!Boards
<1>2. Compilation!Nothing \in Geometry
  BY DEF Compilation!Nothing, Geometry
<1>3. \A b \in Compilation!Boards : BoardsTyped => content[b] \in Geometry
  <2>1. Contents \subseteq Geometry
    <3> SUFFICES ASSUME NEW c \in Contents PROVE c \in Geometry
      OBVIOUS
    <3> DEFINE I == {d.input : d \in Contents}
               S == {d.style : d \in Contents}
    <3>1. c \in [input : I, style : S, special : BOOLEAN]
      BY BoardAssumption
    <3> HIDE DEF I, S
    <3>2. c \in [input : I \cup {"none"}, style : S \cup {"none"}, special : BOOLEAN]
      BY <3>1
    <3> QED
      BY <3>2 DEF Geometry, I, S
  <2> HIDE DEF Geometry
  <2> QED
    BY <1>2, <2>1 DEF BoardsTyped
<1> QED
  BY <1>1, <1>2, <1>3

LEMMA FreshIs ==
    ASSUME BoardsTyped, NEW b \in Compilation!Boards
    PROVE  /\ Compilation!Fresh(b) \in Geometry
           /\ builtin =>
                Compilation!Fresh(b) = [input |-> content[b].input, style |-> "none",
                                        special |-> content[b].special]
<1> DEFINE c == content[b]
<1>1. c \in Geometry
  BY BoardNumbers
<1>2. Compilation!Fresh(b) = IF builtin THEN [c EXCEPT !.style = "none"] ELSE c
  BY DEF Compilation!Fresh
<1> HIDE DEF c
<1>4. [c EXCEPT !.style = "none"] \in Geometry
  BY <1>1 DEF Geometry
<1>5. [c EXCEPT !.style = "none"] = [input |-> c.input, style |-> "none",
                                     special |-> c.special]
  BY <1>1 DEF Geometry
<1> QED
  BY <1>1, <1>2, <1>4, <1>5 DEF c

\* A board gets the geometry of a board.
LEMMA OfferedOf ==
    ASSUME BoardsTyped, NEW b \in Compilation!Boards,
           Compilation!Offered(b) # Compilation!NotCaptured
    PROVE  \E x \in Compilation!Boards : Compilation!Offered(b) = captured[x]
<1> DEFINE elder == {x \in Compilation!Steps(b) : x < b}
<1>1. Compilation!Offered(b) = IF section[b] = 1 THEN Compilation!NotCaptured
        ELSE IF section[b] = 3 /\ elder # {} THEN captured[Compilation!Max(elder)]
        ELSE captured[parentOf[b]]
  BY DEF Compilation!Offered
<1>2. section[b] # 1 /\ parentOf[b] \in Compilation!Boards
  BY <1>1 DEF BoardsTyped
<1>3. CASE section[b] = 3 /\ elder # {}
  <2>1. elder \subseteq Compilation!Boards
    BY DEF Compilation!Steps
  <2>2. elder \subseteq Int /\ IsFiniteSet(elder)
    <3>1. IsFiniteSet(1..NBoards)
      BY BoardNumbers, FS_Interval
    <3> QED
      BY <2>1, <3>1, BoardNumbers, FS_Subset
  <2> HIDE DEF elder
  <2>3. \E n \in elder : \A m \in elder : n >= m
    BY <1>3, <2>2, FiniteExtremes
  <2>4. Compilation!Max(elder) \in elder
    BY <2>3 DEF Compilation!Max
  <2> QED
    BY <1>1, <1>2, <1>3, <2>1, <2>4
<1>4. CASE ~(section[b] = 3 /\ elder # {})
  BY <1>1, <1>2, <1>4
<1> QED
  BY <1>3, <1>4

\* What is replayed for a board is what a layout of it would compute.
LEMMA ReplayIsFresh ==
    ASSUME BoardsInv, NEW b \in Compilation!Boards, Compilation!Replays(b)
    PROVE  Compilation!Offered(b).geometry = Compilation!Fresh(b)
<1>1. /\ Compilation!Offered(b) # Compilation!NotCaptured
      /\ Compilation!Offered(b).signature = Compilation!Signature(b)
  BY DEF Compilation!Replays
<1>2. PICK x \in Compilation!Boards : Compilation!Offered(b) = captured[x]
  BY <1>1, OfferedOf DEF BoardsInv
<1>3. Kept(x)
  BY <1>1, <1>2 DEF BoardsInv
<1>4. Compilation!Signature(x) = Compilation!Signature(b)
  BY <1>1, <1>2, <1>3 DEF Kept
<1>5. content[x].input = content[b].input /\ content[x].special = content[b].special
  BY <1>4 DEF Compilation!Signature
<1>6. Compilation!Fresh(x) = Compilation!Fresh(b)
  BY <1>3, <1>5, FreshIs DEF Kept, BoardsInv
<1> QED
  BY <1>2, <1>3, <1>6 DEF Kept

LEMMA BoardsInit == Compilation!Init => BoardsInv
<1> SUFFICES ASSUME NEW p \in [Compilation!Boards -> 0..(NBoards - 1)],
                    NEW s \in [Compilation!Boards -> 1..3],
                    NEW c \in [Compilation!Boards -> Contents \cup {Compilation!Nothing}],
                    NEW e \in BOOLEAN, Compilation!Numbered(p, s),
                    Compilation!Described(p, s, c, e)
             PROVE  BoardsInv
  BY DEF Compilation!Init
<1>1. /\ parentOf = p /\ section = s /\ content = c /\ builtin = e
      /\ compiling = "idle" /\ board = 1 /\ interrupted = FALSE
      /\ captured = [b \in Compilation!Boards |-> Compilation!NotCaptured]
      /\ shown = [b \in Compilation!Boards |-> Compilation!Nothing]
      /\ late = {}
  BY DEF Compilation!Described
<1>2. BoardsTyped
  <2>1. \A b \in Compilation!Boards \ {1} : parentOf[b] \in Compilation!Boards
    <3> SUFFICES ASSUME NEW b \in Compilation!Boards \ {1}
                 PROVE  parentOf[b] \in Compilation!Boards
      OBVIOUS
    <3>1. PICK x \in Compilation!Boards : x < b /\ p[b] = x
      BY DEF Compilation!Numbered
    <3> QED
      BY <1>1, <3>1
  <2>2. section[1] = 1
    BY <1>1 DEF Compilation!Numbered
  <2>3. parentOf \in [Compilation!Boards -> 0..NBoards]
    BY <1>1, BoardNumbers
  <2>4. shown \in [Compilation!Boards -> Geometry]
    BY <1>1, BoardNumbers
  <2>5. board \in 1..(NBoards + 1) /\ board \in Compilation!Boards
    BY <1>1, BoardNumbers
  <2>6. compiling \in {"idle", "running", "ok", "failed"} /\ interrupted \in BOOLEAN
        /\ builtin \in BOOLEAN /\ late \subseteq Compilation!Boards
        /\ DOMAIN captured = Compilation!Boards
    BY <1>1
  <2>7. /\ section \in [Compilation!Boards -> 1..3]
        /\ content \in [Compilation!Boards -> Contents \cup {Compilation!Nothing}]
    BY <1>1
  <2> QED
    BY <2>1, <2>2, <2>3, <2>4, <2>5, <2>6, <2>7 DEF BoardsTyped
<1>3. Compilation!GeometryIsFresh
  <2>1. \A b \in Compilation!Boards : ~(b < board)
    BY <1>1, BoardNumbers
  <2> QED
    BY <2>1 DEF Compilation!GeometryIsFresh
<1> QED
  BY <1>1, <1>2, <1>3 DEF BoardsInv

\* Of the boards nothing changes but how far the compilation is.
LEMMA TreeKept ==
    ASSUME UNCHANGED Compilation!treeVars
    PROVE  /\ UNCHANGED <<parentOf, section, content, builtin>>
           /\ \A b : Compilation!Fresh(b)' = Compilation!Fresh(b)
           /\ \A b : Compilation!Signature(b)' = Compilation!Signature(b)
           /\ \A b : Compilation!Has(b)' = Compilation!Has(b)
  BY DEF Compilation!treeVars, Compilation!Fresh, Compilation!Signature, Compilation!Has

\* A board is exported with its own geometry, which is kept if it may be reused.
LEMMA ShownStep ==
    ASSUME BoardsInv, compiling = "running", UNCHANGED Compilation!treeVars,
           UNCHANGED interrupted, late' = {},
           Compilation!Has(board), Compilation!Shown(board, Compilation!Fresh(board))
    PROVE  BoardsInv'
<1> DEFINE b == board
<1>1. /\ captured' = [captured EXCEPT ![b] = Compilation!Capture(b, Compilation!Fresh(b))]
      /\ shown' = [shown EXCEPT ![b] = Compilation!Fresh(b)]
      /\ board' = b + 1
      /\ compiling' = IF b = NBoards THEN "ok" ELSE "running"
  BY DEF Compilation!Shown
<1>2. b \in Compilation!Boards /\ BoardsTyped
  BY DEF BoardsInv, BoardsTyped
<1>3. Compilation!Fresh(b) \in Geometry
  BY <1>2, FreshIs
<1>4. BoardsTyped'
  <2>1. b + 1 \in 1..(NBoards + 1) /\ (b # NBoards => b + 1 \in Compilation!Boards)
    BY <1>2, BoardNumbers
  <2>2. shown' \in [Compilation!Boards -> Geometry]
    BY <1>1, <1>2, <1>3 DEF BoardsTyped
  <2>3. DOMAIN captured' = Compilation!Boards
    BY <1>1, <1>2 DEF BoardsTyped
  <2>4. /\ compiling' \in {"ok", "running"} /\ board' \in 1..(NBoards + 1)
        /\ compiling' = "running" => board' \in Compilation!Boards
    BY <1>1, <2>1
  <2> QED
    BY <1>2, <2>2, <2>3, <2>4, TreeKept DEF BoardsTyped
<1>5. ASSUME NEW x \in Compilation!Boards, captured'[x] # Compilation!NotCaptured
      PROVE  Kept(x)'
  <2>1. CASE x = b
    <3>1. captured'[b] = Compilation!Capture(b, Compilation!Fresh(b))
      BY <1>1, <1>2 DEF BoardsTyped
    <3>2. /\ Compilation!Supports(b)
          /\ captured'[b] = [signature |-> Compilation!Signature(b),
                             geometry |-> IF content[b].special THEN Compilation!Nothing
                                          ELSE Compilation!Fresh(b)]
      BY <1>5, <2>1, <3>1 DEF Compilation!Capture
    <3> QED
      BY <2>1, <3>2, TreeKept DEF Compilation!Supports, Kept
  <2>2. CASE x # b
    <3>1. captured'[x] = captured[x]
      BY <1>1, <1>2, <2>2 DEF BoardsTyped
    <3>2. Kept(x)
      BY <1>5, <3>1 DEF BoardsInv
    <3> QED
      BY <3>1, <3>2, TreeKept DEF Kept
  <2> QED
    BY <2>1, <2>2
<1>6. Compilation!GeometryIsFresh'
  <2> SUFFICES ASSUME NEW x \in Compilation!Boards, x < board', Compilation!Has(x)'
               PROVE  shown'[x] = Compilation!Fresh(x)'
    BY DEF Compilation!GeometryIsFresh
  <2>1. CASE x = b
    BY <1>1, <1>2, <2>1, TreeKept DEF BoardsTyped
  <2>2. CASE x # b
    <3>1. x < board
      BY <1>1, <1>2, <2>2, BoardNumbers
    <3>2. shown'[x] = shown[x]
      BY <1>1, <1>2, <2>2 DEF BoardsTyped
    <3> QED
      BY <3>1, <3>2, TreeKept DEF BoardsInv, Compilation!GeometryIsFresh
  <2> QED
    BY <2>1, <2>2
<1> QED
  BY <1>4, <1>5, <1>6 DEF BoardsInv

\* Whatever fails or is only exported leaves the geometry as it is.
LEMMA RestStep ==
    ASSUME BoardsInv, UNCHANGED Compilation!treeVars, UNCHANGED <<captured, shown>>,
           interrupted' \in BOOLEAN, late' \subseteq Compilation!Boards,
           late' # {} => compiling' = "failed",
           compiling' \in {"idle", "running", "ok", "failed"},
           board' = board \/ (board' = board + 1 /\ ~Compilation!Has(board)),
           board' \in 1..(NBoards + 1),
           compiling' \in {"idle", "running"} => board' \in Compilation!Boards
    PROVE  BoardsInv'
<1>1. BoardsTyped'
  BY TreeKept DEF BoardsInv, BoardsTyped
<1>2. \A b \in Compilation!Boards : captured'[b] # Compilation!NotCaptured => Kept(b)'
  BY TreeKept DEF BoardsInv, Kept
<1>3. Compilation!GeometryIsFresh'
  <2> SUFFICES ASSUME NEW x \in Compilation!Boards, x < board', Compilation!Has(x)'
               PROVE  shown'[x] = Compilation!Fresh(x)'
    BY DEF Compilation!GeometryIsFresh
  <2>1. Compilation!Has(x)
    BY TreeKept
  <2>2. board \in Int /\ x \in Int
    BY BoardNumbers DEF BoardsInv, BoardsTyped
  <2>3. x < board
    BY <2>1, <2>2
  <2> QED
    BY <2>1, <2>3, TreeKept DEF BoardsInv, Compilation!GeometryIsFresh
<1> QED
  BY <1>1, <1>2, <1>3 DEF BoardsInv

LEMMA BoardsStep == BoardsInv /\ [Compilation!Next]_boardState => BoardsInv'
<1> SUFFICES ASSUME BoardsInv, [Compilation!Next]_boardState PROVE BoardsInv'
  OBVIOUS
<1>1. /\ interrupted \in BOOLEAN /\ late \subseteq Compilation!Boards
      /\ compiling \in {"idle", "running", "ok", "failed"}
      /\ board \in 1..(NBoards + 1)
      /\ compiling \in {"idle", "running"} => board \in Compilation!Boards
      /\ late # {} => compiling = "failed"
  BY DEF BoardsInv, BoardsTyped
<1>2. CASE Compilation!Compile
  BY <1>1, <1>2, RestStep DEF Compilation!Compile
<1>3. CASE Compilation!Interrupt
  BY <1>1, <1>3, RestStep DEF Compilation!Interrupt
<1>4. ASSUME NEW ok \in BOOLEAN, Compilation!CompileBoard(ok) PROVE BoardsInv'
  <2>1. /\ compiling = "running" /\ UNCHANGED Compilation!treeVars /\ UNCHANGED interrupted
        /\ board \in Compilation!Boards /\ late = {}
    BY <1>1, <1>4 DEF Compilation!CompileBoard
  <2>2. board + 1 \in 1..(NBoards + 1)
        /\ (board # NBoards => board + 1 \in Compilation!Boards)
    BY <2>1, BoardNumbers
  <2>3. CASE Compilation!CompileEmpty(board)
    <3>1. /\ ~Compilation!Has(board) /\ UNCHANGED <<captured, shown, late>>
          /\ board' = board + 1
          /\ compiling' = IF board = NBoards THEN "ok" ELSE "running"
      BY <2>3 DEF Compilation!CompileEmpty
    <3>2. /\ compiling' \in {"running", "ok"}
          /\ compiling' = "running" => board' \in Compilation!Boards
      BY <2>2, <3>1
    <3> QED
      BY <1>1, <2>1, <2>2, <3>1, <3>2, RestStep
  <2>4. CASE Compilation!CompileObjects(board, ok)
    <3>1. /\ Compilation!Has(board)
          /\ late' = IF interrupted THEN late \cup {board} ELSE late
      BY <2>4 DEF Compilation!CompileObjects
    <3>2. CASE Compilation!Replays(board)
      <4>1. ~interrupted /\ Compilation!Shown(board, Compilation!Offered(board).geometry)
        BY <2>4, <3>2 DEF Compilation!CompileObjects, Compilation!Replays
      <4>2. Compilation!Offered(board).geometry = Compilation!Fresh(board)
        BY <2>1, <3>2, ReplayIsFresh
      <4> QED
        BY <2>1, <3>1, <4>1, <4>2, ShownStep
    <3>3. CASE ~Compilation!Replays(board) /\ ok /\ ~interrupted
      <4>1. Compilation!Shown(board, Compilation!Fresh(board))
        BY <2>4, <3>3 DEF Compilation!CompileObjects
      <4> QED
        BY <2>1, <3>1, <3>3, <4>1, ShownStep
    <3>4. CASE ~Compilation!Replays(board) /\ ~(ok /\ ~interrupted)
      <4>1. compiling' = "failed" /\ UNCHANGED <<board, captured, shown>>
        BY <2>4, <3>4 DEF Compilation!CompileObjects
      <4>2. late' \subseteq Compilation!Boards
        BY <1>1, <2>1, <3>1
      <4> QED
        BY <1>1, <2>1, <4>1, <4>2, RestStep
    <3> QED
      BY <3>2, <3>3, <3>4
  <2> QED
    BY <1>4, <2>3, <2>4 DEF Compilation!CompileBoard
<1>5. CASE UNCHANGED boardState
  <2>1. UNCHANGED Compilation!treeVars /\ UNCHANGED <<captured, shown, interrupted, late,
                                                      compiling, board>>
    BY <1>5 DEF boardState, Compilation!treeVars
  <2> QED
    BY <1>1, <2>1, RestStep
<1> QED
  BY <1>2, <1>3, <1>4, <1>5 DEF Compilation!Next

LEMMA BoardsFollow ==
    BoardsInv => Compilation!TypeOK /\ Compilation!ReuseIsHarmless
  BY BoardNumbers
     DEF BoardsInv, BoardsTyped, Geometry, Compilation!TypeOK, Compilation!ReuseIsHarmless,
         Compilation!CancellationSurfaces

-----------------------------------------------------------------------------
(* Work guards.  The limit leaves room for one more unit, so that nothing     *)
(* wraps around before it is refused.                                        *)

\* Integers in range do not wrap around.
LEMMA InRange ==
    ASSUME MaxWorkInt \in Nat, NEW n \in (-MaxWorkInt)..MaxWorkInt
    PROVE  Guard!Int64(n) = n
<1> DEFINE x == n + MaxWorkInt + 1
           size == 2 * (MaxWorkInt + 1)
<1>1. x \in Int /\ size \in Int /\ 0 <= x /\ x < size
  OBVIOUS
<1>2. x % size = x
  BY <1>1
<1> QED
  BY <1>1, <1>2 DEF Guard!Int64

\* Within a stride, quotients do not change and remainders count up.
LEMMA SameStride ==
    ASSUME NEW u \in Nat, NEW n \in Nat, NEW s \in Nat \ {0},
           u \div s = (u + n) \div s
    PROVE  (u + n) % s = (u % s) + n
<1>1. u = s * (u \div s) + (u % s)
  OBVIOUS
<1>2. u + n = s * ((u + n) \div s) + ((u + n) % s)
  OBVIOUS
<1> QED
  BY <1>1, <1>2

LEMMA Remainder ==
    ASSUME NEW u \in Nat, NEW s \in Nat \ {0}
    PROVE  u % s \in Nat /\ u % s < s
OBVIOUS

\* What is accepted is within the limit and counted; after the end of the context,
\* what is accepted fits into the stride under way.
GuardInv ==
    /\ limit \in Limits /\ stride \in Strides
    /\ guarding => used \in 0..limit /\ used = charged
    /\ guarding => since \in Nat /\ since <= used % stride
    /\ ~ended => since = 0

\* Charging a single unit.
LEMMA StepStep ==
    ASSUME GuardInv, Guard!Step
    PROVE  GuardInv'
<1> USE GuardAssumption DEF GuardInv
<1>1. /\ guarding /\ used \in 0..limit /\ used = charged /\ limit \in 0..(MaxWorkInt - 1)
      /\ stride \in Nat \ {0} /\ UNCHANGED <<limit, stride, ended>>
  BY DEF Guard!Step, Guard!Charge
<1>2. Guard!StepUsed(used) = used + 1
  BY <1>1, InRange DEF Guard!StepUsed
<1>3. used' = used + 1 /\ charged' = charged + 1
  BY <1>2 DEF Guard!Step, Guard!Charge
<1>4. CASE ~guarding'
  BY <1>1, <1>4 DEF Guard!Step, Guard!Charge
<1>5. CASE guarding'
  <2>1. Guard!StepResult(used) = "ok"
    BY <1>5 DEF Guard!Step, Guard!Charge
  <2>2. used' \in 0..limit
    BY <1>1, <1>2, <1>3, <2>1 DEF Guard!StepResult
  <2>3. CASE ~ended
    <3>1. since' = 0
      BY <2>3 DEF Guard!Step, Guard!Charge
    <3>2. used' \in Nat /\ stride' \in Nat \ {0}
      BY <1>1, <2>2
    <3>3. used' % stride' \in Nat
      BY <3>2, Remainder
    <3> QED
      BY <1>1, <1>3, <2>2, <3>1, <3>3
  <2>4. CASE ended
    <3>1. (used + 1) % stride # 0
      BY <1>1, <1>2, <2>1, <2>4 DEF Guard!StepResult, Guard!Check
    <3>2. since' = since + 1
      BY <2>1, <2>4 DEF Guard!Step, Guard!Charge
    <3>3. used \div stride = (used + 1) \div stride
      <4> DEFINE d == used \div stride
                 e == (used + 1) \div stride
      <4>1. /\ used = stride * d + (used % stride) /\ d \in Int
            /\ used % stride \in 0..(stride - 1)
        BY <1>1
      <4>2. /\ used + 1 = stride * e + ((used + 1) % stride) /\ e \in Int
            /\ (used + 1) % stride \in 1..(stride - 1)
        BY <1>1, <3>1
      <4> HIDE DEF d, e
      <4>3. stride * (e - d) = 1 + (used % stride) - ((used + 1) % stride)
        BY <1>1, <4>1, <4>2
      <4>4. stride * (e - d) < stride /\ stride * (e - d) > -stride
        BY <1>1, <4>1, <4>2, <4>3
      <4>5. e - d \in Int
        BY <4>1, <4>2
      <4>6. e - d = 0
        <5>1. CASE e - d >= 1
          <6>1. stride * (e - d) >= stride
            BY <1>1, <4>5, <5>1
          <6> QED
            BY <1>1, <4>4, <4>5, <6>1
        <5>2. CASE e - d <= -1
          <6>1. stride * (e - d) <= -stride
            BY <1>1, <4>5, <5>2
          <6> QED
            BY <1>1, <4>4, <4>5, <6>1
        <5> QED
          BY <4>5, <5>1, <5>2
      <4> QED
        BY <4>1, <4>2, <4>6 DEF d, e
    <3>4. (used + 1) % stride = (used % stride) + 1
      <4>1. used \in Nat /\ 1 \in Nat /\ stride \in Nat \ {0}
        BY <1>1
      <4> HIDE GuardAssumption DEF GuardInv
      <4> QED
        BY <3>3, <4>1, SameStride, Zenon
    <3>5. since \in Nat /\ since <= used % stride /\ used % stride \in Int
      BY <1>1
    <3>6. used' % stride' = (used % stride) + 1
      BY <1>1, <1>3, <3>4
    <3>7. since' \in Nat /\ since' <= used' % stride'
      BY <3>2, <3>5, <3>6
    <3> QED
      BY <1>1, <1>3, <2>2, <2>4, <3>7
  <2> QED
    BY <2>3, <2>4
<1> QED
  BY <1>4, <1>5

\* Charging many units at once.
LEMMA AddStep ==
    ASSUME GuardInv, NEW units \in Charges, Guard!Add(units)
    PROVE  GuardInv'
<1> USE GuardAssumption DEF GuardInv
<1>1. /\ guarding /\ used \in 0..limit /\ used = charged /\ limit \in 0..(MaxWorkInt - 1)
      /\ stride \in Nat \ {0} /\ UNCHANGED <<limit, stride, ended>>
      /\ units \in (-MaxWorkInt)..MaxWorkInt
  BY DEF Guard!Add, Guard!Charge
<1>2. CASE ~guarding'
  <2>1. ~ended => since' = 0
    BY DEF Guard!Add, Guard!Charge
  <2> QED
    BY <1>1, <1>2, <2>1
<1>3. CASE guarding'
  <2>1. Guard!AddResult(used, units) = "ok"
    BY <1>3 DEF Guard!Add, Guard!Charge
  <2>2. units >= 0 /\ ~Guard!Refuses(used, units)
    BY <2>1 DEF Guard!AddResult
  <2>3. units <= limit /\ used <= limit - units
    <3>1. units <= limit
      BY <1>1, <2>2 DEF Guard!Refuses
    <3>2. Guard!Int64(limit - units) = limit - units
      BY <1>1, <2>2, <3>1, InRange
    <3> QED
      BY <1>1, <2>2, <3>1, <3>2 DEF Guard!Refuses
  <2>4. used' = used + units /\ charged' = charged + units
    <3>1. Guard!Int64(used + units) = used + units
      BY <1>1, <2>2, <2>3, InRange
    <3> QED
      BY <1>1, <2>2, <3>1 DEF Guard!Add, Guard!Charge, Guard!AddUsed
  <2>5. used' \in 0..limit /\ used' = charged'
    BY <1>1, <2>2, <2>3, <2>4
  <2>6. CASE ~ended
    <3>1. since' = 0
      BY <2>6 DEF Guard!Add, Guard!Charge
    <3>2. used' \in Nat /\ stride' \in Nat \ {0}
      BY <1>1, <2>5
    <3>3. used' % stride' \in Nat
      BY <3>2, Remainder
    <3>4. since' \in Nat /\ since' <= used' % stride'
      BY <3>1, <3>3
    <3> QED
      BY <1>1, <2>5, <3>1, <3>4
  <2>7. CASE ended
    <3>1. used \div stride = (used + units) \div stride
      <4>1. ~Guard!Polls(used, used + units)
        BY <2>1, <2>2, <2>7 DEF Guard!AddResult, Guard!Check
      <4> QED
        BY <4>1 DEF Guard!Polls
    <3>2. since' = since + units
      BY <2>1, <2>7 DEF Guard!Add, Guard!Charge
    <3>3. (used + units) % stride = (used % stride) + units
      <4>1. used \in Nat /\ units \in Nat /\ stride \in Nat \ {0}
        BY <1>1, <2>2
      <4> HIDE GuardAssumption DEF GuardInv
      <4> QED
        BY <3>1, <4>1, SameStride, Zenon
    <3>4. since \in Nat /\ since <= used % stride /\ used % stride \in Int
      BY <1>1
    <3>5. used' % stride' = (used % stride) + units
      BY <1>1, <2>4, <3>3
    <3>6. since' \in Nat /\ since' <= used' % stride'
      BY <1>1, <2>2, <3>2, <3>4, <3>5
    <3> QED
      BY <1>1, <2>5, <2>7, <3>6
  <2> QED
    BY <2>6, <2>7
<1> QED
  BY <1>2, <1>3

LEMMA GuardStep ==
    ASSUME GuardInv, [Guard!Next]_guardState
    PROVE  GuardInv'
<1> USE DEF GuardInv
<1>1. CASE Guard!NewWorkGuard
  <2>1. limit \in Nat /\ stride \in Nat \ {0} /\ 0 % stride = 0
    BY GuardAssumption
  <2> QED
    BY <1>1, <2>1 DEF Guard!NewWorkGuard
<1>2. CASE Guard!End
  BY <1>2 DEF Guard!End
<1>3. CASE Guard!Step
  BY <1>3, StepStep
<1>4. CASE \E units \in Charges : Guard!Add(units)
  BY <1>4, AddStep
<1>5. CASE UNCHANGED guardState
  BY <1>5 DEF guardState
<1> QED
  BY <1>1, <1>2, <1>3, <1>4, <1>5 DEF Guard!Next

\* Quotients and remainders, and what is between two quotients.
LEMMA Quotient ==
    ASSUME NEW u \in Nat, NEW s \in Nat \ {0}
    PROVE  /\ u = s * (u \div s) + (u % s) /\ u \div s \in Nat
           /\ u % s \in 0..(s - 1)
OBVIOUS

LEMMA Multiples ==
    ASSUME NEW a \in Int, NEW b \in Int, NEW s \in Nat \ {0}, a < b
    PROVE  s * a + s <= s * b
<1>1. b - a >= 1 /\ b - a \in Int
  OBVIOUS
<1>2. s * (b - a) >= s
  BY <1>1
<1>3. s * (b - a) = s * b - s * a
  OBVIOUS
<1>4. s * a \in Int /\ s * b \in Int
  OBVIOUS
<1> QED
  BY <1>2, <1>3, <1>4

\* A boundary lies after u and not after u + n exactly when the quotients differ.
LEMMA Crossing ==
    ASSUME NEW u \in Nat, NEW n \in Nat, NEW s \in Nat \ {0}
    PROVE  (\E i \in 0..(n - 1) : (u + i + 1) % s = 0) <=> u \div s # (u + n) \div s
<1> DEFINE d == u \div s
           e == (u + n) \div s
           r == (u + n) % s
           m == s * (d + 1)
<1>1. u = s * d + (u % s) /\ d \in Nat /\ u % s \in 0..(s - 1)
  BY Quotient
<1>2. u + n = s * e + r /\ e \in Nat /\ r \in 0..(s - 1)
  <2>1. u + n \in Nat
    OBVIOUS
  <2> QED
    BY <2>1, Quotient
<1>3. ASSUME NEW i \in 0..(n - 1), (u + i + 1) % s = 0 PROVE d # e
  <2> DEFINE q == (u + i + 1) \div s
  <2>1. u + i + 1 \in Nat
    OBVIOUS
  <2>2. u + i + 1 = s * q /\ q \in Nat
    BY <1>3, <2>1, Quotient
  <2> HIDE DEF d, e, q, r
  <2>3. s * d \in Int /\ s * e \in Int /\ s * q \in Int
    BY <1>1, <1>2, <2>2
  <2>4. s * d < s * q /\ s * q <= s * e + r
    BY <1>1, <1>2, <2>2, <2>3
  <2>5. ASSUME d >= q PROVE FALSE
    <3>1. d = q \/ q < d
      BY <1>1, <2>2, <2>5
    <3>2. q < d => s * q + s <= s * d
      BY <1>1, <2>2, Multiples
    <3> QED
      BY <2>3, <2>4, <3>1, <3>2
  <2>6. ASSUME e < q PROVE FALSE
    <3>1. s * e + s <= s * q
      BY <1>2, <2>2, <2>6, Multiples
    <3> QED
      BY <1>2, <2>3, <2>4, <3>1
  <2> QED
    BY <1>1, <1>2, <2>2, <2>5, <2>6
<1>4. ASSUME d # e PROVE \E i \in 0..(n - 1) : (u + i + 1) % s = 0
  <2> HIDE DEF d, e, r
  <2>1. s * d \in Int /\ s * e \in Int /\ m \in Int
    BY <1>1, <1>2
  <2>2. m = s * d + s
    BY <1>1
  <2>3. d < e
    <3>1. ASSUME e < d PROVE FALSE
      <4>1. s * e + s <= s * d
        BY <1>1, <1>2, <3>1, Multiples
      <4> QED
        BY <1>1, <1>2, <2>1, <4>1
    <3> QED
      BY <1>1, <1>2, <1>4, <3>1
  <2>4. m <= s * e
    BY <1>1, <1>2, <2>2, <2>3, Multiples
  <2>5. u < m /\ m <= u + n
    BY <1>1, <1>2, <2>1, <2>2, <2>4
  <2>6. m % s = 0
    <3> DEFINE q == m \div s
    <3>1. m \in Nat
      BY <2>1, <2>5
    <3>2. m = s * q + (m % s) /\ q \in Nat /\ m % s \in 0..(s - 1)
      BY <3>1, Quotient
    <3>3. m = s * (d + 1) /\ d + 1 \in Nat
      BY <1>1
    <3> DEFINE c == d + 1
    <3> HIDE DEF m, q, c
    <3>4. m = s * c /\ c \in Nat
      BY <3>3 DEF c
    <3>5. s * c \in Int /\ s * q \in Int
      BY <3>2, <3>4
    <3>6. q < c => s * q + s <= s * c
      BY <3>2, <3>4, Multiples
    <3>7. c < q => s * c + s <= s * q
      BY <3>2, <3>4, Multiples
    <3>8. q = c
      BY <3>2, <3>4, <3>5, <3>6, <3>7
    <3>9. s * q = m
      BY <3>4, <3>8
    <3> DEFINE k == m % s
    <3>10. k \in Int /\ s * q + k = m
      BY <3>2
    <3> HIDE DEF k
    <3>11. k = 0
      BY <3>5, <3>9, <3>10
    <3> QED
      BY <3>11 DEF k
  <2> HIDE DEF m
  <2>7. m - u - 1 \in 0..(n - 1) /\ u + (m - u - 1) + 1 = m
    BY <2>1, <2>5
  <2> QED
    BY <2>6, <2>7
<1> QED
  BY <1>3, <1>4

\* Below the limit, a single unit polls on the boundaries; at the limit it is refused.
LEMMA SingleUnit ==
    ASSUME limit \in Limits, NEW v \in 0..limit
    PROVE  Guard!StepResult(v) = IF v = limit THEN "limit"
                                 ELSE IF (v + 1) % stride = 0 THEN Guard!Check ELSE "ok"
<1>1. v + 1 \in (-MaxWorkInt)..MaxWorkInt /\ limit \in Nat /\ v \in Nat
      /\ MaxWorkInt \in Nat
  BY GuardAssumption
<1>2. Guard!StepUsed(v) = v + 1
  BY <1>1, InRange DEF Guard!StepUsed
<1>3. v + 1 > limit <=> v = limit
  BY <1>1
<1> QED
  BY <1>2, <1>3 DEF Guard!StepResult

\* Units are refused exactly when they would exceed the limit.
LEMMA RefusesIs ==
    ASSUME limit \in Limits, NEW u \in 0..limit, NEW n \in Charges, 0 < n
    PROVE  Guard!Refuses(u, n) <=> u + n > limit
<1>1. /\ limit \in 0..(MaxWorkInt - 1) /\ MaxWorkInt \in Nat
      /\ n \in (-MaxWorkInt)..MaxWorkInt
  BY GuardAssumption
<1>2. CASE n > limit
  BY <1>1, <1>2 DEF Guard!Refuses
<1>3. CASE n <= limit
  <2>1. Guard!Int64(limit - n) = limit - n
    BY <1>1, <1>3, InRange
  <2> QED
    BY <1>1, <1>3, <2>1 DEF Guard!Refuses
<1> QED
  BY <1>1, <1>2, <1>3

\* A charge polls exactly when one of its units would.
LEMMA PollsIs ==
    ASSUME NEW u \in Nat, NEW n \in Nat \ {0}, stride \in Nat \ {0}
    PROVE  Guard!Polls(u, u + n) <=> \E i \in 0..(n - 1) : (u + i + 1) % stride = 0
<1>1. (u + n) % stride = 0 => \E i \in 0..(n - 1) : (u + i + 1) % stride = 0
  <2>1. n - 1 \in 0..(n - 1) /\ u + (n - 1) + 1 = u + n
    OBVIOUS
  <2> QED
    BY <2>1
<1>2. n \in Nat
  OBVIOUS
<1>3. (\E i \in 0..(n - 1) : (u + i + 1) % stride = 0)
        <=> u \div stride # (u + n) \div stride
  BY <1>2, Crossing
<1> QED
  BY <1>1, <1>3 DEF Guard!Polls

LEMMA AddIsStepsHolds == GuardInv => Guard!AddIsSteps
<1> SUFFICES ASSUME GuardInv, guarding, NEW n \in Charges, 0 < n
    PROVE  LET answers == {Guard!StepResult(used + i) : i \in 0..(n - 1)} \ {"ok"}
               first == CHOOSE i \in 0..(n - 1) :
                           /\ Guard!StepResult(used + i) # "ok"
                           /\ \A j \in 0..(i - 1) : Guard!StepResult(used + j) = "ok"
           IN  Guard!AddResult(used, n) = IF answers = {} THEN "ok"
                                          ELSE Guard!StepResult(used + first)
  BY DEF Guard!AddIsSteps
<1> DEFINE answer(i) == Guard!StepResult(used + i)
           answers == {answer(i) : i \in 0..(n - 1)} \ {"ok"}
           Stops(i) == answer(i) # "ok" /\ \A j \in 0..(i - 1) : answer(j) = "ok"
           first == CHOOSE i \in 0..(n - 1) : Stops(i)
<1>1. /\ limit \in Limits /\ limit \in Nat /\ used \in 0..limit /\ used \in Nat
      /\ stride \in Nat \ {0} /\ n \in Nat \ {0} /\ n \in Int
  BY GuardAssumption DEF GuardInv
<1>2. \A i \in 0..(limit - used) :
        answer(i) = IF used + i = limit THEN "limit"
                    ELSE IF (used + i + 1) % stride = 0 THEN Guard!Check ELSE "ok"
  <2> SUFFICES ASSUME NEW i \in 0..(limit - used)
               PROVE  answer(i) = IF used + i = limit THEN "limit"
                        ELSE IF (used + i + 1) % stride = 0 THEN Guard!Check ELSE "ok"
    OBVIOUS
  <2>1. used + i \in 0..limit
    BY <1>1
  <2> QED
    BY <1>1, <2>1, SingleUnit
<1>3. Guard!Check = IF ended THEN "context" ELSE "ok"
  BY DEF Guard!Check
<1>4. Guard!AddResult(used, n) =
        IF used + n > limit
        THEN IF used \div stride # limit \div stride /\ ended THEN "context" ELSE "limit"
        ELSE IF Guard!Polls(used, used + n) THEN Guard!Check ELSE "ok"
  <2>1. ~(n < 0) /\ used <= limit
    BY <1>1
  <2> QED
    BY <1>1, <2>1, RefusesIs DEF Guard!AddResult
\* The first unit that is not accepted.
<1>5. ASSUME answers # {}
      PROVE  first \in 0..(n - 1) /\ Stops(first)
  <2> DEFINE S == {i \in 0..(n - 1) : answer(i) # "ok"}
  <2> HIDE DEF answer
  <2>1. S \subseteq Nat /\ S # {}
    BY <1>5
  <2>2. PICK i \in S : \A m \in S : i <= m
    <3> HIDE DEF S
    <3> QED
      BY <2>1, LeastNatural
  <2>3. \A j \in 0..(i - 1) : answer(j) = "ok"
    BY <1>1, <2>2
  <2> QED
    BY <2>2, <2>3
<1> SUFFICES Guard!AddResult(used, n) = IF answers = {} THEN "ok" ELSE answer(first)
  OBVIOUS
<1>6. \A i \in 0..(n - 1) : answer(i) # "ok" => answers # {}
  OBVIOUS
<1>7. answers = {} => \A i \in 0..(n - 1) : answer(i) = "ok"
  OBVIOUS
<1>8. CASE used + n > limit
  <2> DEFINE k == limit - used
  <2>1. /\ k \in Nat /\ used + k = limit /\ k \in 0..(n - 1) /\ k \in 0..(limit - used)
        /\ 0..(k - 1) \subseteq 0..(n - 1)
    BY <1>1, <1>8
  <2>2. used \div stride # limit \div stride
          <=> \E i \in 0..(k - 1) : (used + i + 1) % stride = 0
    <3> HIDE DEF k
    <3>1. (\E i \in 0..(k - 1) : (used + i + 1) % stride = 0)
            <=> used \div stride # (used + k) \div stride
      BY <1>1, <2>1, Crossing
    <3> QED
      BY <2>1, <3>1
  <2> HIDE DEF k, answer
  <2>3. answer(k) = "limit"
    BY <1>2, <2>1
  <2>4. answers # {} /\ first \in 0..(n - 1) /\ Stops(first)
    BY <1>5, <1>6, <2>1, <2>3
  <2> HIDE DEF first, answers
  <2>5. first \in 0..k
    <3>1. ASSUME first > k PROVE FALSE
      <4>1. k \in 0..(first - 1)
        BY <2>1, <2>4, <3>1
      <4> QED
        BY <2>3, <2>4, <4>1
    <3> QED
      BY <2>1, <2>4, <3>1
  <2>6. \A i \in 0..(k - 1) : answer(i) = IF (used + i + 1) % stride = 0 THEN Guard!Check
                                          ELSE "ok"
    <3>1. \A i \in 0..(k - 1) : i \in 0..(limit - used) /\ used + i # limit
      BY <1>1, <2>1
    <3> QED
      BY <1>2, <3>1
  <2>7. CASE \E i \in 0..(k - 1) : (used + i + 1) % stride = 0 /\ ended
    <3>1. PICK i \in 0..(k - 1) : (used + i + 1) % stride = 0 /\ ended
      BY <2>7
    <3>2. answer(i) = "context"
      BY <1>3, <2>6, <3>1
    <3>3. first # k
      BY <2>4, <3>2
    <3>4. first \in 0..(k - 1)
      BY <2>1, <2>5, <3>3
    <3>5. answer(first) = "context"
      BY <1>3, <2>4, <2>6, <3>1, <3>4
    <3> QED
      BY <1>4, <1>8, <2>2, <2>4, <3>1, <3>5
  <2>8. CASE ~(\E i \in 0..(k - 1) : (used + i + 1) % stride = 0 /\ ended)
    <3>1. \A i \in 0..(k - 1) : answer(i) = "ok"
      BY <1>3, <2>6, <2>8
    <3>2. first = k
      BY <2>1, <2>4, <2>5, <3>1
    <3> QED
      BY <1>4, <1>8, <2>2, <2>3, <2>4, <2>8, <3>2
  <2> QED
    BY <2>7, <2>8
<1>9. CASE ~(used + n > limit)
  <2>1. Guard!Polls(used, used + n)
          <=> \E i \in 0..(n - 1) : (used + i + 1) % stride = 0
    BY <1>1, PollsIs
  <2>2. \A i \in 0..(n - 1) : answer(i) = IF (used + i + 1) % stride = 0 THEN Guard!Check
                                          ELSE "ok"
    <3>1. \A i \in 0..(n - 1) : i \in 0..(limit - used) /\ used + i # limit
      BY <1>1, <1>9
    <3> HIDE DEF answer
    <3> QED
      BY <1>2, <3>1
  <2> HIDE DEF answer
  <2>3. CASE answers = {}
    <3>1. \A i \in 0..(n - 1) : answer(i) = "ok"
      BY <1>7, <2>3
    <3> HIDE DEF answers
    <3> QED
      BY <1>3, <1>4, <1>9, <2>1, <2>2, <2>3, <3>1
  <2>4. CASE answers # {}
    <3>1. first \in 0..(n - 1) /\ Stops(first)
      BY <1>5, <2>4
    <3> HIDE DEF first, answers
    <3>2. (used + first + 1) % stride = 0 /\ answer(first) = Guard!Check
      BY <2>2, <3>1
    <3> QED
      BY <1>4, <1>9, <2>1, <2>4, <3>1, <3>2
  <2> QED
    BY <2>3, <2>4
<1> QED
  BY <1>8, <1>9

\* Within a stride of work, the end of the context is noticed.
LEMMA EndNoticedHolds == GuardInv => Guard!EndNoticed
<1> SUFFICES ASSUME GuardInv, guarding PROVE since < stride
  BY DEF Guard!EndNoticed
<1>1. used \in Nat /\ stride \in Nat \ {0}
  BY GuardAssumption DEF GuardInv
<1>2. used % stride \in 0..(stride - 1)
  BY <1>1
<1> QED
  BY <1>1, <1>2 DEF GuardInv

\* The types of a guard.
GuardTyped ==
    /\ guarding \in BOOLEAN /\ ended \in BOOLEAN
    /\ used \in Int /\ charged \in Int /\ since \in Nat

LEMMA IntegersWrap == \A n \in Int : Guard!Int64(n) \in Int
<1> SUFFICES ASSUME NEW n \in Int PROVE Guard!Int64(n) \in Int
  OBVIOUS
<1> DEFINE size == 2 * (MaxWorkInt + 1)
           x == n + MaxWorkInt + 1
<1>1. size \in Nat \ {0} /\ x \in Int /\ MaxWorkInt \in Int
  BY GuardAssumption
<1>2. Guard!Int64(n) = (x % size) - (MaxWorkInt + 1)
  BY DEF Guard!Int64
<1> HIDE DEF x, size
<1>3. x % size \in Int
  BY <1>1
<1> QED
  BY <1>1, <1>2, <1>3

LEMMA GuardTypedStep ==
    GuardInv /\ GuardTyped /\ [Guard!Next]_guardState => GuardTyped'
<1> SUFFICES ASSUME GuardInv, GuardTyped, [Guard!Next]_guardState PROVE GuardTyped'
  OBVIOUS
<1>1. CASE Guard!NewWorkGuard
  BY <1>1 DEF Guard!NewWorkGuard, GuardTyped
<1>2. CASE Guard!End
  BY <1>2 DEF Guard!End, GuardTyped
<1>3. ASSUME NEW n \in Int, NEW u \in Int, NEW r, Guard!Charge(n, u, r),
             r = "ok" => n \in Nat
      PROVE  GuardTyped'
  <2>1. /\ used' = u /\ charged' = charged + n /\ guarding' = (r = "ok") /\ ended' = ended
        /\ since' = IF ended /\ r = "ok" THEN since + n ELSE since
    BY <1>3 DEF Guard!Charge
  <2>2. used' \in Int /\ charged' \in Int
    BY <2>1 DEF GuardTyped
  <2>3. since' \in Nat
    BY <1>3, <2>1 DEF GuardTyped
  <2>4. (r = "ok") \in BOOLEAN
    OBVIOUS
  <2> QED
    BY <2>1, <2>2, <2>3, <2>4 DEF GuardTyped
<1>4. CASE Guard!Step
  <2>1. Guard!StepUsed(used) \in Int
    BY IntegersWrap DEF Guard!StepUsed, GuardTyped
  <2> QED
    BY <1>3, <1>4, <2>1 DEF Guard!Step
<1>5. ASSUME NEW units \in Charges, Guard!Add(units) PROVE GuardTyped'
  <2>1. units \in Int /\ limit \in Int
    BY GuardAssumption DEF GuardInv
  <2>2. Guard!AddUsed(used, units) \in Int
    BY <2>1, IntegersWrap DEF Guard!AddUsed, GuardTyped
  <2>3. Guard!AddResult(used, units) = "ok" => units \in Nat
    BY <2>1 DEF Guard!AddResult
  <2> QED
    BY <1>3, <1>5, <2>1, <2>2, <2>3 DEF Guard!Add
<1>6. CASE UNCHANGED guardState
  BY <1>6 DEF guardState, GuardTyped
<1> QED
  BY <1>1, <1>2, <1>4, <1>5, <1>6 DEF Guard!Next

-----------------------------------------------------------------------------
(* Layout transactions.  The invariant says which memory may be recycled     *)
(* (SparesFree, UnsharedAlone), so that what somebody still has to roll back *)
(* to is kept; and that all of it is a layout that could be accepted (Fine). *)

\* Who refers to which rollback point.
TrialTyped ==
    /\ prior \in [Trial!Txns -> Trial!States \cup {Trial!None}]
    /\ prior[Trial!Outer] # Trial!None
    /\ spare \in [Trial!Txns -> Trial!States \cup {Trial!None}]
    /\ shared \in [Trial!Txns -> BOOLEAN]
    /\ pinned \in Trial!States \cup {Trial!None}
    /\ DOMAIN snapshot = Trial!States
    /\ DOMAIN kept = {Trial!Outer, Trial!Inner, Trial!Stage}

\* The transaction of a trial exists as long as the trial.
TrialNested ==
    /\ committing \in {<<>>, <<Trial!Outer>>, <<Trial!Outer, Trial!Inner>>}
    /\ committing = <<>> => prior[Trial!Inner] = Trial!None
    /\ committing = <<Trial!Outer, Trial!Inner>> => prior[Trial!Inner] # Trial!None

\* Memory that may be recycled is referred to by its transaction alone.
SparesFree ==
    \A t \in Trial!Txns : spare[t] # Trial!None =>
        /\ spare[t] # pinned
        /\ \A u \in Trial!Txns : spare[t] # prior[u]
        /\ \A u \in Trial!Txns \ {t} : spare[t] # spare[u]

\* A rollback point that is not shared will be recycled, so that nobody else may
\* have it.
UnsharedAlone ==
    \A t \in Trial!Txns : prior[t] # Trial!None /\ ~shared[t] =>
        /\ prior[t] # pinned
        /\ \A u \in Trial!Txns \ {t} : prior[u] # prior[t]

TrialInv ==
    /\ TrialTyped /\ TrialNested /\ SparesFree /\ UnsharedAlone
    /\ Trial!RollbackPointsKept

LEMMA TwoTxns ==
    /\ Trial!Txns = {1, 2} /\ Trial!Outer = 1 /\ Trial!Inner = 2 /\ Trial!Stage = 3
    /\ Trial!None = 0 /\ Trial!States = 1..5
BY DEF Trial!Txns, Trial!Outer, Trial!Inner, Trial!Stage, Trial!None, Trial!States

\* Five states are enough for those that are referred to.
LEMMA UnusedState ==
    ASSUME TrialTyped, NEW t \in Trial!Txns, spare[t] = Trial!None
    PROVE  /\ Trial!Unused \in Trial!States /\ Trial!Unused # pinned
           /\ \A u \in Trial!Txns : Trial!Unused # prior[u] /\ Trial!Unused # spare[u]
<1> DEFINE inUse == {pinned} \cup {prior[u] : u \in Trial!Txns}
                              \cup {spare[u] : u \in Trial!Txns}
<1>1. \A s \in Trial!States : s \notin inUse
        <=> s # pinned /\ s # prior[1] /\ s # prior[2] /\ s # spare[1] /\ s # spare[2]
  BY TwoTxns
<1>2. \E s \in Trial!States :
        s # pinned /\ s # prior[1] /\ s # prior[2] /\ s # spare[1] /\ s # spare[2]
  <2>1. PICK a \in Int, b \in Int, c \in Int, d \in Int :
          \A s \in Trial!States : s # a /\ s # b /\ s # c /\ s # d
             => s # pinned /\ s # prior[1] /\ s # prior[2] /\ s # spare[1] /\ s # spare[2]
    <3>1. /\ pinned \in Int /\ prior[1] \in Int /\ prior[2] \in Int
          /\ spare[1] \in Int /\ spare[2] \in Int
          /\ spare[1] = 0 \/ spare[2] = 0
      BY TwoTxns DEF TrialTyped
    <3>2. CASE spare[1] = 0
      BY <3>1, <3>2, TwoTxns
    <3>3. CASE spare[2] = 0
      BY <3>1, <3>3, TwoTxns
    <3> QED
      BY <3>1, <3>2, <3>3
  <2>2. \E s \in 1..5 : s # a /\ s # b /\ s # c /\ s # d
    OBVIOUS
  <2> QED
    BY <2>1, <2>2, TwoTxns
<1>3. Trial!Unused \in Trial!States /\ Trial!Unused \notin inUse
  BY <1>1, <1>2 DEF Trial!Unused
<1> QED
  BY <1>3

\* A trial clones its transaction, and shares the rollback point with it.
LEMMA CloneStep == TrialInv /\ Trial!Clone => TrialInv'
<1> SUFFICES ASSUME TrialInv, Trial!Clone PROVE TrialInv'
  OBVIOUS
<1> USE TwoTxns DEF TrialInv
<1>1. TrialTyped'
  BY DEF Trial!Clone, TrialTyped
<1>2. TrialNested'
  BY DEF Trial!Clone, TrialNested, TrialTyped
<1>3. SparesFree'
  BY DEF Trial!Clone, SparesFree, TrialTyped
<1>4. UnsharedAlone'
  BY DEF Trial!Clone, UnsharedAlone, TrialTyped
<1>5. Trial!RollbackPointsKept'
  BY DEF Trial!Clone, Trial!RollbackPointsKept, TrialTyped
<1> QED
  BY <1>1, <1>2, <1>3, <1>4, <1>5

LEMMA PinStep == ASSUME TrialInv, NEW detach \in BOOLEAN, Trial!Pin(detach) PROVE TrialInv'
<1> USE TwoTxns DEF TrialInv
<1>1. TrialTyped'
  BY DEF Trial!Pin, TrialTyped
<1>2. TrialNested'
  BY DEF Trial!Pin, TrialNested, TrialTyped
<1>3. SparesFree'
  BY DEF Trial!Pin, SparesFree, TrialTyped
<1>4. UnsharedAlone'
  BY DEF Trial!Pin, UnsharedAlone, TrialTyped, TrialNested
<1>5. Trial!RollbackPointsKept'
  BY DEF Trial!Pin, Trial!RollbackPointsKept, TrialTyped
<1> QED
  BY <1>1, <1>2, <1>3, <1>4, <1>5

\* The new rollback point takes memory that nobody refers to, and the old one becomes
\* spare unless it is shared.
LEMMA RefreshStep == ASSUME TrialInv, NEW t \in Trial!Txns, Trial!Refresh(t) PROVE TrialInv'
<1> DEFINE s == IF spare[t] = Trial!None THEN Trial!Unused ELSE spare[t]
<1>1. /\ prior[t] # Trial!None
      /\ snapshot' = [snapshot EXCEPT ![s] = placed]
      /\ prior' = [prior EXCEPT ![t] = s]
      /\ spare' = [spare EXCEPT ![t] = IF shared[t] THEN Trial!None ELSE prior[t]]
      /\ shared' = [shared EXCEPT ![t] = FALSE]
      /\ kept' = [kept EXCEPT ![t] = placed]
      /\ UNCHANGED <<placed, Trial!stageVars, pinned, committing, accepted, moves>>
  BY DEF Trial!Refresh, Trial!MayUse
<1>2. /\ s \in Trial!States /\ s # pinned
      /\ \A u \in Trial!Txns : s # prior[u]
      /\ \A u \in Trial!Txns \ {t} : s # spare[u]
  BY UnusedState DEF TrialInv, TrialTyped, SparesFree
<1> HIDE DEF s
<1> USE TwoTxns DEF TrialInv
<1>3. TrialTyped'
  BY <1>1, <1>2 DEF TrialTyped
<1>4. TrialNested'
  BY <1>1, <1>2 DEF TrialNested, TrialTyped
<1>5. SparesFree'
  BY <1>1, <1>2 DEF SparesFree, TrialTyped, UnsharedAlone
<1>6. UnsharedAlone'
  BY <1>1, <1>2 DEF UnsharedAlone, TrialTyped
<1>7. Trial!RollbackPointsKept'
  BY <1>1, <1>2 DEF Trial!RollbackPointsKept, TrialTyped
<1> QED
  BY <1>3, <1>4, <1>5, <1>6, <1>7

LEMMA RefreshFailsStep ==
    ASSUME TrialInv, NEW t \in Trial!Txns, Trial!RefreshFails(t)
    PROVE  TrialInv'
<1> USE TwoTxns DEF TrialInv
<1>1. TrialTyped'
  BY DEF Trial!RefreshFails, TrialTyped
<1>2. TrialNested'
  BY DEF Trial!RefreshFails, TrialNested, TrialTyped
<1>3. SparesFree'
  BY DEF Trial!RefreshFails, SparesFree, TrialTyped
<1>4. UnsharedAlone'
  BY DEF Trial!RefreshFails, UnsharedAlone, TrialTyped
<1>5. Trial!RollbackPointsKept'
  BY DEF Trial!RefreshFails, Trial!RollbackPointsKept, TrialTyped, SparesFree
<1> QED
  BY <1>1, <1>2, <1>3, <1>4, <1>5

LEMMA AppendOne == ASSUME NEW S, NEW a \in S, NEW b \in S
                   PROVE  Append(<<a>>, b) = <<a, b>>
<1>1. <<a>> \in Seq(S) /\ Len(<<a>>) = 1 /\ <<a, b>> \in Seq(S) /\ Len(<<a, b>>) = 2
  OBVIOUS
<1>2. Append(<<a>>, b) \in Seq(S) /\ Len(Append(<<a>>, b)) = 2
  BY <1>1, AppendProperties
<1>3. Append(<<a>>, b)[1] = a /\ Append(<<a>>, b)[2] = b
  BY <1>1, AppendProperties
<1>4. \A i \in 1..2 : Append(<<a>>, b)[i] = <<a, b>>[i]
  BY <1>3
<1> QED
  BY <1>1, <1>2, <1>4, SeqEqual

\* Beginning a commit only adds to the transactions under way.
LEMMA CommitStep == ASSUME TrialInv, NEW t \in Trial!Txns, Trial!Commit(t) PROVE TrialInv'
<1> USE TwoTxns DEF TrialInv
<1>1. UNCHANGED <<snapshot, prior, spare, shared, pinned, kept>>
  BY DEF Trial!Commit
<1>2. TrialNested'
  <2>1. CASE t = Trial!Outer
    <3>1. committing = <<>> /\ committing' = <<Trial!Outer>>
      BY <2>1 DEF Trial!Commit, Trial!MayUse
    <3> QED
      BY <1>1, <3>1 DEF TrialNested
  <2>2. CASE t = Trial!Inner
    <3>1. committing = <<Trial!Outer>> /\ prior[Trial!Inner] # Trial!None
          /\ committing' = Append(<<Trial!Outer>>, Trial!Inner)
      BY <2>2 DEF Trial!Commit, Trial!MayUse
    <3>2. Append(<<Trial!Outer>>, Trial!Inner) = <<Trial!Outer, Trial!Inner>>
      BY AppendOne
    <3> QED
      BY <1>1, <3>1, <3>2 DEF TrialNested
  <2> QED
    BY <2>1, <2>2
<1> QED
  BY <1>1, <1>2 DEF TrialTyped, SparesFree, UnsharedAlone, Trial!RollbackPointsKept

\* The commit that returns is the innermost one.
LEMMA Innermost ==
    ASSUME TrialNested, Trial!Running
    PROVE  \/ /\ committing = <<Trial!Outer>> /\ Trial!Current = Trial!Outer
              /\ Len(committing) = 1
              /\ SubSeq(committing, 1, Len(committing) - 1) = <<>>
           \/ /\ committing = <<Trial!Outer, Trial!Inner>> /\ Trial!Current = Trial!Inner
              /\ Len(committing) = 2
              /\ SubSeq(committing, 1, Len(committing) - 1) = <<Trial!Outer>>
<1>1. CASE committing = <<Trial!Outer>>
  BY <1>1 DEF Trial!Current
<1>2. CASE committing = <<Trial!Outer, Trial!Inner>>
  <2>1. Len(committing) = 2 /\ committing[2] = Trial!Inner /\ committing[1] = Trial!Outer
    BY <1>2
  <2>2. SubSeq(<<Trial!Outer, Trial!Inner>>, 1, 1) = <<Trial!Outer>>
    <3> DEFINE s == SubSeq(<<Trial!Outer, Trial!Inner>>, 1, 1)
    <3>1. <<Trial!Outer, Trial!Inner>> \in Seq(Int) /\ Len(<<Trial!Outer, Trial!Inner>>) = 2
      BY TwoTxns
    <3>2. s \in Seq(Int) /\ Len(s) = 1 /\ s[1] = <<Trial!Outer, Trial!Inner>>[1]
      BY <3>1, SubSeqProperties
    <3>3. /\ <<Trial!Outer>> \in Seq(Int) /\ Len(<<Trial!Outer>>) = 1
          /\ <<Trial!Outer>>[1] = Trial!Outer
      BY TwoTxns
    <3>4. <<Trial!Outer, Trial!Inner>>[1] = Trial!Outer
      OBVIOUS
    <3> HIDE DEF s
    <3>5. \A i \in 1..Len(s) : s[i] = <<Trial!Outer>>[i]
      BY <3>2, <3>3, <3>4
    <3>6. s = <<Trial!Outer>>
      BY <3>2, <3>3, <3>5, SeqEqual
    <3> QED
      BY <3>6 DEF s
  <2> QED
    BY <1>2, <2>1, <2>2 DEF Trial!Current
<1> QED
  BY <1>1, <1>2 DEF TrialNested, Trial!Running

LEMMA ReturnedStep == ASSUME TrialInv, Trial!Running, Trial!Returned PROVE TrialInv'
<1> USE TwoTxns DEF TrialInv
<1>1. CASE Trial!Current = Trial!Outer
  <2>1. committing' = <<>>
    BY <1>1, Innermost DEF Trial!Returned
  <2>2. /\ prior' = [prior EXCEPT ![Trial!Inner] = Trial!None]
        /\ spare' = [spare EXCEPT ![Trial!Inner] = Trial!None]
        /\ kept' = [kept EXCEPT ![Trial!Inner] = basis]
        /\ shared' = [shared EXCEPT ![Trial!Inner] = FALSE]
        /\ pinned' = pinned
        /\ snapshot' = [s \in Trial!States |->
              IF s \in {prior[Trial!Outer], spare[Trial!Outer], pinned} THEN snapshot[s]
              ELSE Trial!Partial]
    BY <1>1 DEF Trial!Returned
  <2>3. TrialTyped'
    BY <2>2 DEF TrialTyped
  <2>4. TrialNested'
    BY <2>1, <2>2 DEF TrialNested, TrialTyped
  <2>5. SparesFree'
    BY <2>2 DEF SparesFree, TrialTyped
  <2>6. UnsharedAlone'
    BY <2>2 DEF UnsharedAlone, TrialTyped
  <2>7. Trial!RollbackPointsKept'
    BY <2>2 DEF Trial!RollbackPointsKept, TrialTyped
  <2> QED
    BY <2>3, <2>4, <2>5, <2>6, <2>7
<1>2. CASE Trial!Current # Trial!Outer
  <2>1. /\ committing' = <<Trial!Outer>>
        /\ UNCHANGED <<snapshot, prior, spare, shared, pinned, kept>>
    BY <1>2, Innermost DEF Trial!Returned
  <2>2. TrialNested'
    BY <2>1 DEF TrialNested
  <2> QED
    BY <2>1, <2>2 DEF TrialTyped, SparesFree, UnsharedAlone, Trial!RollbackPointsKept
<1> QED
  BY <1>1, <1>2

LEMMA TrialInit == Trial!Init => TrialInv
<1> SUFFICES ASSUME NEW start \in Starts, NEW w \in BOOLEAN, Trial!Started(start, w)
             PROVE  TrialInv
  BY DEF Trial!Init
<1> QED
  BY TwoTxns
     DEF Trial!Started, TrialInv, TrialTyped, TrialNested, SparesFree, UnsharedAlone,
        Trial!RollbackPointsKept

LEMMA TrialStep == TrialInv /\ [Trial!Next]_trialState => TrialInv'
<1> SUFFICES ASSUME TrialInv, [Trial!Next]_trialState PROVE TrialInv'
  OBVIOUS
<1>1. CASE Trial!Clone
  BY <1>1, CloneStep
<1>2. CASE \E detach \in BOOLEAN : Trial!Pin(detach)
  BY <1>2, PinStep
<1>3. CASE \E t \in Trial!Txns : Trial!Refresh(t)
  BY <1>3, RefreshStep
<1>4. CASE \E t \in Trial!Txns : Trial!RefreshFails(t)
  BY <1>4, RefreshFailsStep
<1>5. CASE \E t \in Trial!Txns : Trial!Commit(t)
  BY <1>5, CommitStep
<1>6. CASE Trial!Accept \/ Trial!Reject
  <2>1. Trial!Running /\ Trial!Returned
    BY <1>6 DEF Trial!Accept, Trial!Reject
  <2> QED
    BY <2>1, ReturnedStep
<1>7. CASE UNCHANGED <<snapshot, prior, spare, shared, pinned, committing, kept>>
  BY <1>7 DEF TrialInv, TrialTyped, TrialNested, SparesFree, UnsharedAlone,
     Trial!RollbackPointsKept
<1> QED
  BY <1>1, <1>2, <1>3, <1>4, <1>5, <1>6, <1>7
     DEF Trial!Next, Trial!Rollback, Trial!StageFails, Trial!Reorder, Trial!Move, trialState

\* A commit that ends without being valid, and a change outside a commit, leave what
\* the transaction or the stage has to roll back to.
Restores ==
    /\ /\ Trial!Running /\ Len(committing') < Len(committing)
       /\ ~Trial!Valid(snapshot[prior[Trial!Current]])
       => placed' = kept[Trial!Current]
    /\ ~Trial!Running /\ placed' # placed
         => placed' \in {kept[Trial!Outer], kept[Trial!Stage]}

LEMMA RestoresStep == TrialInv /\ [Trial!Next]_trialState => [Restores]_trialState
<1> SUFFICES ASSUME TrialInv, Trial!Next PROVE Restores
  OBVIOUS
<1> USE DEF Restores
<1>1. /\ snapshot[prior[Trial!Outer]] = kept[Trial!Outer]
      /\ prior[Trial!Inner] # Trial!None => snapshot[prior[Trial!Inner]] = kept[Trial!Inner]
      /\ pinned # Trial!None => snapshot[pinned] = kept[Trial!Stage]
  BY TwoTxns DEF TrialInv, TrialTyped, Trial!RollbackPointsKept
<1>2. CASE Trial!Running
  <2>1. Trial!Current \in Trial!Txns /\ snapshot[prior[Trial!Current]] = kept[Trial!Current]
    BY <1>1, <1>2, Innermost, TwoTxns DEF TrialInv, TrialNested
  <2>2. Len(committing) \in Nat
    BY <1>2, Innermost DEF TrialInv
  <2>3. CASE Trial!Accept \/ Trial!Reject
    BY <2>1, <2>3 DEF Trial!Accept, Trial!Reject, Trial!RolledBack, Trial!Running
  <2>4. CASE UNCHANGED committing
    BY <1>2, <2>2, <2>4 DEF Trial!Running
  <2>5. CASE \E t \in Trial!Txns : Trial!Commit(t)
    <3>1. PICK t \in Trial!Txns : Trial!Commit(t)
      BY <2>5
    <3>2. /\ t = Trial!Inner /\ committing = <<Trial!Outer>>
          /\ committing' = Append(committing, t)
      BY <1>2, <3>1, TwoTxns DEF Trial!Commit, Trial!MayUse, Trial!Running
    <3>3. Len(committing) = 1 /\ Len(committing') = 2
      BY <3>2
    <3> QED
      BY <1>2, <3>3 DEF Trial!Running
  <2> QED
    BY <2>3, <2>4, <2>5
       DEF Trial!Next, Trial!Clone, Trial!Rollback, Trial!StageFails, Trial!Reorder,
          Trial!Refresh, Trial!RefreshFails, Trial!Move, Trial!Pin
<1>3. CASE ~Trial!Running
  <2>1. CASE \E t \in Trial!Txns : Trial!RefreshFails(t)
    <3>1. PICK t \in Trial!Txns : Trial!RefreshFails(t)
      BY <2>1
    <3>2. t = Trial!Outer
      BY <1>3, <3>1, TwoTxns DEF Trial!RefreshFails, Trial!MayUse, Trial!Running
    <3> QED
      BY <1>1, <1>3, <3>1, <3>2 DEF Trial!RefreshFails
  <2>2. CASE Trial!Rollback \/ Trial!StageFails
    BY <1>1, <1>3, <2>2 DEF Trial!Rollback, Trial!StageFails, Trial!RolledBack
  <2>3. CASE UNCHANGED placed
    BY <1>3, <2>3
  <2> QED
    BY <1>3, <2>1, <2>2, <2>3
       DEF Trial!Next, Trial!Clone, Trial!Reorder, Trial!Accept, Trial!Reject,
          Trial!Refresh, Trial!Commit, Trial!Move, Trial!Pin
<1> QED
  BY <1>2, <1>3

\* What is placed, and whatever it may go back to, is a graph.
GraphsInv ==
    /\ placed \in Trial!Graphs /\ basis \in Trial!Graphs
    /\ fixed \subseteq Nodes /\ wraps \in BOOLEAN /\ accepted \in BOOLEAN
    /\ snapshot \in [Trial!States -> Trial!Graphs \cup {Trial!Partial}]
    /\ kept \in [{Trial!Outer, Trial!Inner, Trial!Stage} -> Trial!Graphs]

LEMMA WrappedGraph == ASSUME NEW g \in Trial!Graphs PROVE Trial!Wrapped(g) \in Trial!Graphs
<1> DEFINE Of(n) == {m \in DOMAIN Inside : Inside[m] = n}
           put == [n \in Nodes |-> IF \E m \in DOMAIN Inside : Inside[m] = n
                                   THEN Trial!Min({g.at[m] : m \in Of(n)}) ELSE g.at[n]]
<1>1. Trial!Wrapped(g) = [g EXCEPT !.at = put]
  BY DEF Trial!Wrapped
<1>2. g.at \in [Nodes -> Int]
  BY DEF Trial!Graphs
<1>3. ASSUME NEW n \in Nodes, \E m \in DOMAIN Inside : Inside[m] = n
      PROVE  Trial!Min({g.at[m] : m \in Of(n)}) \in Int
  <2> DEFINE S == {g.at[m] : m \in Of(n)}
  <2>1. Of(n) \subseteq Nodes /\ IsFiniteSet(Of(n))
    BY TrialAssumption, FS_Subset
  <2>2. S # {} /\ S \subseteq Int
    BY <1>2, <1>3, <2>1
  <2>3. IsFiniteSet(S)
    <3> DEFINE f == [m \in Of(n) |-> g.at[m]]
    <3>1. f \in Surjection(Of(n), S)
      BY DEF Surjection
    <3> HIDE DEF Of, S, f
    <3> QED
      BY <2>1, <3>1, FS_Surjection
  <2> HIDE DEF S
  <2>4. \E k \in S : \A m \in S : k <= m
    BY <2>2, <2>3, FiniteExtremes
  <2>5. Trial!Min(S) \in S
    BY <2>4 DEF Trial!Min
  <2> QED
    BY <2>2, <2>5 DEF S
<1>4. put \in [Nodes -> Int]
  BY <1>2, <1>3
<1> HIDE DEF put
<1> QED
  BY <1>1, <1>4 DEF Trial!Graphs

LEMMA MovedGraph ==
    ASSUME NEW g \in Trial!Graphs, NEW n \in Nodes, NEW p \in Places
    PROVE  [g EXCEPT !.at[n] = p] \in Trial!Graphs
<1>1. p \in Int
  BY TrialAssumption
<1> QED
  BY <1>1 DEF Trial!Graphs

LEMMA GraphsInit == Trial!Init => GraphsInv
<1> SUFFICES ASSUME NEW start \in Starts, NEW w \in BOOLEAN, Trial!Started(start, w)
             PROVE  GraphsInv
  BY DEF Trial!Init
<1>1. start.at \in [Nodes -> Int] /\ start.fixed \in SUBSET Nodes
  BY TrialAssumption
<1>2. [at |-> start.at, order |-> "given"] \in Trial!Graphs
  BY <1>1 DEF Trial!Graphs, Trial!Orders
<1>3. /\ placed \in Trial!Graphs /\ basis = placed /\ fixed = start.fixed /\ wraps = w
      /\ accepted = FALSE
      /\ snapshot = [s \in Trial!States |-> IF s = 1 THEN placed ELSE Trial!Partial]
      /\ kept = [t \in {Trial!Outer, Trial!Inner, Trial!Stage} |-> placed]
  BY <1>2 DEF Trial!Started
<1> QED
  BY <1>1, <1>3 DEF GraphsInv

LEMMA GraphsStep == TrialInv /\ GraphsInv /\ [Trial!Next]_trialState => GraphsInv'
<1> SUFFICES ASSUME TrialInv, GraphsInv, [Trial!Next]_trialState PROVE GraphsInv'
  OBVIOUS
<1> DEFINE Keepers == {Trial!Outer, Trial!Inner, Trial!Stage}
<1>1. \A t \in Trial!Txns : prior[t] # Trial!None => snapshot[prior[t]] \in Trial!Graphs
  BY TwoTxns DEF TrialInv, Trial!RollbackPointsKept, GraphsInv
<1>2. pinned # Trial!None => snapshot[pinned] \in Trial!Graphs
  BY DEF TrialInv, Trial!RollbackPointsKept, GraphsInv
<1>3. \A t \in Keepers : kept[t] \in Trial!Graphs
  BY DEF GraphsInv
<1>4. ASSUME UNCHANGED <<basis, fixed, wraps>>, placed' \in Trial!Graphs,
             accepted' \in BOOLEAN,
             snapshot' \in [Trial!States -> Trial!Graphs \cup {Trial!Partial}],
             kept' \in [Keepers -> Trial!Graphs]
      PROVE  GraphsInv'
  BY <1>4 DEF GraphsInv
<1>5. ASSUME NEW t \in Keepers, NEW g \in Trial!Graphs
      PROVE  [kept EXCEPT ![t] = g] \in [Keepers -> Trial!Graphs]
  BY DEF GraphsInv
<1>6. ASSUME NEW s, NEW g \in Trial!Graphs \cup {Trial!Partial}
      PROVE  [snapshot EXCEPT ![s] = g]
               \in [Trial!States -> Trial!Graphs \cup {Trial!Partial}]
  BY DEF GraphsInv
<1>7. /\ placed \in Trial!Graphs /\ basis \in Trial!Graphs /\ accepted \in BOOLEAN
      /\ snapshot \in [Trial!States -> Trial!Graphs \cup {Trial!Partial}]
      /\ kept \in [Keepers -> Trial!Graphs]
      /\ Trial!Partial \in Trial!Graphs \cup {Trial!Partial}
      /\ Trial!Outer \in Keepers /\ Trial!Inner \in Keepers /\ Trial!Stage \in Keepers
      /\ Trial!Txns \subseteq Keepers
  BY TwoTxns DEF GraphsInv
<1>8. prior[Trial!Outer] # Trial!None /\ Trial!Outer \in Trial!Txns
  BY TwoTxns DEF TrialInv, TrialTyped
<1> HIDE DEF Keepers
<1>9. CASE Trial!Clone
  <2>1. /\ UNCHANGED <<placed, basis, fixed, wraps, snapshot, accepted>>
        /\ kept' = [kept EXCEPT ![Trial!Inner] = kept[Trial!Outer]]
    BY <1>9 DEF Trial!Clone, Trial!stageVars
  <2> QED
    BY <1>3, <1>4, <1>5, <1>7, <2>1
<1>10. ASSUME NEW detach \in BOOLEAN, Trial!Pin(detach) PROVE GraphsInv'
  <2>1. /\ UNCHANGED <<placed, basis, fixed, wraps, snapshot, accepted>>
        /\ kept' = [kept EXCEPT ![Trial!Stage] = kept[Trial!Outer]]
    BY <1>10 DEF Trial!Pin, Trial!stageVars
  <2> QED
    BY <1>3, <1>4, <1>5, <1>7, <2>1
<1>11. ASSUME NEW t \in Trial!Txns, Trial!Refresh(t) PROVE GraphsInv'
  <2>1. /\ UNCHANGED <<placed, basis, fixed, wraps, accepted>>
        /\ kept' = [kept EXCEPT ![t] = placed]
        /\ \E s : snapshot' = [snapshot EXCEPT ![s] = placed]
    BY <1>11 DEF Trial!Refresh, Trial!stageVars
  <2>2. t \in Keepers
    BY <1>7
  <2> QED
    BY <1>4, <1>5, <1>6, <1>7, <2>1, <2>2
<1>12. ASSUME NEW t \in Trial!Txns, Trial!RefreshFails(t) PROVE GraphsInv'
  <2>1. /\ UNCHANGED <<basis, fixed, wraps, kept>> /\ accepted' = FALSE
        /\ placed' = snapshot[prior[t]] /\ prior[t] # Trial!None
        /\ snapshot' = [snapshot EXCEPT ![spare[t]] = Trial!Partial]
    BY <1>12 DEF Trial!RefreshFails, Trial!MayUse, Trial!stageVars
  <2> QED
    BY <1>1, <1>4, <1>6, <1>7, <2>1
<1>13. ASSUME NEW t \in Trial!Txns, Trial!Commit(t) PROVE GraphsInv'
  <2>1. UNCHANGED <<placed, basis, fixed, wraps, snapshot, kept>> /\ accepted' = FALSE
    BY <1>13 DEF Trial!Commit, Trial!stageVars
  <2> QED
    BY <1>4, <1>7, <2>1
<1>14. CASE Trial!Rollback \/ Trial!StageFails
  <2>1. /\ UNCHANGED <<basis, fixed, wraps, snapshot, kept>> /\ accepted' = FALSE
        /\ \/ placed' = snapshot[prior[Trial!Outer]]
           \/ placed' = snapshot[pinned] /\ pinned # Trial!None
    BY <1>14 DEF Trial!Rollback, Trial!StageFails, Trial!RolledBack, Trial!stageVars
  <2>2. placed' \in Trial!Graphs
    BY <1>1, <1>2, <1>8, <2>1
  <2> QED
    BY <1>4, <1>7, <2>1, <2>2
<1>15. CASE Trial!Reorder
  <2>1. UNCHANGED <<basis, fixed, wraps, snapshot, kept, accepted>>
    BY <1>15 DEF Trial!Reorder, Trial!stageVars
  <2>2. PICK o \in Trial!Orders : placed' = [placed EXCEPT !.order = o]
    BY <1>15 DEF Trial!Reorder
  <2>3. placed' \in Trial!Graphs
    BY <1>7, <2>2 DEF Trial!Graphs
  <2> QED
    BY <1>4, <1>7, <2>1, <2>3
<1>16. ASSUME NEW n \in Nodes, NEW p \in Places, Trial!Move(n, p) PROVE GraphsInv'
  <2> DEFINE moved == [placed EXCEPT !.at[n] = p]
  <2>1. /\ UNCHANGED <<basis, fixed, wraps, snapshot, kept, accepted>>
        /\ placed' = IF wraps THEN Trial!Wrapped(moved) ELSE moved
    BY <1>16 DEF Trial!Move, Trial!stageVars
  <2>2. moved \in Trial!Graphs
    BY <1>7, MovedGraph
  <2> HIDE DEF moved
  <2>3. placed' \in Trial!Graphs
    BY <2>1, <2>2, WrappedGraph
  <2> QED
    BY <1>4, <1>7, <2>1, <2>3
<1>17. CASE Trial!Accept \/ Trial!Reject
  <2>1. Trial!Running /\ Trial!Returned /\ UNCHANGED <<basis, fixed, wraps>>
    BY <1>17 DEF Trial!Accept, Trial!Reject, Trial!Returned, Trial!stageVars
  <2>2. Trial!Current \in Trial!Txns /\ prior[Trial!Current] # Trial!None
    BY <1>8, <2>1, Innermost, TwoTxns DEF TrialInv, TrialNested
  <2>3. accepted' \in BOOLEAN
    <3>1. (Trial!Current = Trial!Outer) \in BOOLEAN
      OBVIOUS
    <3> QED
      BY <1>17, <3>1 DEF Trial!Accept, Trial!Reject
  <2>4. placed' \in Trial!Graphs
    BY <1>1, <1>7, <1>17, <2>2 DEF Trial!Accept, Trial!Reject, Trial!RolledBack
  <2>5. CASE Trial!Current = Trial!Outer
    <3>1. /\ kept' = [kept EXCEPT ![Trial!Inner] = basis]
          /\ snapshot' = [s \in Trial!States |->
                IF s \in {prior[Trial!Outer], spare[Trial!Outer], pinned} THEN snapshot[s]
                ELSE Trial!Partial]
      BY <2>1, <2>5 DEF Trial!Returned
    <3>2. snapshot' \in [Trial!States -> Trial!Graphs \cup {Trial!Partial}]
      BY <1>7, <3>1
    <3> QED
      BY <1>4, <1>5, <1>7, <2>1, <2>3, <2>4, <3>1, <3>2
  <2>6. CASE Trial!Current # Trial!Outer
    <3>1. UNCHANGED <<kept, snapshot>>
      BY <2>1, <2>6 DEF Trial!Returned
    <3> QED
      BY <1>4, <1>7, <2>1, <2>3, <2>4, <3>1
  <2> QED
    BY <2>5, <2>6
<1>18. CASE UNCHANGED trialState
  <2>1. UNCHANGED <<placed, basis, fixed, wraps, snapshot, kept, accepted>>
    BY <1>18 DEF trialState
  <2> QED
    BY <1>4, <1>7, <2>1
<1> QED
  BY <1>9, <1>10, <1>11, <1>12, <1>13, <1>14, <1>15, <1>16, <1>17, <1>18 DEF Trial!Next

LEMMA TrialTypes == TrialInv /\ GraphsInv => Trial!TypeOK
  BY DEF TrialInv, TrialTyped, TrialNested, GraphsInv, Trial!TypeOK

\* Nodes are as far from one another as they have to be, and fixed ones have not moved.
Fine(g) ==
    /\ \A n \in Nodes \cap fixed : g.at[n] = basis.at[n]
    /\ \A a, b \in Nodes : a # b =>
         ~Trial!BadPair(g.at, a, b) /\ ~Trial!BecameExact(g.at, a, b)

\* No node escapes its container.
Contained(g) ==
    \A n \in DOMAIN Inside : Trial!Surrounds(g.at, Inside[n], n)

\* The first is so wherever the stage can go back to, and whenever no commit runs;
\* inside a commit it need not be.  The second is what a commit is accepted for.
FineInv ==
    /\ Fine(kept[Trial!Outer]) /\ Fine(kept[Trial!Stage])
    /\ committing = <<>> => Fine(placed)
    /\ accepted => committing = <<>> /\ Contained(placed)

LEMMA FineKept ==
    ASSUME UNCHANGED <<basis, fixed>>
    PROVE  /\ \A g : Fine(g) => Fine(g)'
           /\ \A g : Contained(g) => Contained(g)'
BY DEF Fine, Contained, Trial!BadPair, Trial!BecameExact, Trial!Near, Trial!Exact,
       Trial!Within, Trial!Surrounds

\* Every pair that is not looked at is where the rollback point has it.
LEMMA ValidIsFine ==
    ASSUME NEW old, Fine(old), Trial!Valid(old)
    PROVE  Fine(placed) /\ Contained(placed)
<1>1. \A n \in Nodes : ~Trial!StructurallyBad(placed.at, old.at, n)
  BY DEF Trial!Valid
<1>2. \A n \in Nodes \cap fixed : placed.at[n] = basis.at[n]
  BY <1>1 DEF Fine, Trial!StructurallyBad
<1>3. Contained(placed)
  BY <1>1, TrialAssumption DEF Contained, Trial!StructurallyBad
<1>4. ASSUME NEW a \in Nodes, NEW b \in Nodes, a # b
      PROVE  ~Trial!BadPair(placed.at, a, b) /\ ~Trial!BecameExact(placed.at, a, b)
  <2>1. CASE Trial!LookedAt(old, a, b)
    BY <1>4, <2>1 DEF Trial!Valid
  <2>2. CASE ~Trial!LookedAt(old, a, b)
    <3>1. placed.at[a] = old.at[a] /\ placed.at[b] = old.at[b]
      BY <2>2 DEF Trial!LookedAt
    <3>2. ~Trial!BadPair(old.at, a, b) /\ ~Trial!BecameExact(old.at, a, b)
      BY <1>4 DEF Fine
    <3> QED
      BY <3>1, <3>2 DEF Trial!BadPair, Trial!BecameExact, Trial!Near, Trial!Exact,
                        Trial!Within
  <2> QED
    BY <2>1, <2>2
<1> QED
  BY <1>2, <1>3, <1>4 DEF Fine

LEMMA FineFollows ==
    ASSUME FineInv
    PROVE  Trial!AcceptedIsValid
<1> SUFFICES ASSUME accepted PROVE
      /\ \A n \in Nodes : ~Trial!StructurallyBad(placed.at, basis.at, n)
      /\ \A a, b \in Nodes : a # b =>
           ~Trial!BadPair(placed.at, a, b) /\ ~Trial!BecameExact(placed.at, a, b)
  BY DEF Trial!AcceptedIsValid
<1>1. Fine(placed) /\ Contained(placed)
  BY DEF FineInv
<1>2. ASSUME NEW n \in Nodes PROVE ~Trial!StructurallyBad(placed.at, basis.at, n)
  <2>1. n \in fixed => placed.at[n] = basis.at[n]
    BY <1>1 DEF Fine
  <2>2. \A m \in DOMAIN Inside : Trial!Surrounds(placed.at, Inside[m], m)
    BY <1>1 DEF Contained
  <2> QED
    BY <2>1, <2>2 DEF Trial!StructurallyBad
<1> QED
  BY <1>1, <1>2 DEF Fine

LEMMA FineInit == Trial!Init => FineInv
<1> SUFFICES ASSUME NEW start \in Starts, NEW w \in BOOLEAN, Trial!Started(start, w)
             PROVE  FineInv
  BY DEF Trial!Init
<1>1. placed = basis /\ ~accepted /\ kept[Trial!Outer] = basis /\ kept[Trial!Stage] = basis
  BY TwoTxns DEF Trial!Started
<1>2. Fine(basis)
  BY DEF Fine, Trial!BadPair, Trial!BecameExact
<1> QED
  BY <1>1, <1>2 DEF FineInv

\* The end of a commit: what is accepted is valid, what is rejected is taken back.
LEMMA FineReturned ==
    ASSUME TrialInv, FineInv, Trial!Accept \/ Trial!Reject
    PROVE  FineInv'
<1>1. Trial!Running /\ Trial!Returned /\ UNCHANGED <<basis, fixed>>
  BY DEF Trial!Accept, Trial!Reject, Trial!Returned, Trial!stageVars
<1>2. /\ kept'[Trial!Outer] = kept[Trial!Outer] /\ kept'[Trial!Stage] = kept[Trial!Stage]
  BY <1>1, TwoTxns DEF Trial!Returned, TrialInv, TrialTyped
<1>3. Fine(kept[Trial!Outer])' /\ Fine(kept[Trial!Stage])'
  BY <1>1, <1>2, FineKept DEF FineInv
<1>4. snapshot[prior[Trial!Outer]] = kept[Trial!Outer]
  BY TwoTxns DEF TrialInv, TrialTyped, Trial!RollbackPointsKept
<1>5. CASE Trial!Current = Trial!Outer
  <2>1. committing' = <<>>
    BY <1>1, <1>5, Innermost, TwoTxns DEF TrialInv, Trial!Returned
  <2>2. CASE Trial!Accept
    <3>1. Trial!Valid(kept[Trial!Outer]) /\ UNCHANGED placed
      BY <1>4, <1>5, <2>2 DEF Trial!Accept
    <3>2. Fine(placed) /\ Contained(placed)
      BY <3>1, ValidIsFine DEF FineInv
    <3>3. Fine(placed)' /\ Contained(placed)'
      BY <1>1, <3>1, <3>2, FineKept
    <3> QED
      BY <1>3, <2>1, <3>3 DEF FineInv
  <2>3. CASE Trial!Reject
    <3>1. placed' = kept[Trial!Outer] /\ ~accepted'
      BY <1>4, <1>5, <2>3 DEF Trial!Reject, Trial!RolledBack
    <3>2. Fine(placed)'
      BY <1>1, <3>1, FineKept DEF FineInv
    <3> QED
      BY <1>3, <3>1, <3>2 DEF FineInv
  <2> QED
    BY <2>2, <2>3
<1>6. CASE Trial!Current # Trial!Outer
  <2>1. committing' = <<Trial!Outer>>
    BY <1>1, <1>6, Innermost, TwoTxns DEF TrialInv, Trial!Returned
  <2>2. ~accepted'
    BY <1>6 DEF Trial!Accept, Trial!Reject
  <2> QED
    BY <1>3, <2>1, <2>2 DEF FineInv
<1> QED
  BY <1>5, <1>6

LEMMA FineStep == TrialInv /\ FineInv /\ [Trial!Next]_trialState => FineInv'
<1> SUFFICES ASSUME TrialInv, FineInv, [Trial!Next]_trialState PROVE FineInv'
  OBVIOUS
<1>1. /\ snapshot[prior[Trial!Outer]] = kept[Trial!Outer]
      /\ pinned # Trial!None => snapshot[pinned] = kept[Trial!Stage]
      /\ DOMAIN kept = {Trial!Outer, Trial!Inner, Trial!Stage}
  BY TwoTxns DEF TrialInv, TrialTyped, Trial!RollbackPointsKept
<1>2. ASSUME UNCHANGED <<basis, fixed, placed, committing>>, accepted' => accepted,
             kept'[Trial!Outer] = kept[Trial!Outer], kept'[Trial!Stage] = kept[Trial!Stage]
      PROVE  FineInv'
  BY <1>2, FineKept DEF FineInv
<1>3. ASSUME UNCHANGED <<basis, fixed, kept>>, committing' # <<>>, ~accepted'
      PROVE  FineInv'
  BY <1>3, FineKept DEF FineInv
<1>4. ASSUME UNCHANGED <<basis, fixed, kept>>, ~accepted',
             placed' \in {kept[Trial!Outer], kept[Trial!Stage]}
      PROVE  FineInv'
  BY <1>4, FineKept DEF FineInv
<1>5. CASE Trial!Clone
  BY <1>1, <1>2, <1>5, TwoTxns DEF Trial!Clone, Trial!stageVars
<1>6. ASSUME NEW detach \in BOOLEAN, Trial!Pin(detach) PROVE FineInv'
  <2>1. /\ UNCHANGED <<basis, fixed, placed, committing, accepted>>
        /\ kept' = [kept EXCEPT ![Trial!Stage] = kept[Trial!Outer]]
    BY <1>6 DEF Trial!Pin, Trial!stageVars
  <2>2. kept'[Trial!Outer] = kept[Trial!Outer] /\ kept'[Trial!Stage] = kept[Trial!Outer]
    BY <1>1, <2>1, TwoTxns
  <2> QED
    BY <2>1, <2>2, FineKept DEF FineInv
<1>7. ASSUME NEW t \in Trial!Txns, Trial!Refresh(t) PROVE FineInv'
  <2>1. /\ UNCHANGED <<basis, fixed, placed, committing, accepted>>
        /\ kept' = [kept EXCEPT ![t] = placed]
        /\ t = Trial!Outer => committing = <<>>
    BY <1>7 DEF Trial!Refresh, Trial!MayUse, Trial!stageVars
  <2>2. CASE t = Trial!Outer
    <3>1. kept'[Trial!Outer] = placed /\ kept'[Trial!Stage] = kept[Trial!Stage]
          /\ Fine(placed)
      BY <1>1, <2>1, <2>2, TwoTxns DEF FineInv
    <3> QED
      BY <2>1, <3>1, FineKept DEF FineInv
  <2>3. CASE t # Trial!Outer
    <3>1. kept'[Trial!Outer] = kept[Trial!Outer] /\ kept'[Trial!Stage] = kept[Trial!Stage]
      BY <1>1, <2>1, <2>3, TwoTxns
    <3> QED
      BY <1>2, <2>1, <3>1
  <2> QED
    BY <2>2, <2>3
<1>8. ASSUME NEW t \in Trial!Txns, Trial!RefreshFails(t) PROVE FineInv'
  <2>1. /\ UNCHANGED <<basis, fixed, committing, kept>> /\ ~accepted'
        /\ placed' = snapshot[prior[t]]
        /\ committing = IF t = Trial!Outer THEN <<>> ELSE <<Trial!Outer>>
    BY <1>8 DEF Trial!RefreshFails, Trial!MayUse, Trial!stageVars
  <2>2. CASE t = Trial!Outer
    BY <1>1, <1>4, <2>1, <2>2
  <2>3. CASE t # Trial!Outer
    BY <1>3, <2>1, <2>3
  <2> QED
    BY <2>2, <2>3
<1>9. ASSUME NEW t \in Trial!Txns, Trial!Commit(t) PROVE FineInv'
  <2>1. /\ UNCHANGED <<basis, fixed, kept>> /\ ~accepted'
        /\ committing' = Append(committing, t)
        /\ committing = IF t = Trial!Outer THEN <<>> ELSE <<Trial!Outer>>
    BY <1>9 DEF Trial!Commit, Trial!MayUse, Trial!stageVars
  <2>2. committing' # <<>>
    BY <2>1
  <2> QED
    BY <1>3, <2>1, <2>2
<1>10. CASE Trial!Rollback \/ Trial!StageFails
  BY <1>1, <1>4, <1>10 DEF Trial!Rollback, Trial!StageFails, Trial!RolledBack,
                           Trial!stageVars
<1>11. CASE Trial!Reorder \/ \E n \in Nodes, p \in Places : Trial!Move(n, p)
  <2>1. UNCHANGED <<basis, fixed, kept, committing, accepted>> /\ committing # <<>>
    BY <1>11 DEF Trial!Reorder, Trial!Move, Trial!Running, Trial!stageVars
  <2> QED
    BY <1>3, <2>1 DEF FineInv
<1>12. CASE Trial!Accept \/ Trial!Reject
  BY <1>12, FineReturned
<1>13. CASE UNCHANGED trialState
  BY <1>2, <1>13 DEF trialState
<1> QED
  BY <1>5, <1>6, <1>7, <1>8, <1>9, <1>10, <1>11, <1>12, <1>13 DEF Trial!Next

-----------------------------------------------------------------------------
(* The paths of boards: the claims on them.                                   *)

KeyOf(b) == Output!Key(Output!File(b))

\* The claims of the first n boards.
Claimant == Output!Boards \ folderOnly
Earlier(n) == {b \in Claimant : b <= n}

Claims(n) ==
    [ok |-> \A b, c \in Earlier(n) : b # c => Output!Apart(b, c),
     files |-> {KeyOf(b) : b \in Earlier(n)},
     dirs |-> UNION {Output!Dirs(KeyOf(b)) : b \in Earlier(n)}]

LEMMA ClaimNext ==
    ASSUME NPaths \in Nat, NEW n \in Nat, n < NPaths
    PROVE  Output!AddFile(Claims(n), n + 1) = Claims(n + 1)
<1>1. n + 1 \in Output!Boards
  BY DEF Output!Boards
<1>2. CASE n + 1 \in folderOnly
  <2>1. Earlier(n + 1) = Earlier(n)
    BY <1>2 DEF Earlier, Claimant, Output!Boards
  <2> QED
    BY <1>2, <2>1 DEF Output!AddFile, Claims
<1>3. CASE n + 1 \notin folderOnly
  <2>1. Earlier(n + 1) = Earlier(n) \cup {n + 1} /\ n + 1 \notin Earlier(n)
    BY <1>1, <1>3 DEF Earlier, Claimant, Output!Boards
  <2>2. Claims(n + 1).files = Claims(n).files \cup {KeyOf(n + 1)}
    BY <2>1 DEF Claims
  <2>3. Claims(n + 1).dirs = Claims(n).dirs \cup Output!Dirs(KeyOf(n + 1))
    BY <2>1 DEF Claims
  <2>4. Claims(n + 1).ok <=>
          /\ Claims(n).ok
          /\ KeyOf(n + 1) \notin Claims(n).files /\ KeyOf(n + 1) \notin Claims(n).dirs
          /\ Output!Dirs(KeyOf(n + 1)) \cap Claims(n).files = {}
    BY <2>1 DEF Claims, Output!Apart, KeyOf
  <2>5. Claims(n + 1).ok \in BOOLEAN
    BY DEF Claims
  <2> QED
    BY <1>3, <2>2, <2>3, <2>4, <2>5 DEF Output!AddFile, Claims, KeyOf
<1> QED
  BY <1>2, <1>3

\* Those of all boards are what the fold comes to.
LEMMA ClaimedIs ==
    ASSUME NPaths \in Nat
    PROVE  Output!Claimed = Claims(NPaths)
<1> DEFINE S == Output!Boards
           base == [ok |-> TRUE, files |-> {}, dirs |-> {}]
           Keys == {KeyOf(b) : b \in S} \cup UNION {Output!Dirs(KeyOf(b)) : b \in S}
           D == [ok : BOOLEAN, files : SUBSET Keys, dirs : SUBSET Keys]
           h == [p \in S \X D |-> Output!AddFile(p[2], p[1])]
           pick == [s \in SUBSET S |-> Output!Max(s)]
           Folds(g) == g = [s \in SUBSET S |->
                              IF s = {} THEN base
                              ELSE Output!AddFile(g[s \ {Output!Max(s)}],
                                                  [b \in S |-> b][Output!Max(s)])]
<1>1. Output!Claimed = (CHOOSE g : Folds(g))[S]
  <2>1. DOMAIN [b \in S |-> b] = S
    OBVIOUS
  <2> QED
    BY <2>1 DEF Output!Claimed, Output!FoldLeft, Output!MapThenFoldSet
<1>2. \A s \in SUBSET S : s # {} =>
        /\ Output!Max(s) \in s
        /\ \A x \in s : x <= Output!Max(s)
  <2> SUFFICES ASSUME NEW s \in SUBSET S, s # {}
               PROVE  \E m \in s : \A x \in s : x <= m
    BY DEF Output!Max
  <2>1. S = 1..NPaths /\ IsFiniteSet(1..NPaths)
    BY FS_Interval DEF Output!Boards
  <2>2. s \subseteq Int
    BY <2>1
  <2>a. IsFiniteSet(s)
    <3> HIDE DEF S
    <3> QED
      BY <2>1, FS_Subset
  <2>3. PICK m \in s : \A x \in s : m >= x
    BY <2>2, <2>a, FiniteExtremes
  <2>4. \A x \in s : x <= m
    BY <2>2, <2>3
  <2> QED
    BY <2>4
<1>3. base \in D
  OBVIOUS
<1>4. ASSUME NEW v \in D, NEW b \in S PROVE Output!AddFile(v, b) \in D
  <2>1. KeyOf(b) \in Keys /\ Output!Dirs(KeyOf(b)) \subseteq Keys
    OBVIOUS
  <2>2. v.ok \in BOOLEAN /\ v.files \subseteq Keys /\ v.dirs \subseteq Keys
    OBVIOUS
  <2> HIDE DEF Keys
  <2> QED
    BY <2>1, <2>2 DEF Output!AddFile, KeyOf
<1>5. h \in [S \X D -> D]
  <2> HIDE DEF D, S
  <2> QED
    BY <1>4
<1>6. IsFiniteSet(S)
  BY FS_Interval DEF Output!Boards
<1>7. Picks(pick, S)
  BY <1>2 DEF Picks
<1>8. \E g : Folds(g)
  <2>0. PICK g \in [SUBSET S -> D] : Folded(g, S, base, h, pick)
    <3> HIDE DEF S, D, base, h, pick
    <3> QED
      BY <1>3, <1>5, <1>6, <1>7, FoldsExist
  <2>1. \A s \in SUBSET S :
          g[s] = IF s = {} THEN base ELSE h[<<pick[s], g[s \ {pick[s]}]>>]
    BY <2>0 DEF Folded
  <2>2. ASSUME NEW s \in SUBSET S, s # {}
        PROVE  g[s] = Output!AddFile(g[s \ {Output!Max(s)}], [b \in S |-> b][Output!Max(s)])
    <3>1. Output!Max(s) \in S /\ g[s \ {Output!Max(s)}] \in D
      <4> HIDE DEF D
      <4> QED
        BY <1>2, <2>2
    <3>2. g[s] = h[<<Output!Max(s), g[s \ {Output!Max(s)}]>>]
      BY <2>1, <2>2
    <3> HIDE DEF D, S
    <3> QED
      BY <3>1, <3>2
  <2>3. ASSUME NEW s \in SUBSET S
        PROVE  g[s] = IF s = {} THEN base
                      ELSE Output!AddFile(g[s \ {Output!Max(s)}],
                                          [b \in S |-> b][Output!Max(s)])
    <3> HIDE DEF D, S, base, h, pick
    <3> QED
      BY <2>1, <2>2
  <2> HIDE DEF D, S, base, h, pick
  <2>4. Folds(g)
    BY <2>1, <2>3
  <2> HIDE DEF Folds
  <2> QED
    BY <2>4
<1>9. PICK g : /\ Output!Claimed = g[S]
               /\ Folds(g)
  BY <1>1, <1>8
<1> DEFINE N == {n \in Nat : n <= NPaths => g[1..n] = Claims(n)}
<1>10. 0 \in N
  <2>1. g[{}] = base
    BY <1>9
  <2>2. Earlier(0) = {}
    BY DEF Earlier, Claimant, Output!Boards
  <2>3. Claims(0) = base
    BY <2>2 DEF Claims
  <2>4. 1..0 = {}
    OBVIOUS
  <2> QED
    BY <2>1, <2>3, <2>4
<1>11. ASSUME NEW n \in Nat, n \in N PROVE n + 1 \in N
  <2> SUFFICES ASSUME n + 1 <= NPaths PROVE g[1..(n + 1)] = Claims(n + 1)
    OBVIOUS
  <2>1. 1..(n + 1) \in SUBSET S /\ 1..(n + 1) # {} /\ n < NPaths
    BY DEF Output!Boards
  <2>2. Output!Max(1..(n + 1)) \in 1..(n + 1)
        /\ \A x \in 1..(n + 1) : x <= Output!Max(1..(n + 1))
    BY <1>2, <2>1
  <2>3. Output!Max(1..(n + 1)) = n + 1 /\ (1..(n + 1)) \ {n + 1} = 1..n /\ n + 1 \in S
    BY <2>1, <2>2
  <2>4. g[1..(n + 1)] = Output!AddFile(g[1..n], n + 1)
    BY <1>9, <2>1, <2>3
  <2>5. g[1..n] = Claims(n)
    BY <1>11, <2>1
  <2> QED
    BY <2>1, <2>4, <2>5, ClaimNext
<1>12. NPaths \in N
  <2> HIDE DEF N
  <2> QED
    BY <1>10, <1>11, AllNaturals
<1> QED
  BY <1>9, <1>12 DEF Output!Boards

-----------------------------------------------------------------------------
(* The paths of boards: what they are.                                        *)

Listing ==
    /\ above \in [Output!Boards -> Nat] /\ listed \in [Output!Boards -> 1..3]
    /\ name \in [Output!Boards -> BoardNames]
    /\ \A b \in Output!Boards \ {1} : above[b] \in 1..(b - 1)
    /\ \A b, c \in Output!Boards \ {1} :
         above[b] = above[c] /\ listed[b] = listed[c] /\ name[b] = name[c] => b = c

Ordinary ==
    \A b \in Output!Boards : name[b].exts = 0 /\ name[b].form = "composed"

\* The path of b, given those of the boards before it.
Upon(f, b) ==
    IF b = 1 THEN <<Output!Component("out")>>
    ELSE Append(Output!Below(above[b], f[above[b]], listed[b]),
                Output!ComponentOf(name[b]))

LEMMA BaseIs ==
    ASSUME Listing
    PROVE  \A b \in Output!Boards : Output!Base[b] = Upon(Output!Base, b)
<1> DEFINE Bases(f) == f = [b \in Output!Boards |-> Upon(f, b)]
           UpTo(n) == \E f : \A b \in Output!Boards : b <= n => f[b] = Upon(f, b)
           N == {n \in Nat : UpTo(n)}
<1>1. Output!Base = CHOOSE f : Bases(f)
  BY DEF Output!Base, Upon
<1>2. Output!Boards = 1..NPaths /\ NPaths \in Nat
  BY PathAssumption DEF Output!Boards
<1>3. 0 \in N
  BY <1>2
<1>4. ASSUME NEW n \in Nat, n \in N PROVE n + 1 \in N
  <2>1. PICK f : \A b \in Output!Boards : b <= n => f[b] = Upon(f, b)
    BY <1>4
  <2> DEFINE h == [b \in Output!Boards |-> Upon(f, b)]
  <2>2. \A b \in Output!Boards : b <= n => h[b] = f[b]
    BY <2>1
  <2>3. ASSUME NEW b \in Output!Boards, b <= n + 1 PROVE h[b] = Upon(h, b)
    <3>1. CASE b = 1
      BY <3>1 DEF Upon
    <3>2. CASE b # 1
      <4>1. above[b] \in Output!Boards /\ above[b] <= n
        BY <1>2, <2>3, <3>2 DEF Listing
      <4>2. h[above[b]] = f[above[b]] /\ h[b] = Upon(f, b)
        BY <2>2, <4>1
      <4> HIDE DEF h
      <4> QED
        BY <3>2, <4>2 DEF Upon
    <3> QED
      BY <3>1, <3>2
  <2> HIDE DEF h
  <2>4. UpTo(n + 1)
    BY <2>3
  <2> HIDE DEF UpTo
  <2> QED
    BY <2>4
<1>5. NPaths \in N
  <2> HIDE DEF N
  <2> QED
    BY <1>2, <1>3, <1>4, AllNaturals
<1>6. PICK f : \A b \in Output!Boards : f[b] = Upon(f, b)
  BY <1>2, <1>5
<1> DEFINE h == [b \in Output!Boards |-> f[b]]
<1>7. ASSUME NEW b \in Output!Boards PROVE h[b] = Upon(h, b)
  <2>1. b # 1 => h[above[b]] = f[above[b]]
    BY <1>2 DEF Listing
  <2>2. h[b] = Upon(f, b)
    BY <1>6
  <2> HIDE DEF h
  <2> QED
    BY <2>1, <2>2 DEF Upon
<1>8. \E g : Bases(g)
  <2>1. h = [b \in Output!Boards |-> h[b]]
    OBVIOUS
  <2> HIDE DEF h
  <2>2. Bases(h)
    BY <1>7, <2>1
  <2> HIDE DEF Bases
  <2> QED
    BY <2>2
<1>9. Bases(Output!Base)
  <2> HIDE DEF Bases
  <2> QED
    BY <1>1, <1>8
<1> QED
  BY <1>9

\* The component a board has of its name.
Given(b) == Output!ComponentOf(name[b]).stem
Words == {"out", "index", "layers", "scenarios", "steps"}
Comps == {Output!Component(x) : x \in Words \cup {Given(b) : b \in Output!Boards}}

\* Names that differ have different components, and none is a word of d2's own.
LEMMA GivenFacts ==
    ASSUME Listing, Ordinary
    PROVE  /\ \A b \in Output!Boards :
                /\ Output!ComponentOf(name[b]) = Output!Component(Given(b))
                /\ Given(b) \notin {"index", "layers", "scenarios", "steps"}
           /\ \A b, c \in Output!Boards : Given(b) = Given(c) => name[b] = name[c]
<1> DEFINE Plainly(n) == ~Output!Reserved(n) /\ n.stem \notin Unportable
<1>1. ASSUME NEW b \in Output!Boards
      PROVE  /\ name[b] \in BoardNames
             /\ name[b] = Output!Component(name[b].stem)
             /\ Output!ComponentOf(name[b]) = Output!Component(Given(b))
             /\ Given(b) = IF Plainly(name[b]) THEN name[b].stem ELSE Output!Escaped(name[b])
  <2>1. name[b] \in BoardNames
    BY DEF Listing
  <2>2. name[b] = Output!Component(name[b].stem)
    BY <2>1, PathAssumption DEF Ordinary, Output!Component
  <2>3. CASE Plainly(name[b])
    BY <2>1, <2>2, <2>3 DEF Given, Output!ComponentOf
  <2>4. CASE ~Plainly(name[b])
    <3>1. Output!ComponentOf(name[b]) = Output!Component(Output!Escaped(name[b]))
      BY <2>4 DEF Output!ComponentOf, Output!Component, Ordinary
    <3> QED
      BY <2>1, <2>2, <2>4, <3>1 DEF Given, Output!Component
  <2> QED
    BY <2>3, <2>4
<1>2. ASSUME NEW b \in Output!Boards
      PROVE  Given(b) \notin {"index", "layers", "scenarios", "steps"}
  BY <1>1, PathAssumption DEF Ordinary, Output!Reserved
<1>3. ASSUME NEW b \in Output!Boards, NEW c \in Output!Boards, Given(b) = Given(c)
      PROVE  name[b] = name[c]
  <2>1. name[b].stem = name[c].stem
    BY <1>1, <1>3, PathAssumption DEF Output!Reserved
  <2> QED
    BY <1>1, <2>1
<1> QED
  BY <1>1, <1>2, <1>3

LEMMA WordSections ==
    /\ Output!Sections[1] = "layers" /\ Output!Sections[2] = "scenarios"
    /\ Output!Sections[3] = "steps" /\ DOMAIN Output!Sections = 1..3
  BY DEF Output!Sections

\* Paths, and what adding one component to one gives.  Both operators of sequences
\* have a name here, to be reasoned about by these facts alone.
Size(p) == Len(p)
Then(p, x) == Append(p, x)

LEMMA ThenFacts ==
    ASSUME NEW p \in Seq(Comps), NEW x \in Comps
    PROVE  Then(p, x) \in Seq(Comps) /\ Size(p) \in Nat /\ Size(Then(p, x)) = Size(p) + 1
<1>1. Len(p) \in Nat
  BY LenProperties
<1>2. Append(p, x) \in Seq(Comps)
  BY AppendProperties
<1>3. Len(Append(p, x)) = Len(p) + 1
  BY AppendProperties
<1> QED
  BY <1>1, <1>2, <1>3 DEF Size, Then

LEMMA SizeType ==
    ASSUME NEW p \in Seq(Comps)
    PROVE  Size(p) \in Nat
<1>1. Len(p) \in Nat
  BY LenProperties
<1> QED
  BY <1>1 DEF Size

LEMMA ThenTells ==
    ASSUME NEW p \in Seq(Comps), NEW q \in Seq(Comps), NEW x \in Comps, NEW y \in Comps,
           Then(p, x) = Then(q, y)
    PROVE  p = q /\ x = y
<1>1. Size(p) = Size(q)
  <2>1. Size(p) \in Nat /\ Size(Then(p, x)) = Size(p) + 1
    BY ThenFacts
  <2>2. Size(q) \in Nat /\ Size(Then(q, y)) = Size(q) + 1
    BY ThenFacts
  <2> QED
    BY <2>1, <2>2
<1>2. Len(p) = Len(q)
  BY <1>1 DEF Size
<1>3. \A i \in 1..Len(p) : Append(p, x)[i] = p[i]
  BY AppendProperties
<1>4. \A i \in 1..Len(q) : Append(q, y)[i] = q[i]
  BY AppendProperties
<1>5. Append(p, x)[Len(p) + 1] = x
  BY AppendProperties
<1>6. Append(q, y)[Len(q) + 1] = y
  BY AppendProperties
<1>7. Append(p, x) = Append(q, y)
  BY DEF Then
<1>8. \A i \in 1..Len(p) : p[i] = q[i]
  BY <1>2, <1>3, <1>4, <1>7, Zenon
<1>9. p = q
  BY <1>2, <1>8, SeqEqual
<1>10. x = y
  BY <1>2, <1>5, <1>6, <1>7, Zenon
<1> QED
  BY <1>9, <1>10

\* The directory of b, below its parent's path when the parent's boards are in
\* several lists, and the path of b in it.
ListComp(s) == Output!Component(Output!Sections[s])
Mixed(a, s) == \E t \in DOMAIN Output!Sections \ {s} : Output!Children(a, t) # {}
DirOf(b) ==
    IF Mixed(above[b], listed[b])
    THEN Then(Output!Base[above[b]], ListComp(listed[b])) ELSE Output!Base[above[b]]
OwnComp(b) == Output!ComponentOf(name[b])

LEMMA BaseForms ==
    ASSUME Listing
    PROVE  \A b \in Output!Boards :
             /\ b = 1 => Output!Base[b] = <<Output!Component("out")>>
             /\ b # 1 => /\ Output!Base[b] = Then(DirOf(b), OwnComp(b))
                        /\ above[b] \in Output!Boards /\ above[b] < b
             /\ listed[b] \in 1..3
<1>1. ASSUME NEW b \in Output!Boards
      PROVE  /\ b = 1 => Output!Base[b] = <<Output!Component("out")>>
             /\ b # 1 => Output!Base[b] = Then(DirOf(b), OwnComp(b))
  <2>1. Output!Base[b] = Upon(Output!Base, b)
    BY BaseIs
  <2> QED
    BY <2>1 DEF Upon, Then, DirOf, OwnComp, ListComp, Mixed, Output!Below
<1>2. ASSUME NEW b \in Output!Boards, b # 1 PROVE above[b] \in Output!Boards /\ above[b] < b
  <2>1. Output!Boards = 1..NPaths /\ NPaths \in Nat
    BY PathAssumption DEF Output!Boards
  <2> QED
    BY <1>2, <2>1 DEF Listing
<1> QED
  BY <1>1, <1>2 DEF Listing

LEMMA CompTypes ==
    ASSUME Listing, Ordinary
    PROVE  /\ \A s \in 1..3 : ListComp(s) \in Comps
           /\ \A b \in Output!Boards : OwnComp(b) \in Comps
           /\ <<Output!Component("out")>> \in Seq(Comps)
           /\ Size(<<Output!Component("out")>>) = 1
           /\ \A b \in Output!Boards : \A s \in 1..3 : OwnComp(b) # ListComp(s)
           /\ \A s, t \in 1..3 : ListComp(s) = ListComp(t) => s = t
           /\ \A b, c \in Output!Boards : OwnComp(b) = OwnComp(c) => name[b] = name[c]
           /\ Output!Component("index") \in Comps
           /\ \A b \in Output!Boards : OwnComp(b) # Output!Component("index")
           /\ \A s \in 1..3 : ListComp(s) # Output!Component("index")
<1>1. \A s \in 1..3 : ListComp(s) \in Comps
  BY WordSections DEF Comps, Words, ListComp
<1>2. \A b \in Output!Boards : OwnComp(b) \in Comps
  BY GivenFacts DEF Comps, OwnComp
<1>3. Output!Component("out") \in Comps /\ Output!Component("index") \in Comps
  BY DEF Comps, Words
<1>4. Size(<<Output!Component("out")>>) = 1
  BY DEF Size
<1>5. \A b \in Output!Boards : \A s \in 1..3 : OwnComp(b) # ListComp(s)
  BY GivenFacts, WordSections DEF OwnComp, ListComp, Output!Component, Given
<1>6. \A s, t \in 1..3 : ListComp(s) = ListComp(t) => s = t
  BY WordSections DEF ListComp, Output!Component
<1>7. \A b, c \in Output!Boards : OwnComp(b) = OwnComp(c) => name[b] = name[c]
  BY GivenFacts DEF OwnComp, Given
<1>8. \A b \in Output!Boards : OwnComp(b) # Output!Component("index")
  BY GivenFacts DEF OwnComp, Given, Output!Component
<1>9. \A s \in 1..3 : ListComp(s) # Output!Component("index")
  BY WordSections DEF ListComp, Output!Component
<1> QED
  BY <1>1, <1>2, <1>3, <1>4, <1>5, <1>6, <1>7, <1>8, <1>9

\* Paths have one component for the root and at least one more for each board on
\* the way to b; directories for lists come in between.
IsPath(b) ==
    /\ Output!Base[b] \in Seq(Comps)
    /\ b = 1 => Size(Output!Base[b]) = 1
    /\ b # 1 => Size(Output!Base[b]) >= 2

LEMMA BaseFacts ==
    ASSUME Listing, Ordinary
    PROVE  /\ \A b \in Output!Boards : IsPath(b)
           /\ \A b \in Output!Boards \ {1} : DirOf(b) \in Seq(Comps)
<1> DEFINE N == {n \in Nat : \A b \in Output!Boards : b <= n => IsPath(b)}
<1>1. Output!Boards = 1..NPaths /\ NPaths \in Nat
  BY PathAssumption DEF Output!Boards
<1>2. 0 \in N
  BY <1>1
<1>3. ASSUME NEW b \in Output!Boards, b # 1, IsPath(above[b])
      PROVE  DirOf(b) \in Seq(Comps) /\ Size(DirOf(b)) \in Nat /\ Size(DirOf(b)) >= 1
  <2>1. above[b] \in Output!Boards /\ listed[b] \in 1..3
    BY <1>3, BaseForms
  <2> DEFINE q == Output!Base[above[b]]
  <2>2. q \in Seq(Comps) /\ (Size(q) = 1 \/ Size(q) >= 2)
    BY <1>3 DEF IsPath
  <2>3. Size(q) \in Nat
    BY <2>2, SizeType
  <2>4. ListComp(listed[b]) \in Comps
    BY <2>1, CompTypes
  <2>5. /\ Then(q, ListComp(listed[b])) \in Seq(Comps)
        /\ Size(Then(q, ListComp(listed[b]))) = Size(q) + 1
    BY <2>2, <2>4, ThenFacts
  <2>6. DirOf(b) = q \/ DirOf(b) = Then(q, ListComp(listed[b]))
    BY DEF DirOf
  <2> HIDE DEF q
  <2> QED
    BY <2>2, <2>3, <2>5, <2>6
<1>4. ASSUME NEW n \in Nat, n \in N PROVE n + 1 \in N
  <2> SUFFICES ASSUME NEW b \in Output!Boards, b <= n + 1 PROVE IsPath(b)
    OBVIOUS
  <2>1. CASE b = 1
    BY <2>1, BaseForms, CompTypes DEF IsPath
  <2>2. CASE b # 1
    <3>1. above[b] \in Output!Boards /\ above[b] <= n
      BY <1>1, <2>2, BaseForms
    <3>2. IsPath(above[b])
      BY <1>4, <3>1
    <3>3. DirOf(b) \in Seq(Comps) /\ Size(DirOf(b)) \in Nat /\ Size(DirOf(b)) >= 1
      BY <1>3, <2>2, <3>2
    <3>4. OwnComp(b) \in Comps
      BY CompTypes
    <3>5. /\ Then(DirOf(b), OwnComp(b)) \in Seq(Comps)
          /\ Size(Then(DirOf(b), OwnComp(b))) = Size(DirOf(b)) + 1
      BY <3>3, <3>4, ThenFacts
    <3>6. Output!Base[b] = Then(DirOf(b), OwnComp(b))
      BY <2>2, BaseForms
    <3> QED
      BY <2>2, <3>3, <3>5, <3>6 DEF IsPath
  <2> QED
    BY <2>1, <2>2
<1>5. NPaths \in N
  <2> HIDE DEF N
  <2> QED
    BY <1>1, <1>2, <1>4, AllNaturals
<1>6. \A b \in Output!Boards : IsPath(b)
  BY <1>1, <1>5
<1>7. ASSUME NEW b \in Output!Boards \ {1} PROVE DirOf(b) \in Seq(Comps)
  <2>1. above[b] \in Output!Boards
    BY BaseForms
  <2> QED
    BY <1>3, <1>6, <2>1
<1> QED
  BY <1>6, <1>7

\* A board of a list that has a directory is not the parent of that directory: no
\* board has a path that ends in the name of a list.
LEMMA NotAList ==
    ASSUME Listing, Ordinary, NEW b \in Output!Boards, NEW c \in Output!Boards,
           NEW s \in 1..3, Output!Base[b] = Then(Output!Base[c], ListComp(s))
    PROVE  FALSE
<1>1. /\ Output!Base[b] \in Seq(Comps) /\ Output!Base[c] \in Seq(Comps)
      /\ b = 1 => Size(Output!Base[b]) = 1
      /\ Size(Output!Base[c]) = 1 \/ Size(Output!Base[c]) >= 2
  BY BaseFacts DEF IsPath
<1>2. /\ ListComp(s) \in Comps /\ OwnComp(b) \in Comps /\ OwnComp(b) # ListComp(s)
  BY CompTypes
<1>3. Size(Output!Base[c]) \in Nat /\ Size(Output!Base[b]) = Size(Output!Base[c]) + 1
  BY <1>1, <1>2, ThenFacts
<1>4. b # 1
  BY <1>1, <1>3
<1>5. Output!Base[b] = Then(DirOf(b), OwnComp(b)) /\ DirOf(b) \in Seq(Comps)
  BY <1>4, BaseForms, BaseFacts
<1>6. Then(DirOf(b), OwnComp(b)) = Then(Output!Base[c], ListComp(s))
  BY <1>5
<1>7. OwnComp(b) = ListComp(s)
  <2> DEFINE p == Output!Base[c]
             x == ListComp(s)
  <2>1. p \in Seq(Comps) /\ x \in Comps /\ Then(DirOf(b), OwnComp(b)) = Then(p, x)
    BY <1>1, <1>2, <1>6
  <2>2. OwnComp(b) \in Comps /\ DirOf(b) \in Seq(Comps)
    BY <1>2, <1>5
  <2> HIDE DEF p, x
  <2>3. OwnComp(b) = x
    BY <2>1, <2>2, ThenTells
  <2> QED
    BY <2>3 DEF x
<1> QED
  BY <1>2, <1>7

\* No two boards have the same path.
LEMMA BasesDiffer ==
    ASSUME Listing, Ordinary
    PROVE  \A b, c \in Output!Boards : Output!Base[b] = Output!Base[c] => b = c
<1> DEFINE B == Output!Base
           Differ(n) == \A b, c \in Output!Boards :
                          b <= n /\ c <= n /\ B[b] = B[c] => b = c
           N == {n \in Nat : Differ(n)}
<1>1. Output!Boards = 1..NPaths /\ NPaths \in Nat
  BY PathAssumption DEF Output!Boards
<1>2. 0 \in N
  BY <1>1
<1>3. ASSUME NEW n \in Nat, n \in N PROVE n + 1 \in N
  <2> SUFFICES ASSUME NEW b \in Output!Boards, NEW c \in Output!Boards,
                      b <= n + 1, c <= n + 1, B[b] = B[c]
               PROVE  b = c
    OBVIOUS
  <2>1. CASE b = 1 \/ c = 1
    <3>1. /\ b = 1 => Size(B[b]) = 1
          /\ c = 1 => Size(B[c]) = 1
          /\ b # 1 => Size(B[b]) >= 2
          /\ c # 1 => Size(B[c]) >= 2
      BY BaseFacts DEF IsPath
    <3> HIDE DEF B
    <3> QED
      BY <2>1, <3>1
  <2>2. CASE b # 1 /\ c # 1
    <3>1. /\ above[b] \in Output!Boards /\ above[b] <= n /\ listed[b] \in 1..3
          /\ above[c] \in Output!Boards /\ above[c] <= n /\ listed[c] \in 1..3
      BY <1>1, <2>2, BaseForms
    <3>2. /\ B[b] = Then(DirOf(b), OwnComp(b)) /\ B[c] = Then(DirOf(c), OwnComp(c))
          /\ DirOf(b) \in Seq(Comps) /\ DirOf(c) \in Seq(Comps)
      BY <2>2, BaseForms, BaseFacts
    <3>3. OwnComp(b) \in Comps /\ OwnComp(c) \in Comps
      BY CompTypes
    <3>4. DirOf(b) = DirOf(c) /\ OwnComp(b) = OwnComp(c)
      <4> HIDE DEF B
      <4> QED
        BY <3>2, <3>3, ThenTells
    <3>5. name[b] = name[c]
      BY <3>4, CompTypes
    <3>6. /\ B[above[b]] \in Seq(Comps) /\ B[above[c]] \in Seq(Comps)
          /\ ListComp(listed[b]) \in Comps /\ ListComp(listed[c]) \in Comps
      BY <3>1, BaseFacts, CompTypes DEF IsPath
    <3>7. above[b] = above[c]
      <4>1. CASE B[above[b]] = B[above[c]]
        BY <1>3, <3>1, <4>1
      <4>2. CASE Mixed(above[b], listed[b]) /\ Mixed(above[c], listed[c])
        <5>1. Then(B[above[b]], ListComp(listed[b])) = Then(B[above[c]], ListComp(listed[c]))
          BY <3>4, <4>2 DEF DirOf
        <5>2. B[above[b]] = B[above[c]]
          <6> HIDE DEF B
          <6> QED
            BY <3>6, <5>1, ThenTells
        <5> QED
          BY <4>1, <5>2
      <4>3. CASE ~Mixed(above[b], listed[b]) /\ Mixed(above[c], listed[c])
        <5>1. B[above[b]] = Then(B[above[c]], ListComp(listed[c]))
          BY <3>4, <4>3 DEF DirOf
        <5> QED
          BY <3>1, <5>1, NotAList
      <4>4. CASE Mixed(above[b], listed[b]) /\ ~Mixed(above[c], listed[c])
        <5>1. B[above[c]] = Then(B[above[b]], ListComp(listed[b]))
          BY <3>4, <4>4 DEF DirOf
        <5> QED
          BY <3>1, <5>1, NotAList
      <4>5. CASE ~Mixed(above[b], listed[b]) /\ ~Mixed(above[c], listed[c])
        BY <3>4, <4>1, <4>5 DEF DirOf
      <4> QED
        BY <4>2, <4>3, <4>4, <4>5
    <3>8. listed[b] = listed[c]
      <4> SUFFICES ASSUME listed[b] # listed[c] PROVE FALSE
        OBVIOUS
      <4>1. Mixed(above[b], listed[b]) /\ Mixed(above[c], listed[c])
        BY <3>1, <3>7, WordSections DEF Mixed, Output!Children
      <4>2. Then(B[above[b]], ListComp(listed[b])) = Then(B[above[c]], ListComp(listed[c]))
        BY <3>4, <4>1 DEF DirOf
      <4>3. ListComp(listed[b]) = ListComp(listed[c])
        <5> HIDE DEF B
        <5> QED
          BY <3>6, <4>2, ThenTells
      <4> QED
        BY <3>1, <4>3, CompTypes
    <3> QED
      BY <2>2, <3>5, <3>7, <3>8 DEF Listing
  <2> QED
    BY <2>1, <2>2
<1>4. NPaths \in N
  <2> HIDE DEF N
  <2> QED
    BY <1>1, <1>2, <1>3, AllNaturals
<1> QED
  BY <1>1, <1>4

-----------------------------------------------------------------------------
(* The paths of boards: what is written.                                      *)

\* The path of the file of b, without its extension.
Stem(b) ==
    IF \E s \in DOMAIN Output!Sections : Output!Children(b, s) # {}
    THEN Then(Output!Base[b], Output!Component("index")) ELSE Output!Base[b]

LEMMA StemsDiffer ==
    ASSUME Listing, Ordinary
    PROVE  /\ \A b \in Output!Boards : Stem(b) \in Seq(Comps) /\ Size(Stem(b)) >= 1
           /\ \A b, c \in Output!Boards : Stem(b) = Stem(c) => b = c
<1> DEFINE B == Output!Base
           Entry == Output!Component("index")
<1>1. ASSUME NEW b \in Output!Boards
      PROVE  /\ B[b] \in Seq(Comps) /\ Size(B[b]) \in Nat /\ Size(B[b]) >= 1
             /\ Then(B[b], Entry) \in Seq(Comps)
             /\ Size(Then(B[b], Entry)) = Size(B[b]) + 1
             /\ Entry \in Comps
  <2>1. B[b] \in Seq(Comps) /\ (Size(B[b]) = 1 \/ Size(B[b]) >= 2)
    BY BaseFacts DEF IsPath
  <2>2. Entry \in Comps
    BY CompTypes
  <2> HIDE DEF B, Entry
  <2> QED
    BY <2>1, <2>2, ThenFacts
<1>2. ASSUME NEW b \in Output!Boards, NEW c \in Output!Boards, B[b] = Then(B[c], Entry)
      PROVE  FALSE
  <2>1. b # 1
    <3>1. b = 1 => Size(B[b]) = 1
      BY BaseFacts DEF IsPath
    <3> HIDE DEF B
    <3> QED
      BY <1>1, <1>2, <3>1
  <2>2. B[b] = Then(DirOf(b), OwnComp(b)) /\ DirOf(b) \in Seq(Comps)
    BY <2>1, BaseForms, BaseFacts
  <2>3. OwnComp(b) \in Comps /\ OwnComp(b) # Entry
    BY CompTypes
  <2>4. Then(DirOf(b), OwnComp(b)) = Then(B[c], Entry)
    BY <1>2, <2>2
  <2>5. B[c] \in Seq(Comps) /\ Entry \in Comps
    BY <1>1
  <2> HIDE DEF B, Entry
  <2>6. OwnComp(b) = Entry
    BY <2>2, <2>3, <2>4, <2>5, ThenTells
  <2> QED
    BY <2>3, <2>6
<1>3. ASSUME NEW b \in Output!Boards, NEW c \in Output!Boards, Stem(b) = Stem(c)
      PROVE  b = c
  <2>1. CASE B[b] = B[c]
    BY <2>1, BasesDiffer
  <2>2. CASE Then(B[b], Entry) = Then(B[c], Entry)
    <3>1. B[b] = B[c]
      <4> HIDE DEF B, Entry
      <4> QED
        BY <1>1, <2>2, ThenTells
    <3> QED
      BY <2>1, <3>1
  <2> QED
    BY <1>2, <1>3, <2>1, <2>2 DEF Stem
<1>4. ASSUME NEW b \in Output!Boards PROVE Stem(b) \in Seq(Comps) /\ Size(Stem(b)) >= 1
  <2> DEFINE p == Then(B[b], Entry)
  <2>1. Stem(b) = B[b] \/ Stem(b) = p
    BY DEF Stem
  <2>2. p \in Seq(Comps) /\ Size(p) = Size(B[b]) + 1
    BY <1>1
  <2>3. B[b] \in Seq(Comps) /\ Size(B[b]) \in Nat /\ Size(B[b]) >= 1
    BY <1>1
  <2> HIDE DEF B, p
  <2>4. Size(p) >= 1
    BY <2>2, <2>3
  <2>5. CASE Stem(b) = p
    BY <2>2, <2>4, <2>5
  <2>6. CASE Stem(b) = B[b]
    BY <2>3, <2>6
  <2> QED
    BY <2>1, <2>5, <2>6
<1> QED
  BY <1>3, <1>4

\* The key of a file is that of its path, with the extension on the last component.
Named(p) ==
    [i \in 1..Size(p) |-> <<p[i].stem, IF i = Size(p) THEN 1 ELSE 0>>]

LEMMA NamedKeys ==
    ASSUME NEW p \in Seq(Comps), Size(p) >= 1
    PROVE  Output!Key(Output!WithExtension(p)) = Named(p)
<1>1. Size(p) = Len(p) /\ Len(p) \in Nat /\ DOMAIN p = 1..Len(p)
  BY LenProperties DEF Size
<1>2. \A i \in 1..Len(p) : p[i].exts = 0
  <2>1. \A i \in 1..Len(p) : p[i] \in Comps
    BY ElementOfSeq
  <2>2. \A x \in Comps : x.exts = 0
    BY DEF Comps, Output!Component
  <2> QED
    BY <2>1, <2>2
<1> DEFINE n == Len(p)
           w == Output!WithExtension(p)
<1>3. w = [p EXCEPT ![Len(p)].exts = @ + 1]
  BY DEF Output!WithExtension
<1>4. n \in 1..n
  BY <1>1
<1>5. DOMAIN w = 1..n
  BY <1>1, <1>3
<1>6. \A i \in 1..n : i # n => w[i] = p[i]
  BY <1>1, <1>3
<1>7. w[n].stem = p[n].stem /\ w[n].exts = 1
  <2>1. w[n] = [p[n] EXCEPT !.exts = @ + 1]
    BY <1>1, <1>3, <1>4
  <2>2. p[n] \in Comps
    BY <1>4, ElementOfSeq
  <2>3. PICK x : p[n] = [stem |-> x, exts |-> 0, form |-> "composed"]
    BY <2>2 DEF Comps, Output!Component
  <2> HIDE DEF w, n
  <2> QED
    BY <2>1, <2>3
<1> HIDE DEF w
<1>8. Output!Key(w) = [i \in 1..n |-> <<w[i].stem, w[i].exts>>]
  BY <1>5 DEF Output!Key
<1>9. ASSUME NEW i \in 1..n
      PROVE  <<w[i].stem, w[i].exts>> = <<p[i].stem, IF i = n THEN 1 ELSE 0>>
  <2>1. CASE i = n
    BY <1>7, <2>1
  <2>2. CASE i # n
    BY <1>2, <1>6, <2>2
  <2> QED
    BY <2>1, <2>2
<1>10. Output!Key(w) = [i \in 1..n |-> <<p[i].stem, IF i = n THEN 1 ELSE 0>>]
  BY <1>8, <1>9
<1>11. Named(p) = [i \in 1..n |-> <<p[i].stem, IF i = n THEN 1 ELSE 0>>]
  BY <1>1 DEF Named
<1> QED
  BY <1>10, <1>11 DEF w

\* Files with different paths have different keys, and none is a directory of the
\* other: only the last component of a file has an extension.
LEMMA NamedApart ==
    ASSUME NEW p \in Seq(Comps), NEW q \in Seq(Comps), Size(p) >= 1, Size(q) >= 1
    PROVE  /\ Named(p) = Named(q) => p = q
           /\ Named(p) \notin Output!Dirs(Named(q))
<1>1. Size(p) = Len(p) /\ Len(p) \in Nat /\ Size(q) = Len(q) /\ Len(q) \in Nat
  BY LenProperties DEF Size
<1>2. ASSUME Named(p) = Named(q) PROVE p = q
  <2>1. Len(p) = Len(q)
    <3>1. DOMAIN Named(p) = 1..Len(p) /\ DOMAIN Named(q) = 1..Len(q)
      BY <1>1 DEF Named
    <3>2. Len(p) \in 1..Len(p) /\ Len(q) \in 1..Len(q)
      BY <1>1
    <3>3. 1..Len(p) = 1..Len(q)
      BY <1>2, <3>1
    <3> DEFINE m == Len(p)
               n == Len(q)
    <3>4. m \in Nat /\ n \in Nat /\ m \in 1..n /\ n \in 1..m
      BY <1>1, <3>2, <3>3
    <3> HIDE DEF m, n
    <3>5. m = n
      BY <3>4
    <3> QED
      BY <3>5 DEF m, n
  <2>2. ASSUME NEW i \in 1..Len(p) PROVE p[i] = q[i]
    <3>1. Named(p)[i][1] = p[i].stem /\ Named(q)[i][1] = q[i].stem
      BY <1>1, <2>1 DEF Named
    <3>2. p[i].stem = q[i].stem
      BY <1>2, <3>1
    <3>3. p[i] \in Comps /\ q[i] \in Comps
      BY <2>1, ElementOfSeq
    <3>4. \A x \in Comps : x = Output!Component(x.stem)
      BY DEF Comps, Output!Component
    <3> QED
      BY <3>2, <3>3, <3>4
  <2> QED
    BY <2>1, <2>2, SeqEqual
<1>3. ASSUME NEW n \in 1..(Len(Named(q)) - 1), Named(p) = SubSeq(Named(q), 1, n)
      PROVE  FALSE
  <2>1. Len(Named(q)) = Len(q)
    <3>1. DOMAIN Named(q) = 1..Len(q)
      BY <1>1 DEF Named
    <3>2. IsFiniteSet(DOMAIN Named(q))
      BY <1>1, <3>1, FS_Interval
    <3> QED
      BY <1>1, <3>1
  <2> DEFINE k == Named(q)
             T == {k[i] : i \in 1..n}
  <2>2. n \in Nat /\ n >= 1 /\ n < Len(q) /\ n \in 1..Len(q)
    BY <1>1, <1>3, <2>1
  <2>3. /\ SubSeq(k, 1, n) \in Seq(T)
        /\ Len(SubSeq(k, 1, n)) = n
        /\ SubSeq(k, 1, n)[n] = k[n]
    <3>1. 1 \in Int /\ n \in Int /\ (\A i \in 1..n : k[i] \in T) /\ n - 1 + 1 = n
          /\ 1 + n - 1 = n /\ 1 <= n /\ n \in 1..(n - 1 + 1)
      BY <2>2
    <3> HIDE DEF T, k
    <3> QED
      BY <3>1, SubSeqProperties
  <2>4. DOMAIN SubSeq(k, 1, n) = 1..n
    <3> HIDE DEF T, k
    <3> QED
      BY <2>3, LenProperties
  <2>5. DOMAIN Named(p) = 1..Len(p)
    BY <1>1 DEF Named
  <2>6. n = Len(p)
    <3>1. 1..n = 1..Len(p)
      BY <1>3, <2>4, <2>5
    <3> DEFINE m == Len(p)
    <3>2. m \in Nat /\ m >= 1 /\ 1..n = 1..m
      BY <1>1, <3>1
    <3> HIDE DEF m
    <3>3. n \in 1..m /\ m \in 1..n
      BY <2>2, <3>2
    <3>4. n = m
      BY <2>2, <3>2, <3>3
    <3> QED
      BY <3>4 DEF m
  <2>7. Named(p)[n][2] = 1
    BY <1>1, <2>2, <2>6 DEF Named
  <2>8. k[n][2] = 0
    BY <1>1, <2>2 DEF Named
  <2>9. Named(p)[n] = k[n]
    BY <1>3, <2>3
  <2> QED
    BY <2>7, <2>8, <2>9
<1> QED
  BY <1>2, <1>3 DEF Output!Dirs

\* Trees with ordinary names fit.
LEMMA OrdinaryApart ==
    ASSUME Listing, Ordinary, NEW b \in Output!Boards, NEW c \in Output!Boards, b # c
    PROVE  Output!Apart(b, c)
<1>1. \A d \in Output!Boards : KeyOf(d) = Named(Stem(d))
  <2> SUFFICES ASSUME NEW d \in Output!Boards PROVE KeyOf(d) = Named(Stem(d))
    OBVIOUS
  <2>1. Output!File(d) = Output!WithExtension(Stem(d))
    BY DEF Output!File, Stem, Then
  <2>2. Stem(d) \in Seq(Comps) /\ Size(Stem(d)) >= 1
    BY StemsDiffer
  <2> QED
    BY <2>1, <2>2, NamedKeys DEF KeyOf
<1>2. /\ Stem(b) \in Seq(Comps) /\ Size(Stem(b)) >= 1
      /\ Stem(c) \in Seq(Comps) /\ Size(Stem(c)) >= 1
      /\ Stem(b) # Stem(c)
  BY StemsDiffer
<1>3. Named(Stem(b)) # Named(Stem(c)) /\ Named(Stem(b)) \notin Output!Dirs(Named(Stem(c)))
  BY <1>2, NamedApart
<1> QED
  BY <1>1, <1>3 DEF Output!Apart, KeyOf

\* The verdict is about the tree that was given.
PathsInv ==
    /\ Listing
    /\ Output!TypeOK
    /\ Output!AcceptedFit

LEMMA PathsInit == Output!Init => PathsInv
<1> SUFFICES ASSUME Output!Init PROVE PathsInv
  OBVIOUS
<1>1. NPaths \in Nat /\ Output!Boards = 1..NPaths
  BY PathAssumption DEF Output!Boards
<1>2. above \in [Output!Boards -> Nat]
  BY <1>1 DEF Output!Init
<1>3. \A b \in Output!Boards \ {1} : above[b] \in 1..(b - 1)
  BY DEF Output!Init, Output!Visited
<1>4. ASSUME NEW b \in Output!Boards \ {1}, NEW c \in Output!Boards \ {1},
             above[b] = above[c], listed[b] = listed[c], name[b] = name[c]
      PROVE  b = c
  <2>1. b \in Int /\ c \in Int
    BY <1>1
  <2>2. b < c => FALSE
    BY <1>4 DEF Output!Init
  <2>3. c < b => FALSE
    BY <1>4 DEF Output!Init
  <2> QED
    BY <2>1, <2>2, <2>3
<1> QED
  <2>1. /\ above \in [Output!Boards -> 0..(NPaths - 1)]
        /\ listed \in [Output!Boards -> 1..3]
        /\ name \in [Output!Boards -> BoardNames]
        /\ folderOnly \in {{}, {1}} /\ verdict = "none"
    BY DEF Output!Init
  <2>2. \A n \in 0..(NPaths - 1) : n \in 0..NPaths
    BY <1>1
  <2>3. above \in [Output!Boards -> 0..NPaths]
    BY <2>1, <2>2
  <2>4. 1 \in Output!Boards
    BY <1>1, PathAssumption
  <2>5. folderOnly \subseteq Output!Boards
    BY <2>1, <2>4
  <2>6. Output!TypeOK
    BY <2>1, <2>3, <2>5 DEF Output!TypeOK
  <2> QED
    BY <1>2, <1>3, <1>4, <2>6 DEF PathsInv, Listing, Output!Init, Output!AcceptedFit

\* What has to hold of a tree that is accepted, and what the claims come to.
Fit == \A b, c \in Output!Boards \ folderOnly : b # c => Output!Apart(b, c)

LEMMA FitIsClaimed == Output!Claimed.ok <=> Fit
<1>1. NPaths \in Nat
  BY PathAssumption
<1>2. Earlier(NPaths) = Output!Boards \ folderOnly
  BY <1>1 DEF Earlier, Claimant, Output!Boards
<1> QED
  BY <1>1, <1>2, ClaimedIs DEF Claims, Fit

LEMMA PathsStep == PathsInv /\ [Output!Next]_pathState => PathsInv'
<1> SUFFICES ASSUME PathsInv, [Output!Next]_pathState PROVE PathsInv'
  OBVIOUS
<1>1. UNCHANGED <<above, listed, name, folderOnly>>
  BY DEF Output!Next, Output!Validate, pathState
<1>2. Listing'
  BY <1>1 DEF PathsInv, Listing, Output!Boards
<1>3. Fit' = Fit
  <2>1. Output!Base' = Output!Base
    BY <1>1 DEF Output!Base, Output!Below, Output!Children, Output!ComponentOf,
                Output!Reserved, Output!Escaped, Output!Component, Output!Boards
  <2>2. \A b \in Output!Boards : Output!File(b)' = Output!File(b)
    BY <1>1, <2>1 DEF Output!File, Output!Children, Output!Boards
  <2>3. \A b \in Output!Boards : Output!Key(Output!File(b))' = Output!Key(Output!File(b))
    BY <2>2
  <2>4. \A b, c \in Output!Boards : Output!Apart(b, c)' = Output!Apart(b, c)
    BY <2>3 DEF Output!Apart
  <2> QED
    BY <1>1, <2>4 DEF Fit, Output!Boards
<1>4. CASE Output!Validate
  <2>1. verdict' = IF Fit THEN "accepted" ELSE "refused"
    BY <1>4, FitIsClaimed DEF Output!Validate
  <2> QED
    BY <1>1, <1>2, <1>3, <2>1 DEF PathsInv, Output!TypeOK, Output!Boards, Output!AcceptedFit, Fit
<1>5. CASE UNCHANGED pathState
  <2>1. verdict' = verdict
    BY <1>5 DEF pathState
  <2> QED
    BY <1>1, <1>2, <1>3, <2>1 DEF PathsInv, Output!TypeOK, Output!Boards, Output!AcceptedFit, Fit
<1> QED
  BY <1>4, <1>5 DEF Output!Next

LEMMA PathsFollow == PathsInv => Output!PathsClaimed
<1> SUFFICES ASSUME PathsInv PROVE Output!PathsClaimed
  OBVIOUS
<1>1. Ordinary => Fit
  BY OrdinaryApart DEF PathsInv, Fit
<1>2. Ordinary => verdict # "refused"
  BY <1>1 DEF PathsInv, Output!AcceptedFit, Fit
<1> QED
  BY <1>2 DEF PathsInv, Output!PathsClaimed, Output!OrdinaryAccepted, Ordinary

-----------------------------------------------------------------------------
(* The text: the theorems about edits and imports are about an editor and a  *)
(* compiler of their own, which are those of the diagram.                    *)

Texts == INSTANCE Texts_proofs WITH NObjects <- NKeys, Names <- KeyNames

\* The operators of the editor are those the theorems about it speak of.
LEMMA EditorOperators ==
    /\ Editor!Objects = Texts!Objects /\ Editor!Top = Texts!Top /\ Editor!Nobody = Texts!Nobody
    /\ Editor!AllNames = Texts!AllNames
    /\ \A d : Editor!In(d) = Texts!In(d)
    /\ \A n, w, i, s : Editor!Unique(n, w, i, s) = Texts!Unique(n, w, i, s)
    /\ \A d : Editor!Renamed(d) = Texts!Renamed(d)
    /\ \A d : Editor!DeleteIDDeltas(d) = Texts!DeleteIDDeltas(d)
    /\ \A d, n : Editor!MoveOrders(d, n) = Texts!MoveOrders(d, n)
    /\ \A d, n, q : Editor!Moved(d, n, q) = Texts!Moved(d, n, q)
<1>1. Editor!Objects = Texts!Objects /\ Editor!Top = Texts!Top /\ Editor!Nobody = Texts!Nobody
  BY DEF Editor!Objects, Texts!Objects, Editor!Top, Texts!Top, Editor!Nobody,
     Texts!Nobody
<1>2. Editor!AllNames = Texts!AllNames
  BY DEF Editor!AllNames, Texts!AllNames, Editor!Numbers, Texts!Numbers
<1>3. \A d : Editor!In(d) = Texts!In(d)
  BY DEF Editor!In, Texts!In, Editor!Objects, Texts!Objects
<1>4. \A n, w, i, s : Editor!Unique(n, w, i, s) = Texts!Unique(n, w, i, s)
  BY DEF Editor!Unique, Texts!Unique, Editor!UniqueAmong, Texts!UniqueAmong,
     Editor!Taken, Texts!Taken, Editor!In, Texts!In, Editor!Objects, Texts!Objects,
     Editor!Numbers, Texts!Numbers, Editor!Front, Texts!Front
<1>5. \A d : Editor!Renamed(d) = Texts!Renamed(d)
  BY ZenonT(120) DEF Editor!Renamed, Texts!Renamed, Editor!RenameChild,
     Texts!RenameChild, Editor!Unique, Texts!Unique, Editor!UniqueAmong,
     Texts!UniqueAmong, Editor!Taken, Texts!Taken, Editor!In, Texts!In, Editor!Objects,
     Texts!Objects, Editor!Numbers, Texts!Numbers, Editor!Front, Texts!Front,
     Editor!Ignored, Texts!Ignored, Editor!InOrder, Texts!InOrder, Editor!SetToSeqs,
     Texts!SetToSeqs, Editor!Cardinality, Texts!Cardinality, Editor!FoldLeft,
     Texts!FoldLeft, Editor!MapThenFoldSet, Texts!MapThenFoldSet, Editor!Max, Texts!Max
<1>6. \A d : Editor!DeleteIDDeltas(d) = Texts!DeleteIDDeltas(d)
  BY ZenonT(120) DEF Editor!DeleteIDDeltas, Texts!DeleteIDDeltas, Editor!Predict,
     Texts!Predict, Editor!Unique, Texts!Unique, Editor!UniqueAmong, Texts!UniqueAmong,
     Editor!Taken, Texts!Taken, Editor!In, Texts!In, Editor!Objects, Texts!Objects,
     Editor!Numbers, Texts!Numbers, Editor!Front, Texts!Front, Editor!Ignored,
     Texts!Ignored, Editor!InOrder, Texts!InOrder, Editor!SetToSeqs, Texts!SetToSeqs,
     Editor!Cardinality, Texts!Cardinality, Editor!FoldLeft, Texts!FoldLeft,
     Editor!MapThenFoldSet, Texts!MapThenFoldSet, Editor!Max, Texts!Max
<1>7. \A d, n : Editor!MoveOrders(d, n) = Texts!MoveOrders(d, n)
  BY DEF Editor!MoveOrders, Texts!MoveOrders, Editor!In, Texts!In, Editor!Objects,
     Texts!Objects, Editor!SetToSeqs, Texts!SetToSeqs, Editor!Cardinality,
     Texts!Cardinality
<1>8. \A d, n, q : Editor!Moved(d, n, q) = Texts!Moved(d, n, q)
  BY DEF Editor!Moved, Texts!Moved, Editor!Move, Texts!Move, Editor!UniqueAmong,
     Texts!UniqueAmong, Editor!Taken, Texts!Taken, Editor!In, Texts!In, Editor!Objects,
     Texts!Objects, Editor!Numbers, Texts!Numbers, Editor!Front, Texts!Front,
     Editor!FoldLeft, Texts!FoldLeft, Editor!MapThenFoldSet, Texts!MapThenFoldSet,
     Editor!Max, Texts!Max
<1> QED
  BY <1>1, <1>2, <1>3, <1>4, <1>5, <1>6, <1>7, <1>8

\* So are its predicates and its steps.
LEMMA EditorSteps ==
    /\ Editor!KeysFit <=> Texts!KeysFit
    /\ Editor!Init <=> Texts!Init
    /\ Editor!Next <=> Texts!Next
    /\ Editor!TypeOK <=> Texts!TypeOK
    /\ Editor!AsPredicted <=> Texts!AsPredicted
<1>1. Editor!KeysFit <=> Texts!KeysFit
  BY DEF Editor!KeysFit, Texts!KeysFit, Editor!Front, Texts!Front
<1>2. Editor!Init <=> Texts!Init
  BY EditorOperators DEF Editor!Init, Texts!Init, Editor!Drawn, Texts!Drawn
<1>3. ASSUME NEW o PROVE Editor!Delete(o) <=> Texts!Delete(o)
  BY EditorOperators DEF Editor!Delete, Texts!Delete
<1>4. ASSUME NEW o, NEW n PROVE Editor!Rename(o, n) <=> Texts!Rename(o, n)
  BY EditorOperators DEF Editor!Rename, Texts!Rename
<1>5. Editor!Next <=> Texts!Next
  BY EditorOperators, <1>3, <1>4 DEF Editor!Next, Texts!Next
<1>6. Editor!TypeOK <=> Texts!TypeOK
  BY EditorOperators DEF Editor!TypeOK, Texts!TypeOK
<1>7. Editor!AsPredicted <=> Texts!AsPredicted
  BY EditorOperators DEF Editor!AsPredicted, Texts!AsPredicted
<1> QED
  BY <1>1, <1>2, <1>5, <1>6, <1>7

\* A diagram before an edit has the invariant of the editor.
LEMMA KeysInit == Editor!Init => Texts!KeysInv
  BY KeyAssumption, EditorSteps, Texts!KeysBegin

\* An edit, and whatever leaves the diagram alone, keeps it.
LEMMA KeysStep == Texts!KeysInv /\ [Editor!Next]_keyState => Texts!KeysInv'
<1> SUFFICES ASSUME Texts!KeysInv, [Editor!Next]_keyState PROVE Texts!KeysInv'
  OBVIOUS
<1>1. CASE Editor!Next
  BY <1>1, KeyAssumption, EditorSteps, Texts!KeysStep
<1>2. CASE UNCHANGED keyState
  <2>1. UNCHANGED <<container, named, deleted, target, predicted>>
    BY <1>2 DEF keyState
  <2>2. Texts!TypeOK' /\ Texts!AsPredicted' /\ (Texts!Unedited' <=> Texts!Unedited)
    BY <2>1 DEF Texts!KeysInv, Texts!TypeOK, Texts!AsPredicted, Texts!Unedited, Texts!Top,
           Texts!Objects, Texts!Nobody
  <2> QED
    BY <2>1, <2>2 DEF Texts!KeysInv, Texts!Nobody
<1> QED
  BY <1>1, <1>2

\* The steps of the compiler are those the theorems about it speak of,
LEMMA ImportSteps == Import!Next <=> Texts!Imp!Next
<1>1. (Import!Glob <=> Texts!Imp!Glob) /\ (Import!Ascend <=> Texts!Imp!Ascend)
      /\ (Import!Return <=> Texts!Imp!Return) /\ (Import!Stop <=> Texts!Imp!Stop)
  BY DEF Import!Glob, Texts!Imp!Glob, Import!Ascend, Texts!Imp!Ascend, Import!Return,
     Texts!Imp!Return, Import!Stop, Texts!Imp!Stop, Import!Top, Texts!Imp!Top,
     Import!Goes, Texts!Imp!Goes, Import!Statement, Texts!Imp!Statement,
     Import!OnStack, Texts!Imp!OnStack, Import!Past, Texts!Imp!Past,
     Import!Advanced, Texts!Imp!Advanced, Import!Imports, Texts!Imp!Imports,
     Import!Rejected, Texts!Imp!Rejected, Import!MayImport, Texts!Imp!MayImport,
     Import!Listed, Texts!Imp!Listed, Import!Cacheable, Texts!Imp!Cacheable,
     Import!Selected, Texts!Imp!Selected, Import!SelectError,
     Texts!Imp!SelectError, Import!Fresh, Texts!Imp!Fresh, Import!Frame,
     Texts!Imp!Frame, Import!Kept, Texts!Imp!Kept, Import!Tree, Texts!Imp!Tree,
     Import!TreeOf, Texts!Imp!TreeOf, Import!NoTree, Texts!Imp!NoTree,
     Import!sourceVars, Texts!Imp!sourceVars, Import!Front, Texts!Imp!Front
<1>2. ASSUME NEW f
      PROVE  /\ Import!RejectPush(f) <=> Texts!Imp!RejectPush(f)
             /\ Import!UseTemplate(f) <=> Texts!Imp!UseTemplate(f)
             /\ Import!RejectLoad(f) <=> Texts!Imp!RejectLoad(f)
             /\ Import!Descend(f) <=> Texts!Imp!Descend(f)
  BY DEF Import!RejectPush, Texts!Imp!RejectPush, Import!UseTemplate,
     Texts!Imp!UseTemplate, Import!RejectLoad, Texts!Imp!RejectLoad,
     Import!Descend, Texts!Imp!Descend, Import!Top, Texts!Imp!Top, Import!Goes,
     Texts!Imp!Goes, Import!Statement, Texts!Imp!Statement, Import!OnStack,
     Texts!Imp!OnStack, Import!Past, Texts!Imp!Past, Import!Advanced,
     Texts!Imp!Advanced, Import!Imports, Texts!Imp!Imports, Import!Rejected,
     Texts!Imp!Rejected, Import!MayImport, Texts!Imp!MayImport, Import!Listed,
     Texts!Imp!Listed, Import!Cacheable, Texts!Imp!Cacheable, Import!Selected,
     Texts!Imp!Selected, Import!SelectError, Texts!Imp!SelectError, Import!Fresh,
     Texts!Imp!Fresh, Import!Frame, Texts!Imp!Frame, Import!Kept, Texts!Imp!Kept,
     Import!Tree, Texts!Imp!Tree, Import!TreeOf, Texts!Imp!TreeOf, Import!NoTree,
     Texts!Imp!NoTree, Import!sourceVars, Texts!Imp!sourceVars, Import!Front,
     Texts!Imp!Front
<1> QED
  BY <1>1, <1>2 DEF Import!Next, Texts!Imp!Next

\* and so are its beginning and its properties.
LEMMA ImportPredicates ==
    /\ Import!ImportsFit <=> Texts!Imp!ImportsFit
    /\ \A p, w : Import!Written(p, w) <=> Texts!Imp!Written(p, w)
    /\ Import!TypeOK <=> Texts!Imp!TypeOK
    /\ Import!CachingIsHarmless <=> Texts!Imp!CachingIsHarmless
<1>1. Import!ImportsFit <=> Texts!Imp!ImportsFit
  BY DEF Import!ImportsFit, Texts!Imp!ImportsFit, Import!Statements,
     Texts!Imp!Statements, Import!IsFiniteSet, Texts!Imp!IsFiniteSet
<1>2. \A p, w : Import!Written(p, w) <=> Texts!Imp!Written(p, w)
  BY DEF Import!Written, Texts!Imp!Written, Import!NoTree, Texts!Imp!NoTree
<1>3. Import!TypeOK <=> Texts!Imp!TypeOK
  BY DEF Import!TypeOK, Texts!Imp!TypeOK, Import!Range, Texts!Imp!Range
<1>4. Import!CachingIsHarmless <=> Texts!Imp!CachingIsHarmless
  <2>1. \A f : Import!Targets(f) = Texts!Imp!Targets(f)
    BY DEF Import!Targets, Texts!Imp!Targets, Import!Range, Texts!Imp!Range
  <2>2. \A f : Import!Reached(f) = Texts!Imp!Reached(f)
    BY <2>1 DEF Import!Reached, Texts!Imp!Reached
  <2>3. (Import!Cyclic <=> Texts!Imp!Cyclic) /\ (Import!Broken <=> Texts!Imp!Broken)
        /\ (Import!TooDeep <=> Texts!Imp!TooDeep)
    BY <2>1, <2>2 DEF Import!Cyclic, Texts!Imp!Cyclic, Import!Broken, Texts!Imp!Broken,
     Import!TooDeep, Texts!Imp!TooDeep, Import!Range, Texts!Imp!Range
  <2>4. /\ Import!Anew = Texts!Imp!Anew
        /\ Import!Anew[Import!Cardinality(ImportFiles)] =
               Texts!Imp!Anew[Texts!Imp!Cardinality(ImportFiles)]
    BY ZenonT(120) DEF Import!Anew, Texts!Imp!Anew, Import!AllOf, Texts!Imp!AllOf, Import!Walk,
     Texts!Imp!Walk, Import!Contexts, Texts!Imp!Contexts, Import!Tree,
     Texts!Imp!Tree, Import!NoTree, Texts!Imp!NoTree, Import!Cardinality,
     Texts!Imp!Cardinality
  <2>5. Import!AsIfAnew <=> Texts!Imp!AsIfAnew
    BY <2>3, <2>4 DEF Import!AsIfAnew, Texts!Imp!AsIfAnew, Import!TreeOf, Texts!Imp!TreeOf,
     Import!Tree, Texts!Imp!Tree, Import!Top, Texts!Imp!Top, Import!InMain,
     Texts!Imp!InMain
  <2>6. Import!ListedOnce <=> Texts!Imp!ListedOnce
    BY <2>1, <2>2 DEF Import!ListedOnce, Texts!Imp!ListedOnce, Import!Range, Texts!Imp!Range,
     Import!IsInjective, Texts!Imp!IsInjective
  <2> QED
    BY <2>5, <2>6 DEF Import!CachingIsHarmless, Texts!Imp!CachingIsHarmless
<1> QED
  BY <1>1, <1>2, <1>3, <1>4

\* A compilation that has not begun has the invariant of imports.
LEMMA ImportsInit == Import!Init => Texts!ImportInv
<1> SUFFICES ASSUME NEW p \in Sources, NEW w \in Flaws, Import!Written(p, w)
             PROVE  Texts!ImportInv
  BY DEF Import!Init
<1> QED
  BY ImportAssumption, ImportPredicates, Texts!WrittenHolds

\* Its steps, and whatever leaves it alone, keep it.
LEMMA ImportsStep == Texts!ImportInv /\ [Import!Next]_importState => Texts!ImportInv'
<1> SUFFICES ASSUME Texts!ImportInv, [Import!Next]_importState PROVE Texts!ImportInv'
  OBVIOUS
<1>1. CASE Import!Next
  BY <1>1, ImportSteps, Texts!ImportStep
<1>2. CASE UNCHANGED importState
  <2>1. UNCHANGED Texts!Imp!importVars
    BY <1>2 DEF importState, Texts!Imp!importVars, Texts!Imp!sourceVars
  <2> QED
    BY <2>1, Texts!ImportStutter
<1> QED
  BY <1>1, <1>2

-----------------------------------------------------------------------------
(* Nested layouts: so are those of the theorems about them.                  *)

Nest == INSTANCE NestedLayout_proofs

\* The operators of nested layouts,
LEMMA NestedOperators ==
    /\ Nested!Shapes = Nest!Shapes /\ Nested!Roots = Nest!Roots
    /\ Nested!Root = Nest!Root /\ Nested!Trees = Nest!Trees
    /\ \A q : Nested!Range(q) = Nest!Range(q) /\ Nested!Reverse(q) = Nest!Reverse(q)
    /\ Nested!AllEdges = Nest!AllEdges
    /\ \A c : Nested!IncludeSelf(c) <=> Nest!IncludeSelf(c)
    /\ \A p : Nested!GraphOf(p) = Nest!GraphOf(p)
    /\ \A g, c : Nested!CutOut(g, c) = Nest!CutOut(g, c)
    /\ \A g, c, self : Nested!Extract(g, c, self) = Nest!Extract(g, c, self)
    /\ \A g : Nested!Specs(g) = Nest!Specs(g)
    /\ \A g, q : Nested!ExtractAll(g, q) = Nest!ExtractAll(g, q)
    /\ \A g, q, i : Nested!RollbackAfter(g, q, i) = Nest!RollbackAfter(g, q, i)
    /\ \A g : Nested!RestoreOrder(g) = Nest!RestoreOrder(g)
    /\ \A g, q : Nested!WithEdges(g, q) = Nest!WithEdges(g, q)
    /\ \A g, c : Nested!CellContents(g, c) = Nest!CellContents(g, c)
    /\ \A g, q : Nested!FoldLeft(Nested!Restore, g, q) = Nest!FoldLeft(Nest!Restore, g, q)
    /\ \A n : Nested!OneByOne(n) = Nest!OneByOne(n)
<1>1. /\ Nested!Shapes = Nest!Shapes /\ Nested!Roots = Nest!Roots
      /\ Nested!Root = Nest!Root /\ Nested!Trees = Nest!Trees
  BY ZenonT(120)
     DEF Nested!Shapes, Nest!Shapes, Nested!Roots, Nest!Roots, Nested!Root,
         Nest!Root, Nested!RootOf, Nest!RootOf, Nested!Trees, Nest!Trees
<1>2. \A q : Nested!Range(q) = Nest!Range(q) /\ Nested!Reverse(q) = Nest!Reverse(q)
  BY ZenonT(120) DEF Nested!Range, Nest!Range, Nested!Reverse, Nest!Reverse
<1>3. Nested!AllEdges = Nest!AllEdges
  BY ZenonT(120)
     DEF Nested!AllEdges, Nest!AllEdges, Nested!Those, Nest!Those, Nested!Edges,
         Nest!Edges, Nested!Shapes, Nest!Shapes, Nested!Lifeline, Nest!Lifeline
<1>4. \A c : Nested!IncludeSelf(c) <=> Nest!IncludeSelf(c)
  BY ZenonT(120) DEF Nested!IncludeSelf, Nest!IncludeSelf
<1>5. \A p : Nested!GraphOf(p) = Nest!GraphOf(p)
  BY ZenonT(120)
     DEF Nested!GraphOf, Nest!GraphOf, Nested!Ordered, Nest!Ordered,
         Nested!Those, Nest!Those, Nested!Shapes, Nest!Shapes, Nested!Roots,
         Nest!Roots, Nested!Root, Nest!Root, Nested!RootOf, Nest!RootOf,
         Nested!AllEdges, Nest!AllEdges, Nested!Edges, Nest!Edges,
         Nested!Lifeline, Nest!Lifeline, Nested!Empty, Nest!Empty
<1>6. \A g, c : Nested!CutOut(g, c) = Nest!CutOut(g, c)
  BY ZenonT(120)
     DEF Nested!CutOut, Nest!CutOut, Nested!IncludeSelf, Nest!IncludeSelf,
         Nested!Extract, Nest!Extract, Nested!Reparent, Nest!Reparent,
         Nested!RootOf, Nest!RootOf, Nested!Those, Nest!Those, Nested!Range,
         Nest!Range, Nested!Below, Nest!Below, Nested!Shapes, Nest!Shapes,
         Nested!Roots, Nest!Roots, Nested!Root, Nest!Root, Nested!Edges,
         Nest!Edges, Nested!Lifeline, Nest!Lifeline
<1>7. ASSUME NEW g, NEW c, NEW self
      PROVE  Nested!Extract(g, c, self) = Nest!Extract(g, c, self)
  BY ZenonT(120)
     DEF Nested!Extract, Nest!Extract, Nested!Reparent, Nest!Reparent,
         Nested!RootOf, Nest!RootOf, Nested!Those, Nest!Those, Nested!Range,
         Nest!Range, Nested!Below, Nest!Below, Nested!Shapes, Nest!Shapes,
         Nested!Roots, Nest!Roots, Nested!Root, Nest!Root, Nested!Edges,
         Nest!Edges, Nested!Lifeline, Nest!Lifeline
<1>8. \A g : Nested!Specs(g) = Nest!Specs(g)
  BY ZenonT(120) DEF Nested!Specs, Nest!Specs, Nested!Root, Nest!Root
<1>9. ASSUME NEW g, NEW q PROVE Nested!ExtractAll(g, q) = Nest!ExtractAll(g, q)
  BY ZenonT(120)
     DEF Nested!ExtractAll, Nest!ExtractAll, Nested!Uproot, Nest!Uproot,
         Nested!Reparent, Nest!Reparent, Nested!RootOf, Nest!RootOf,
         Nested!Those, Nest!Those, Nested!Range, Nest!Range, Nested!Below,
         Nest!Below, Nested!IncludeSelf, Nest!IncludeSelf, Nested!Shapes,
         Nest!Shapes, Nested!Roots, Nest!Roots, Nested!Root, Nest!Root,
         Nested!Edges, Nest!Edges, Nested!Lifeline, Nest!Lifeline,
         Nested!FirstOwner, Nest!FirstOwner, Nested!Max, Nest!Max,
         Nested!FoldLeft, Nest!FoldLeft, Nested!MapThenFoldSet,
         Nest!MapThenFoldSet
<1>10. \A g, q, i : Nested!RollbackAfter(g, q, i) = Nest!RollbackAfter(g, q, i)
  BY ZenonT(120)
     DEF Nested!RollbackAfter, Nest!RollbackAfter, Nested!PutBack, Nest!PutBack,
         Nested!WithEdges, Nest!WithEdges, Nested!Inject, Nest!Inject,
         Nested!Restore, Nest!Restore, Nested!RootOf, Nest!RootOf, Nested!Range,
         Nest!Range, Nested!IncludeSelf, Nest!IncludeSelf, Nested!Root,
         Nest!Root, Nested!Shapes, Nest!Shapes, Nested!Empty, Nest!Empty,
         Nested!FoldLeft, Nest!FoldLeft, Nested!MapThenFoldSet,
         Nest!MapThenFoldSet, Nested!Max, Nest!Max
<1>11. \A g : Nested!RestoreOrder(g) = Nest!RestoreOrder(g)
  BY ZenonT(120)
     DEF Nested!RestoreOrder, Nest!RestoreOrder, Nested!Ordered, Nest!Ordered,
         Nested!Sorted, Nest!Sorted, Nested!Those, Nest!Those, Nested!AllEdges,
         Nest!AllEdges, Nested!Edges, Nest!Edges, Nested!Shapes, Nest!Shapes,
         Nested!Lifeline, Nest!Lifeline, Nested!Root, Nest!Root, Nested!Range,
         Nest!Range
<1>12. \A g, q : Nested!WithEdges(g, q) = Nest!WithEdges(g, q)
  BY ZenonT(120) DEF Nested!WithEdges, Nest!WithEdges
<1>13. \A g, c : Nested!CellContents(g, c) = Nest!CellContents(g, c)
  <2>1. \A g, c : Nested!Inject(g, Nested!Root, c) = Nest!Inject(g, Nest!Root, c)
    BY DEF Nested!Inject, Nest!Inject, Nested!Root, Nest!Root, Nested!RootOf,
           Nest!RootOf, Nested!Range, Nest!Range, Nested!Shapes, Nest!Shapes,
           Nested!Empty, Nest!Empty
  <2> QED
    BY <1>7, <1>11, <1>12, <2>1 DEF Nested!CellContents, Nest!CellContents
<1>14. \A g, q : Nested!FoldLeft(Nested!Restore, g, q) = Nest!FoldLeft(Nest!Restore, g, q)
  BY ZenonT(120)
     DEF Nested!Inject, Nest!Inject, Nested!Restore, Nest!Restore,
         Nested!RootOf, Nest!RootOf, Nested!Range, Nest!Range,
         Nested!IncludeSelf, Nest!IncludeSelf, Nested!Root, Nest!Root,
         Nested!Shapes, Nest!Shapes, Nested!Empty, Nest!Empty, Nested!FoldLeft,
         Nest!FoldLeft, Nested!MapThenFoldSet, Nest!MapThenFoldSet, Nested!Max,
         Nest!Max
<1>15. \A n : Nested!OneByOne(n) = Nest!OneByOne(n)
  BY ZenonT(120)
     DEF Nested!OneByOne, Nest!OneByOne, Nested!CutOut, Nest!CutOut,
         Nested!IncludeSelf, Nest!IncludeSelf, Nested!Extract, Nest!Extract,
         Nested!Reparent, Nest!Reparent, Nested!RootOf, Nest!RootOf,
         Nested!Those, Nest!Those, Nested!Range, Nest!Range, Nested!Below,
         Nest!Below, Nested!Shapes, Nest!Shapes, Nested!Roots, Nest!Roots,
         Nested!Root, Nest!Root, Nested!Edges, Nest!Edges, Nested!Lifeline,
         Nest!Lifeline, Nested!Specs, Nest!Specs, Nested!FoldLeft,
         Nest!FoldLeft, Nested!MapThenFoldSet, Nest!MapThenFoldSet, Nested!Max,
         Nest!Max
<1> QED
  BY <1>1, <1>2, <1>3, <1>4, <1>5, <1>6, <1>7, <1>8, <1>9, <1>10, <1>11, <1>12,
     <1>13, <1>14, <1>15

\* the steps,
LEMMA NestedActions ==
    /\ Nested!Begin <=> Nest!Begin
    /\ \A ok : Nested!Visit(ok) <=> Nest!Visit(ok)
    /\ \A ok, r : Nested!Finish(ok, r) <=> Nest!Finish(ok, r)
<1>1. Nested!Begin <=> Nest!Begin
  BY NestedOperators
     DEF Nested!Begin, Nest!Begin, Nested!callVars, Nest!callVars, Nested!Root,
         Nest!Root
<1>2. /\ \A g, how : Nested!FailWith(g, how) <=> Nest!FailWith(g, how)
      /\ \A g : Nested!CarryOn(g) <=> Nest!CarryOn(g)
  BY NestedOperators
     DEF Nested!FailWith, Nest!FailWith, Nested!CarryOn, Nest!CarryOn,
         Nested!callVars, Nest!callVars
<1>3. \A c : Nested!Skip(c) <=> Nest!Skip(c)
  BY <1>2 DEF Nested!Skip, Nest!Skip
<1>4. \A c, ok : Nested!LayoutOne(c, ok) <=> Nest!LayoutOne(c, ok)
  BY <1>2, NestedOperators DEF Nested!LayoutOne, Nest!LayoutOne
<1>5. \A c, ok : Nested!LayoutCell(c, ok) <=> Nest!LayoutCell(c, ok)
  BY <1>2, NestedOperators DEF Nested!LayoutCell, Nest!LayoutCell
<1>6. \A ok : Nested!Visit(ok) <=> Nest!Visit(ok)
  BY <1>3, <1>4, <1>5, NestedOperators
     DEF Nested!Visit, Nest!Visit, Nested!Root, Nest!Root
<1>7. \A ok, r : Nested!Finish(ok, r) <=> Nest!Finish(ok, r)
  BY <1>2, NestedOperators
     DEF Nested!Finish, Nest!Finish, Nested!callVars, Nest!callVars,
         Nested!Root, Nest!Root
<1> QED
  BY <1>1, <1>6, <1>7

\* and the beginning and the properties are those the theorems speak of.
LEMMA NestedPredicates ==
    /\ Nested!Init <=> Nest!Init
    /\ Nested!AtRest <=> Nest!AtRest
    /\ Nested!Next <=> Nest!Next
    /\ Nested!TypeOK <=> Nest!TypeOK
    /\ Nested!LayoutRestores <=> Nest!LayoutRestores
    /\ Nested!ExtractionIsSequential <=> Nest!ExtractionIsSequential
<1>1. \A p, k, i : Nested!Called(p, k, i) <=> Nest!Called(p, k, i)
  BY NestedOperators DEF Nested!Called, Nest!Called
<1>2. Nested!Init <=> Nest!Init
  BY <1>1, NestedOperators DEF Nested!Init, Nest!Init
<1>3. Nested!AtRest <=> Nest!AtRest
  BY <1>1, NestedOperators DEF Nested!AtRest, Nest!AtRest
<1>4. Nested!Next <=> Nest!Next
  BY NestedActions DEF Nested!Next, Nest!Next
<1>5. Nested!TypeOK <=> Nest!TypeOK
  BY NestedOperators DEF Nested!TypeOK, Nest!TypeOK
<1>6. Nested!LayoutRestores <=> Nest!LayoutRestores
  BY DEF Nested!LayoutRestores, Nest!LayoutRestores
<1>7. Nested!ExtractionIsSequential <=> Nest!ExtractionIsSequential
  BY NestedOperators
     DEF Nested!ExtractionIsSequential, Nest!ExtractionIsSequential,
         Nested!BatchIsSequential, Nest!BatchIsSequential,
         Nested!RollbackIsSequential, Nest!RollbackIsSequential
<1> QED
  BY <1>2, <1>3, <1>4, <1>5, <1>6, <1>7

\* A graph that is not being laid out yet, or never is, has the invariant of nested
\* layouts.
LEMMA NestedInit == Nested!Init \/ Nested!AtRest => Nest!NestedInv
  BY NestedAssumption, NestedPredicates, Nest!NestedInits

\* Its steps, and whatever leaves it alone, keep it, and with it go its properties.
LEMMA NestedStep == Nest!NestedInv /\ [Nested!Next]_nestedState => Nest!NestedInv'
<1> SUFFICES ASSUME Nest!NestedInv, [Nested!Next]_nestedState PROVE Nest!NestedInv'
  OBVIOUS
<1>1. [Nest!Next]_(Nest!nestedVars)
  BY NestedPredicates DEF nestedState, Nest!nestedVars
<1> QED
  BY <1>1, NestedAssumption, Nest!NestedStep

LEMMA NestedFollows ==
    Nest!NestedInv => Nested!TypeOK /\ Nested!LayoutRestores /\ Nested!ExtractionIsSequential
  BY NestedAssumption, NestedPredicates, Nest!NestedInvHolds

-----------------------------------------------------------------------------
(* All parts together: the variables of one are those of no other            *)

PartsInv ==
    /\ part = "seeds" => SeedInv
    /\ part # "seeds" => phase = "done" /\ result = "error"
    /\ BoardsInv
    /\ GuardInv /\ GuardTyped
    /\ TrialInv /\ GraphsInv /\ FineInv
    /\ Nest!NestedInv
    /\ part = "paths" => PathsInv
    /\ part = "keys" => Texts!KeysInv
    /\ part = "imports" => Texts!ImportInv

LEMMA GuardInit == Guard!Init => GuardInv /\ GuardTyped
<1> SUFFICES ASSUME NEW l \in Limits, NEW s \in Strides, Guard!Fresh(l, s)
             PROVE  GuardInv /\ GuardTyped
  BY DEF Guard!Init
<1>1. /\ guarding = FALSE /\ ended = FALSE /\ used = 0 /\ charged = 0 /\ since = 0
      /\ limit \in Limits /\ stride \in Strides
  BY DEF Guard!Fresh
<1>2. guarding \in BOOLEAN /\ ended \in BOOLEAN
  BY <1>1
<1> QED
  BY <1>1, <1>2 DEF GuardInv, GuardTyped

LEMMA BoardsAtRest == Compilation!AtRest => BoardsInv
<1> SUFFICES ASSUME Compilation!AtRest PROVE BoardsInv
  OBVIOUS
<1>1. /\ parentOf = [b \in Compilation!Boards |-> b - 1]
      /\ section = [b \in Compilation!Boards |-> 1]
      /\ content = [b \in Compilation!Boards |-> Compilation!Nothing] /\ builtin = TRUE
      /\ compiling = "idle" /\ board = 1 /\ interrupted = FALSE
      /\ captured = [b \in Compilation!Boards |-> Compilation!NotCaptured]
      /\ shown = [b \in Compilation!Boards |-> Compilation!Nothing]
      /\ late = {}
  BY DEF Compilation!AtRest, Compilation!Described
<1>2. BoardsTyped
  <2>1. \A b \in Compilation!Boards \ {1} : parentOf[b] \in Compilation!Boards
    BY <1>1, BoardNumbers
  <2>2. section \in [Compilation!Boards -> 1..3] /\ section[1] = 1
    BY <1>1, BoardNumbers
  <2>3. parentOf \in [Compilation!Boards -> 0..NBoards]
    BY <1>1, BoardNumbers
  <2>4. shown \in [Compilation!Boards -> Geometry]
    BY <1>1, BoardNumbers
  <2>5. board \in 1..(NBoards + 1) /\ board \in Compilation!Boards
    BY <1>1, BoardNumbers
  <2>6. /\ compiling \in {"idle", "running", "ok", "failed"} /\ interrupted \in BOOLEAN
        /\ builtin \in BOOLEAN /\ late \subseteq Compilation!Boards
        /\ DOMAIN captured = Compilation!Boards
        /\ content \in [Compilation!Boards -> Contents \cup {Compilation!Nothing}]
    BY <1>1
  <2> QED
    BY <2>1, <2>2, <2>3, <2>4, <2>5, <2>6 DEF BoardsTyped
<1>3. Compilation!GeometryIsFresh
  <2>1. \A b \in Compilation!Boards : ~(b < board)
    BY <1>1, BoardNumbers
  <2> QED
    BY <2>1 DEF Compilation!GeometryIsFresh
<1> QED
  BY <1>1, <1>2, <1>3 DEF BoardsInv

\* A guard or a transaction that is not used is in one of its initial states.
LEMMA AtRestIsInit ==
    /\ Guard!AtRest => Guard!Init
    /\ Trial!AtRest => Trial!Init
<1>1. Guard!AtRest => Guard!Init
  BY GuardAssumption DEF Guard!AtRest, Guard!Init
<1>2. Trial!AtRest => Trial!Init
  BY TrialAssumption DEF Trial!AtRest, Trial!Init
<1> QED
  BY <1>1, <1>2

LEMMA PartsInvInit == PartsInit => PartsInv
<1> SUFFICES ASSUME PartsInit PROVE PartsInv
  OBVIOUS
<1>1. /\ part = "seeds" => Init
      /\ part # "seeds" => phase = "done" /\ result = "error"
  BY DEF PartsInit, SeedsAtRest
<1>2. Guard!Init /\ Trial!Init
  BY AtRestIsInit DEF PartsInit
<1>3. BoardsInv
  BY BoardsInit, BoardsAtRest DEF PartsInit
<1>4. part = "paths" => PathsInv
  BY PathsInit DEF PartsInit
<1>5. part = "keys" => Texts!KeysInv
  BY KeysInit DEF PartsInit
<1>6. part = "imports" => Texts!ImportInv
  BY ImportsInit DEF PartsInit
<1>7. Nest!NestedInv
  BY NestedInit DEF PartsInit
<1> QED
  BY <1>1, <1>2, <1>3, <1>4, <1>5, <1>6, <1>7, SeedInit, GuardInit, TrialInit,
     GraphsInit, FineInit
     DEF PartsInv

LEMMA PartsMove ==
    [PartsNext]_partVars =>
        /\ part' = part
        /\ [Next]_vars /\ (part # "seeds" => UNCHANGED <<phase, result>>)
        /\ [Nested!Next]_nestedState /\ [Compilation!Next]_boardState
        /\ [Guard!Next]_guardState /\ [Trial!Next]_trialState
        /\ [Output!Next]_pathState /\ [Editor!Next]_keyState
        /\ [Import!Next]_importState
<1> SUFFICES ASSUME [PartsNext]_partVars
             PROVE  /\ part' = part
                    /\ [Next]_vars /\ (part # "seeds" => UNCHANGED vars)
                    /\ [Nested!Next]_nestedState /\ [Compilation!Next]_boardState
                    /\ [Guard!Next]_guardState /\ [Trial!Next]_trialState
                    /\ [Output!Next]_pathState /\ [Editor!Next]_keyState
                    /\ [Import!Next]_importState
  BY DEF vars, mainVars
<1> QED
  BY DEF PartsNext, partVars

LEMMA PartsInvStep == PartsInv /\ [PartsNext]_partVars => PartsInv'
<1> SUFFICES ASSUME PartsInv, [PartsNext]_partVars PROVE PartsInv'
  OBVIOUS
<1>1. /\ part' = part
      /\ [Next]_vars /\ (part # "seeds" => UNCHANGED <<phase, result>>)
      /\ [Nested!Next]_nestedState /\ [Compilation!Next]_boardState
      /\ [Guard!Next]_guardState /\ [Trial!Next]_trialState
      /\ [Output!Next]_pathState /\ [Editor!Next]_keyState
      /\ [Import!Next]_importState
  BY PartsMove
<1>2. part' = "seeds" => SeedInv'
  BY <1>1, SeedStep DEF PartsInv
<1>3. part' # "seeds" => phase' = "done" /\ result' = "error"
  BY <1>1 DEF PartsInv
<1>4. BoardsInv' /\ GuardInv' /\ GuardTyped'
  BY <1>1, BoardsStep, GuardStep, GuardTypedStep DEF PartsInv
<1>5. TrialInv' /\ GraphsInv' /\ FineInv'
  BY <1>1, TrialStep, GraphsStep, FineStep DEF PartsInv
<1>6. part' = "paths" => PathsInv'
  BY <1>1, PathsStep DEF PartsInv
<1>7. part' = "keys" => Texts!KeysInv'
  BY <1>1, KeysStep DEF PartsInv
<1>8. part' = "imports" => Texts!ImportInv'
  BY <1>1, ImportsStep DEF PartsInv
<1>9. Nest!NestedInv'
  BY <1>1, NestedStep DEF PartsInv
<1> QED
  BY <1>2, <1>3, <1>4, <1>5, <1>6, <1>7, <1>8, <1>9 DEF PartsInv

LEMMA PartsInvAlways == PartsSpec => []PartsInv
  BY PartsInvInit, PartsInvStep, PTL DEF PartsSpec

-----------------------------------------------------------------------------
(* Theorems                                                                  *)

\* Every part keeps its types.
THEOREM TypesHold == PartsSpec => []PartsTypeOK
<1>1. GuardInv /\ GuardTyped => Guard!TypeOK
  BY DEF GuardInv, GuardTyped, Guard!TypeOK
<1>2. /\ PathsInv => Output!TypeOK
      /\ Texts!KeysInv => Editor!TypeOK
      /\ Texts!ImportInv => Import!TypeOK
  BY EditorSteps, ImportPredicates, Texts!ImportTypes
     DEF PathsInv, Texts!KeysInv
<1>3. PartsInv => PartsTypeOK
  BY <1>1, <1>2, BoardsFollow, TrialTypes, NestedFollows
     DEF PartsInv, SeedInv, PartsTypeOK
<1> QED
  BY <1>3, PartsInvAlways, PTL

\* Cutting all nested diagrams out of a graph in one pass gives what cutting them out
\* one by one gives, and when the layout of one fails, those after it are back as if
\* they had never been cut out (d2layouts.go, extractSubgraphs and rollbackAfter), for
\* every tree of objects and whichever of them are diagrams.
THEOREM ExtractionIsSequentialHolds == PartsSpec => []ExtractionIsSequential
<1>1. PartsInv => ExtractionIsSequential
  BY NestedFollows DEF PartsInv, ExtractionIsSequential
<1> QED
  BY <1>1, PartsInvAlways, PTL

\* A layout of nested diagrams that returns has put every object and every edge back
\* where it was, in the order it had (d2layouts.go, LayoutNested, InjectNested and
\* SaveOrder), for every tree of objects, in a grid or not, whatever order the layout
\* itself leaves behind.
THEOREM LayoutRestoresHolds == PartsSpec => []LayoutRestores
<1>1. PartsInv => LayoutRestores
  BY NestedFollows DEF PartsInv, LayoutRestores
<1> QED
  BY <1>1, PartsInvAlways, PTL

\* Layout goes on with the best of all seeds, in whatever order their attempts end
\* (coordinateLocalSeeds), for any number of seeds and workers.
THEOREM SelectionIsBestHolds == PartsSpec => []SelectionIsBest
<1>1. PartsInv => SelectionIsBest
  BY DEF PartsInv, SeedInv, SelectionIsBest
<1> QED
  BY <1>1, PartsInvAlways, PTL

\* Without a cancellation the coordinator reports that all attempts failed only when
\* no seed can produce a layout.
THEOREM GivesUpOnlyWithoutLayoutHolds == Spec => []GivesUpOnlyWithoutLayout
<1>1. SeedInv => GivesUpOnlyWithoutLayout
  BY DEF SeedInv
<1> QED
  BY <1>1, SeedInit, SeedStep, PTL DEF Spec

\* A board that reuses the geometry of another shows what a layout of its own would
\* compute, for every tree of boards, and a compilation whose context has ended
\* before a layout does not succeed (layout_reuse.go, compileBoard).
THEOREM ReuseIsHarmlessHolds == PartsSpec => []ReuseIsHarmless
<1>1. PartsInv => ReuseIsHarmless
  BY BoardsFollow DEF PartsInv, ReuseIsHarmless
<1> QED
  BY <1>1, PartsInvAlways, PTL

\* Step and Add count what they accept exactly and never accept more than the limit,
\* whatever is charged in whatever order (work.go, Step and Add).
THEOREM ChargesExactHolds == PartsSpec => []ChargesExact
<1>1. PartsInv => ChargesExact
  BY GuardAssumption DEF PartsInv, GuardInv, ChargesExact, Guard!ChargesExact
<1> QED
  BY <1>1, PartsInvAlways, PTL

\* Add answers what as many calls of Step would have answered, and no operation does
\* a whole stride of work after its context has ended (work.go, checkAtStride and
\* checkAfterAdd), for every limit, stride and charge.
THEOREM PollingExactHolds == PartsSpec => []PollingExact
<1>1. PartsInv => PollingExact
  BY AddIsStepsHolds, EndNoticedHolds DEF PartsInv, PollingExact, Guard!PollingExact
<1> QED
  BY <1>1, PartsInvAlways, PTL

\* What a stage has accepted brings no two nodes too close, lets none escape its
\* container and moves no fixed one, although only what has moved is looked at
\* (transaction.go, Commit and collectOverlapValidationNodes).
THEOREM AcceptedIsValidHolds == PartsSpec => []AcceptedIsValid
<1>1. PartsInv => AcceptedIsValid
  BY FineFollows DEF PartsInv, AcceptedIsValid
<1> QED
  BY <1>1, PartsInvAlways, PTL

\* The boards of a tree that is accepted have a path each, none of which is a
\* directory of another's, and a tree whose names are ordinary is never refused: what
\* d2 escapes does not collide with what it does not (board_output.go,
\* boardOutputComponent, planBoardOutput and validateBoardOutputPaths), for every tree
\* and every set of names.
THEOREM PathsClaimedHolds == PartsSpec => []PathsClaimed
<1>1. PartsInv => PathsClaimed
  BY PathsFollow DEF PartsInv, PathsClaimed
<1> QED
  BY <1>1, PartsInvAlways, PTL

\* When an object is deleted, or one at the top is renamed, every object gets the
\* name that DeleteIDDeltas or RenameIDDeltas told the editor before (edit.go,
\* renameConflictsToParent, move and generateUniqueKey), whatever the tree of objects
\* and the names, in whatever order the moves come.
THEOREM AsPredictedHolds == PartsSpec => []AsPredicted
<1>1. PartsInv => AsPredicted
  BY EditorSteps DEF PartsInv, Texts!KeysInv, AsPredicted
<1> QED
  BY <1>1, PartsInvAlways, PTL

\* A compilation that keeps what its imports were compiled to succeeds only if no file
\* it reaches imports itself, is missing or has an error, has then found what
\* compiling every import anew would have found, and lists the immediate imports once;
\* if it fails, the files or their depth are the reason (import.go, importTemplates,
\* importStack and seenImports), whatever the files hold.
THEOREM CachingIsHarmlessHolds == PartsSpec => []CachingIsHarmless
<1>1. Texts!ImportInv => Import!CachingIsHarmless
  BY ImportPredicates, Texts!HarmlessHolds
<1>2. PartsInv => CachingIsHarmless
  BY <1>1 DEF PartsInv, CachingIsHarmless
<1> QED
  BY <1>2, PartsInvAlways, PTL

\* UpdateState recycles no GraphState that a clone shares or that the stage has
\* pinned (transaction.go, UpdateState and priorGraphStateShared).
THEOREM RollbackPointsKeptHolds == PartsSpec => []Trial!RollbackPointsKept
<1>1. PartsInv => Trial!RollbackPointsKept
  BY DEF PartsInv, TrialInv
<1> QED
  BY <1>1, PartsInvAlways, PTL

\* Commit and Rollback put back what the transaction found when it last refreshed its
\* rollback point, whatever trials ran inside (transaction.go, Commit and Rollback).
THEOREM RejectionRestoresHolds == PartsSpec => RejectionRestores
<1>1. PartsInv /\ [PartsNext]_partVars => [Restores]_trialState
  BY PartsMove, RestoresStep DEF PartsInv
<1> QED
  BY <1>1, PartsInvAlways, PTL
     DEF PartsSpec, RejectionRestores, Trial!RejectionRestores, Restores, trialState,
         Trial!txnVars

=============================================================================
