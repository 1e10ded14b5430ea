------------------------ MODULE BoardPublish_proofs ------------------------
(***************************************************************************)
(* Proofs about the publication of an output tree, for every set of files  *)
(* and directories and any number of runs, user actions, failing           *)
(* operations and kills.                                                   *)
(***************************************************************************)
EXTENDS BoardPublish, TLAPS

\* What the previous publication left: the manifest, the files it lists, and
\* the directories only they are in.
Old == before.content[Manifest]
OldListed == IF Old \in Runs THEN staged[Old] ELSE {}
OldGone == DirsOf(OldListed) \ DirsOf(Now)

\* The paths this transaction changes.
Work == Now \cup stale \cup {Manifest}

Early == {"first", "rename", "plan"}
Undoing == {"undoDirs", "undoFiles", "undoMkdirs"}

LEMMA ContentFacts ==
    /\ Absent \in Contents /\ User \in Contents /\ Partial \in Contents
    /\ Runs \subseteq Contents
    /\ Absent \notin Runs /\ User \notin Runs /\ Partial \notin Runs
    /\ Absent # User /\ Absent # Partial /\ User # Partial
  BY BoundAssumption DEF Absent, User, Partial, Contents, Runs

LEMMA StepBelow ==
    ASSUME NEW n \in Nat, NEW x \in 0..n, x < n
    PROVE  x + 1 \in 0..n /\ x + 1 \in 1..n
  OBVIOUS

LEMMA NowType == TypeOK => Now \subseteq Files /\ DirsOf(Now) \subseteq Dirs
<1> SUFFICES ASSUME TypeOK PROVE Now \subseteq Files /\ DirsOf(Now) \subseteq Dirs
  OBVIOUS
<1>1. staged \in [Runs -> SUBSET Files] /\ run \in 0..MaxRuns
  BY DEF TypeOK
<1>2. Now \subseteq Files
  BY <1>1, BoundAssumption DEF Now, Runs
<1>3. QED
  BY <1>2, PathAssumption DEF DirsOf

LEMMA ListedType == TypeOK => Listed \subseteq Files /\ DirsOf(Listed) \subseteq Dirs
<1> SUFFICES ASSUME TypeOK
             PROVE  Listed \subseteq Files /\ DirsOf(Listed) \subseteq Dirs
  OBVIOUS
<1>1. staged \in [Runs -> SUBSET Files]
  BY DEF TypeOK
<1>2. Listed \subseteq Files
  BY <1>1 DEF Listed
<1>3. QED
  BY <1>2, PathAssumption DEF DirsOf

-----------------------------------------------------------------------------
(* Types.                                                                  *)

\* Where the transaction stands, and which path it is at.
CurInv ==
    /\ cur # "" => pc \in {"install", "remove", "manifest"}
    /\ copying => cur # "" /\ pc # "remove"
    /\ pc # "idle" => run \in Runs

\* Nothing has been planned yet, or the transaction is over.
EmptyInv ==
    pc \in Early \cup {"idle"} =>
        /\ stale = {} /\ skip = {} /\ applied = {} /\ noInfo = {}
        /\ madeDirs = {} /\ goneDirs = {} /\ todo = {}

TypeInv == TypeOK /\ CurInv /\ EmptyInv

TreeTypes ==
    /\ rootExists \in BOOLEAN
    /\ content \in [Paths -> Contents]
    /\ ident \in [Paths -> Identities]
    /\ dirs \subseteq Dirs

TxTypes ==
    /\ stale \subseteq Files
    /\ backup \in [Paths -> Contents]
    /\ skip \subseteq stale
    /\ applied \subseteq Paths
    /\ noInfo \subseteq applied
    /\ madeDirs \subseteq Dirs
    /\ goneDirs \subseteq Dirs
    /\ rbErr \in BOOLEAN

AtTypes ==
    /\ pc \in Phases
    /\ todo \subseteq Paths \cup Dirs
    /\ cur \in Paths \cup {""}
    /\ copying \in BOOLEAN

RunTypes ==
    /\ run \in 0..MaxRuns
    /\ staged \in [Runs -> SUBSET Files]
    /\ before \in [content : [Paths -> Contents], dirs : SUBSET Dirs]
    /\ canLink \in BOOLEAN
    /\ userFiles \subseteq Files

EndTypes ==
    /\ outcome \in {"none", "ok", "error", "killed"}
    /\ touched \in BOOLEAN
    /\ messy \in BOOLEAN
    /\ acts \in 0..MaxUser
    /\ faults \in 0..MaxFaults
    /\ crashes \in 0..MaxCrashes

LEMMA TypeParts ==
    TypeOK <=> TreeTypes /\ TxTypes /\ AtTypes /\ RunTypes /\ EndTypes
  BY DEF TypeOK, TreeTypes, TxTypes, AtTypes, RunTypes, EndTypes

LEMMA TreeTypesNext == TypeOK /\ CurInv /\ [Next]_vars => TreeTypes'
<1> SUFFICES ASSUME TypeOK, TreeTypes, TxTypes, AtTypes, CurInv, [Next]_vars
             PROVE  TreeTypes'
  BY TypeParts
<1>0. pc # "idle" => run \in Contents
  BY ContentFacts DEF CurInv
<1> USE ContentFacts DEF TreeTypes, AtTypes, Identities
<1>1. CASE UNCHANGED treeVars
  BY <1>1 DEF vars, treeVars, txVars, endVars, runVars, atVars
<1>2. ASSUME NEW f \in Files, UserEdit(f) PROVE TreeTypes'
  BY <1>2 DEF UserEdit, UserActs, treeVars
<1>3. ASSUME NEW f \in Files, UserPut(f) PROVE TreeTypes'
  BY <1>3 DEF UserPut, UserActs, treeVars
<1>4. ASSUME NEW f \in Files, UserDelete(f) PROVE TreeTypes'
  BY <1>4 DEF UserDelete, UserActs, treeVars
<1>5. CASE UserMakeRoot
  BY <1>5 DEF UserMakeRoot, UserActs, treeVars
<1>6. CASE RenameStage
  <2>1. content' = content \/ \A p \in Paths : content'[p] \in {run, Absent}
    BY <1>6 DEF RenameStage, treeVars
  <2>2. dirs' = dirs \/ dirs' = DirsOf(Now)
    BY <1>6 DEF RenameStage, treeVars
  <2>3. content' = content \/ content' = [p \in Paths |-> content'[p]]
    BY <1>6 DEF RenameStage, treeVars
  <2>4. content' \in [Paths -> Contents]
    BY <1>6, <2>1, <2>3, <1>0 DEF RenameStage
  <2>5. rootExists' \in BOOLEAN
    BY <1>6 DEF RenameStage, treeVars
  <2>6. ident' \in [Paths -> Identities]
    BY <1>6 DEF RenameStage, treeVars
  <2>7. QED
    BY <2>2, <2>4, <2>5, <2>6, NowType
<1>7. ASSUME NEW p \in Paths, Backup(p) PROVE TreeTypes'
  BY <1>7 DEF Backup, treeVars
<1>8. ASSUME NEW d \in Dirs, MakeDir(d) PROVE TreeTypes'
  BY <1>8 DEF MakeDir, treeVars
<1>9. CASE Install
  <2>1. \/ UNCHANGED <<content, ident>>
        \/ \E c \in {run, Partial} : /\ content' = [content EXCEPT ![cur] = c]
                                     /\ ident' = [ident EXCEPT ![cur] = "installed"]
    BY <1>9 DEF Install, Wrote, treeVars
  <2>2. UNCHANGED <<rootExists, dirs>> /\ cur \in Paths /\ pc # "idle"
    BY <1>9 DEF Install, Wrote, treeVars
  <2>3. content' \in [Paths -> Contents]
    BY <2>1, <2>2, <1>0
  <2>4. ident' \in [Paths -> Identities]
    BY <2>1
  <2>5. QED
    BY <2>2, <2>3, <2>4
<1>10. CASE CopyDone
  BY <1>10, <1>0 DEF CopyDone, NextItem, treeVars, CurInv
<1>11. CASE Remove
  BY <1>11 DEF Remove, NextItem, Abort, Goto, treeVars
<1>12. ASSUME NEW d \in Dirs, RemoveDir(d) PROVE TreeTypes'
  BY <1>12 DEF RemoveDir, treeVars
<1>13. CASE FailAfterInstall
  <2>1. \E c \in {run, Partial} : /\ content' = [content EXCEPT ![cur] = c]
                                  /\ ident' = [ident EXCEPT ![cur] = "installed"]
    BY <1>13 DEF FailAfterInstall, Wrote
  <2>2. UNCHANGED <<rootExists, dirs>> /\ cur \in Paths /\ pc # "idle"
    BY <1>13 DEF FailAfterInstall, Wrote
  <2>3. content' \in [Paths -> Contents]
    BY <2>1, <2>2, <1>0
  <2>4. ident' \in [Paths -> Identities]
    BY <2>1
  <2>5. QED
    BY <2>2, <2>3, <2>4
<1>14. CASE FailReplace
  BY <1>14 DEF FailReplace, Fault, Abort, Goto, treeVars
<1>15. ASSUME NEW d \in Dirs, UndoRemoveDir(d) PROVE TreeTypes'
  BY <1>15 DEF UndoRemoveDir, RollsBack, treeVars
<1>16. ASSUME NEW p \in Paths, UndoFile(p) PROVE TreeTypes'
  BY <1>16, <1>0 DEF UndoFile, RollsBack, treeVars, TxTypes, CurInv
<1>17. ASSUME NEW d \in Dirs, UndoMakeDir(d) PROVE TreeTypes'
  BY <1>17 DEF UndoMakeDir, RollsBack, treeVars
<1>18. ASSUME NEW item \in Paths \cup Dirs, FailUndo(item) PROVE TreeTypes'
  BY <1>18 DEF FailUndo, Fault, RollsBack, treeVars
<1>19. QED
  BY <1>1, <1>2, <1>3, <1>4, <1>5, <1>6, <1>7, <1>8, <1>9, <1>10, <1>11,
     <1>12, <1>13, <1>14, <1>15, <1>16, <1>17, <1>18
     DEF Next, D2Next, UserNext, vars, treeVars, txVars, endVars, runVars,
         atVars, Begin, Goto, LookAgain, Plan, Finish, NoTransaction, Verify,
         Abort, NextPhase, Done, FailEarly, Fault, FailApply, Crash

LEMMA TxTypesNext == TypeOK /\ CurInv /\ EmptyInv /\ [Next]_vars => TxTypes'
<1> SUFFICES ASSUME TypeOK, TreeTypes, TxTypes, AtTypes, CurInv, EmptyInv,
                    [Next]_vars
             PROVE  TxTypes'
  BY TypeParts
<1>0. [p \in Paths |-> Absent] \in [Paths -> Contents]
  BY ContentFacts
<1> USE DEF TxTypes
<1>1. CASE UNCHANGED txVars
  BY <1>1 DEF vars, treeVars, txVars, endVars, runVars, atVars
<1>2. CASE RenameStage
  BY <1>2, <1>0 DEF RenameStage, Finish, NoTransaction, txVars
<1>3. CASE Plan
  <2>1. CASE content[Manifest] = Partial
    BY <1>3, <2>1, <1>0 DEF Plan, Finish, NoTransaction
  <2>2. CASE content[Manifest] # Partial
    <3>1. /\ UNCHANGED <<backup, skip, applied, noInfo, madeDirs, goneDirs, rbErr>>
          /\ stale' \subseteq Listed
      BY <1>3, <2>2 DEF Plan
    <3>2. skip = {}
      BY <1>3 DEF Plan, EmptyInv, Early
    <3>3. QED
      BY <3>1, <3>2, ListedType
  <2>3. QED
    BY <2>1, <2>2
<1>4. ASSUME NEW p \in Paths, Backup(p) PROVE TxTypes'
  <2>1. backup' \in [Paths -> Contents]
    BY <1>4 DEF Backup, TreeTypes
  <2>2. skip' \subseteq stale'
    BY <1>4 DEF Backup
  <2>3. QED
    BY <1>4, <2>1, <2>2 DEF Backup
<1>5. ASSUME NEW p \in Paths, Verify(p) PROVE TxTypes'
  BY <1>5 DEF Verify, Abort, Goto, txVars
<1>6. ASSUME NEW d \in Dirs, MakeDir(d) PROVE TxTypes'
  BY <1>6 DEF MakeDir, txVars
<1>7. CASE Install
  BY <1>7 DEF Install, Wrote, NextItem, Abort, Goto, txVars, AtTypes
<1>8. CASE Remove
  BY <1>8 DEF Remove, NextItem, Abort, Goto, txVars, AtTypes
<1>9. ASSUME NEW d \in Dirs, RemoveDir(d) PROVE TxTypes'
  BY <1>9 DEF RemoveDir, txVars
<1>10. CASE Done
  BY <1>10, <1>0 DEF Done, Finish, NoTransaction, txVars
<1>11. CASE FailEarly
  BY <1>11, <1>0 DEF FailEarly, Fault, Finish, NoTransaction, txVars
<1>12. CASE FailAfterInstall
  BY <1>12 DEF FailAfterInstall, Fault, Wrote, Abort, Goto, txVars, AtTypes
<1>13. CASE FailReplace
  BY <1>13 DEF FailReplace, Fault, Abort, Goto, txVars, AtTypes
<1>14. ASSUME NEW item \in Paths \cup Dirs, FailUndo(item) PROVE TxTypes'
  BY <1>14 DEF FailUndo, Fault, RollsBack, txVars
<1>15. CASE FailApply
  BY <1>15 DEF FailApply, Fault, Abort, Goto, txVars
<1>16. CASE CopyDone
  BY <1>16 DEF CopyDone, NextItem, txVars
<1>17. ASSUME NEW p \in Paths, UndoFile(p) PROVE TxTypes'
  BY <1>17 DEF UndoFile, RollsBack, txVars
<1>18. ASSUME NEW d \in Dirs, UndoRemoveDir(d) PROVE TxTypes'
  BY <1>18 DEF UndoRemoveDir, RollsBack, txVars
<1>19. ASSUME NEW d \in Dirs, UndoMakeDir(d) PROVE TxTypes'
  BY <1>19 DEF UndoMakeDir, RollsBack, txVars
<1>20. CASE Crash
  BY <1>20, <1>0 DEF Crash, Finish, NoTransaction, txVars
<1>21. QED
  BY <1>1, <1>2, <1>3, <1>4, <1>5, <1>6, <1>7, <1>8, <1>9, <1>10, <1>11,
     <1>12, <1>13, <1>14, <1>15, <1>16, <1>17, <1>18, <1>19, <1>20
     DEF Next, D2Next, UserNext, vars, treeVars, txVars, endVars, runVars,
         atVars, UserEdit, UserActs, UserPut, UserDelete, UserMakeRoot, Begin,
         Goto, LookAgain, NextPhase

LEMMA AtTypesNext == TypeOK /\ CurInv /\ [Next]_vars => AtTypes'
<1> SUFFICES ASSUME TypeOK, TxTypes, AtTypes, [Next]_vars PROVE AtTypes'
  BY TypeParts
<1>0. Now \subseteq Files /\ DirsOf(Now) \subseteq Dirs
  BY NowType
<1> USE DEF AtTypes, Phases, Applying
<1>1. CASE UNCHANGED atVars
  BY <1>1 DEF vars, treeVars, txVars, endVars, runVars, atVars
<1>2. ASSUME NEW S \in SUBSET Files, Begin(S) PROVE AtTypes'
  BY <1>2 DEF Begin, Goto, atVars
<1>3. CASE LookAgain
  BY <1>3 DEF LookAgain, Goto, atVars
<1>4. CASE RenameStage
  BY <1>4 DEF RenameStage, Finish, NoTransaction, atVars
<1>5. CASE Plan
  <2>1. /\ pc' \in {"idle", "backup"} /\ cur' = "" /\ copying' = FALSE
        /\ todo' \subseteq Now \cup Listed \cup {Manifest}
    BY <1>5 DEF Plan, Finish, NoTransaction, Goto
  <2>2. QED
    BY <1>0, <2>1, ListedType DEF Paths
<1>6. ASSUME NEW p \in Paths, Backup(p) PROVE AtTypes'
  BY <1>6 DEF Backup, atVars
<1>7. ASSUME NEW p \in Paths, Verify(p) PROVE AtTypes'
  BY <1>7 DEF Verify, Abort, Goto, atVars, TxTypes
<1>8. ASSUME NEW d \in Dirs, MakeDir(d) PROVE AtTypes'
  BY <1>8 DEF MakeDir, atVars
<1>9. CASE Install
  BY <1>9 DEF Install, Wrote, NextItem, Abort, Goto, atVars, TxTypes
<1>10. CASE CopyDone
  BY <1>10 DEF CopyDone, NextItem, atVars
<1>11. CASE Remove
  BY <1>11 DEF Remove, NextItem, Abort, Goto, atVars, TxTypes
<1>12. ASSUME NEW d \in Dirs, RemoveDir(d) PROVE AtTypes'
  BY <1>12 DEF RemoveDir, atVars
<1>13. CASE NextPhase
  <2>1. DirsOf(Listed) \subseteq Dirs
    BY ListedType
  <2>2. QED
    BY <1>13, <1>0, <2>1 DEF NextPhase, Goto, TxTypes, Paths
<1>14. CASE Done
  BY <1>14 DEF Done, Finish, NoTransaction, atVars
<1>15. CASE FailEarly
  BY <1>15 DEF FailEarly, Fault, Finish, NoTransaction, atVars
<1>16. CASE FailApply
  BY <1>16 DEF FailApply, Fault, Abort, Goto, atVars, TxTypes
<1>17. CASE FailAfterInstall
  BY <1>17 DEF FailAfterInstall, Fault, Wrote, Abort, Goto, atVars, TxTypes
<1>18. CASE FailReplace
  BY <1>18 DEF FailReplace, Fault, Abort, Goto, atVars, TxTypes
<1>19. ASSUME NEW item \in Paths \cup Dirs, FailUndo(item) PROVE AtTypes'
  BY <1>19 DEF FailUndo, Fault, RollsBack, atVars
<1>20. ASSUME NEW p \in Paths, UndoFile(p) PROVE AtTypes'
  BY <1>20 DEF UndoFile, RollsBack, atVars
<1>21. ASSUME NEW d \in Dirs, UndoRemoveDir(d) PROVE AtTypes'
  BY <1>21 DEF UndoRemoveDir, RollsBack, atVars
<1>22. ASSUME NEW d \in Dirs, UndoMakeDir(d) PROVE AtTypes'
  BY <1>22 DEF UndoMakeDir, RollsBack, atVars
<1>23. CASE Crash
  BY <1>23 DEF Crash, Finish, NoTransaction, atVars
<1>24. QED
  BY <1>1, <1>2, <1>3, <1>4, <1>5, <1>6, <1>7, <1>8, <1>9, <1>10, <1>11,
     <1>12, <1>13, <1>14, <1>15, <1>16, <1>17, <1>18, <1>19, <1>20, <1>21,
     <1>22, <1>23
     DEF Next, D2Next, UserNext, vars, treeVars, txVars, endVars, runVars,
         atVars, UserEdit, UserActs, UserPut, UserDelete, UserMakeRoot

LEMMA RunTypesNext == TypeOK /\ [Next]_vars => RunTypes'
<1> SUFFICES ASSUME TypeOK, TreeTypes, RunTypes, [Next]_vars PROVE RunTypes'
  BY TypeParts
<1> USE DEF RunTypes
<1>1. CASE UNCHANGED <<runVars, userFiles>>
  BY <1>1 DEF vars, treeVars, txVars, endVars, runVars, atVars
<1>2. ASSUME NEW f \in Files, UserEdit(f) PROVE RunTypes'
  BY <1>2 DEF UserEdit, UserActs, runVars
<1>3. ASSUME NEW f \in Files, UserPut(f) PROVE RunTypes'
  BY <1>3 DEF UserPut, UserActs, runVars
<1>4. ASSUME NEW f \in Files, UserDelete(f) PROVE RunTypes'
  BY <1>4 DEF UserDelete, UserActs, runVars
<1>5. ASSUME NEW S \in SUBSET Files, Begin(S) PROVE RunTypes'
  <2>1. run' = run + 1 /\ run + 1 \in Runs /\ run' \in 0..MaxRuns
    BY <1>5, BoundAssumption DEF Begin, Runs
  <2>2. before' \in [content : [Paths -> Contents], dirs : SUBSET Dirs]
    BY <1>5 DEF Begin, TreeTypes
  <2>3. QED
    BY <1>5, <2>1, <2>2 DEF Begin
<1>6. QED
  BY <1>1, <1>2, <1>3, <1>4, <1>5
     DEF Next, D2Next, UserNext, vars, treeVars, txVars, endVars, runVars,
         atVars, UserMakeRoot, UserActs, LookAgain, Goto, RenameStage, Finish,
         NoTransaction, Plan, Backup, Verify, Abort, UndoFile, RollsBack,
         MakeDir, RemoveDir, UndoRemoveDir, UndoMakeDir, Install, Wrote,
         NextItem, CopyDone, Remove, NextPhase, Done, FailEarly, Fault,
         FailApply, FailAfterInstall, FailReplace, FailUndo, Crash

LEMMA EndTypesNext == TypeOK /\ [Next]_vars => EndTypes'
<1> SUFFICES ASSUME TypeOK, EndTypes, TxTypes, [Next]_vars PROVE EndTypes'
  BY TypeParts
<1>a. ASSUME Fault PROVE faults' \in 0..MaxFaults
  BY <1>a, BoundAssumption DEF EndTypes, Fault
<1>b. ASSUME NEW r \in {"ok", "error", "killed"}, NEW t \in BOOLEAN, Finish(r, t)
      PROVE  /\ outcome' \in {"none", "ok", "error", "killed"}
             /\ touched' \in BOOLEAN /\ messy' \in BOOLEAN /\ acts' = acts
  BY <1>b DEF Finish
<1> USE BoundAssumption DEF EndTypes
<1>1. CASE UNCHANGED <<endVars, acts, faults, crashes>>
  BY <1>1 DEF vars, treeVars, txVars, endVars, runVars, atVars
<1>2. ASSUME NEW f \in Files, UserEdit(f) PROVE EndTypes'
  BY <1>2 DEF UserEdit, UserActs, endVars
<1>3. ASSUME NEW f \in Files, UserPut(f) PROVE EndTypes'
  BY <1>3 DEF UserPut, UserActs, endVars
<1>4. ASSUME NEW f \in Files, UserDelete(f) PROVE EndTypes'
  BY <1>4 DEF UserDelete, UserActs, endVars
<1>5. CASE UserMakeRoot
  BY <1>5 DEF UserMakeRoot, UserActs, endVars
<1>6. CASE RenameStage
  <2>1. UNCHANGED <<faults, crashes>> /\ (Finish("ok", TRUE) \/ Finish("error", FALSE))
    BY <1>6 DEF RenameStage
  <2>2. QED
    BY <2>1, <1>b
<1>7. CASE Plan
  <2>1. UNCHANGED <<faults, crashes, acts>>
        /\ (Finish("error", FALSE) \/ UNCHANGED endVars)
    BY <1>7 DEF Plan, Finish
  <2>2. QED
    BY <2>1, <1>b DEF endVars
<1>8. CASE Done
  <2>1. UNCHANGED <<faults, crashes>> /\ (Finish("ok", TRUE) \/ Finish("error", rbErr))
    BY <1>8 DEF Done
  <2>2. QED
    BY <2>1, <1>b DEF TxTypes
<1>9. CASE FailEarly
  <2>1. crashes' = crashes /\ Fault /\ Finish("error", FALSE)
    BY <1>9 DEF FailEarly
  <2>2. QED
    BY <2>1, <1>a, <1>b
<1>10. CASE FailApply
  <2>1. Fault /\ UNCHANGED <<endVars, acts, crashes>>
    BY <1>10 DEF FailApply, Abort
  <2>2. QED
    BY <2>1, <1>a DEF endVars
<1>11. CASE FailAfterInstall
  <2>1. Fault /\ UNCHANGED <<endVars, acts, crashes>>
    BY <1>11 DEF FailAfterInstall, Abort
  <2>2. QED
    BY <2>1, <1>a DEF endVars
<1>12. CASE FailReplace
  <2>1. Fault /\ UNCHANGED <<endVars, acts, crashes>>
    BY <1>12 DEF FailReplace, Abort
  <2>2. QED
    BY <2>1, <1>a DEF endVars
<1>13. ASSUME NEW item \in Paths \cup Dirs, FailUndo(item) PROVE EndTypes'
  <2>1. Fault /\ UNCHANGED <<endVars, acts, crashes>>
    BY <1>13 DEF FailUndo, RollsBack
  <2>2. QED
    BY <2>1, <1>a DEF endVars
<1>14. CASE Crash
  <2>1. faults' = faults /\ Finish("killed", FALSE)
    BY <1>14 DEF Crash
  <2>2. crashes' \in 0..MaxCrashes
    <3>1. crashes < MaxCrashes /\ crashes' = crashes + 1
      BY <1>14 DEF Crash
    <3>2. QED
      BY ONLY <3>1, StepBelow, BoundAssumption, EndTypes DEF EndTypes
  <2>3. QED
    BY <2>1, <2>2, <1>b
<1>15. QED
  BY <1>1, <1>2, <1>3, <1>4, <1>5, <1>6, <1>7, <1>8, <1>9, <1>10, <1>11,
     <1>12, <1>13, <1>14
     DEF Next, D2Next, UserNext, vars, treeVars, txVars, endVars, runVars,
         atVars, Begin, Goto, LookAgain, Backup, Verify, Abort, UndoFile,
         RollsBack, MakeDir, RemoveDir, UndoRemoveDir, UndoMakeDir, Install,
         Wrote, NextItem, CopyDone, Remove, NextPhase

LEMMA CurNext == TypeOK /\ CurInv /\ [Next]_vars => CurInv'
<1> SUFFICES ASSUME AtTypes, RunTypes, CurInv, [Next]_vars PROVE CurInv'
  BY TypeParts
<1> USE DEF CurInv, runVars
<1>1. CASE UNCHANGED <<atVars, run>>
  BY <1>1 DEF vars, treeVars, txVars, endVars, runVars, atVars
<1>2. ASSUME NEW S \in SUBSET Files, Begin(S) PROVE CurInv'
  <2>1. run' \in Runs
    <3>1. run \in 0..MaxRuns /\ run < MaxRuns /\ run' = run + 1
      BY <1>2 DEF Begin, RunTypes
    <3>2. run + 1 \in Runs
      BY ONLY <3>1, StepBelow, BoundAssumption DEF Runs
    <3>3. QED
      BY <3>1, <3>2
  <2>2. QED
    BY <1>2, <2>1 DEF Begin, Goto
<1>3. CASE LookAgain
  BY <1>3 DEF LookAgain, Goto, atVars
<1>4. CASE RenameStage
  BY <1>4 DEF RenameStage, Finish, NoTransaction, atVars
<1>5. CASE Plan
  BY <1>5 DEF Plan, Finish, NoTransaction, Goto, atVars
<1>6. ASSUME NEW p \in Paths, Backup(p) PROVE CurInv'
  BY <1>6 DEF Backup, atVars
<1>7. ASSUME NEW p \in Paths, Verify(p) PROVE CurInv'
  <2>1. CASE Abort
    BY <1>7, <2>1 DEF Verify, Abort, Goto
  <2>2. CASE pc' = pc
    <3>1. pc \in {"install", "manifest", "remove"} /\ cur = "" /\ run' = run
          /\ copying' = copying
      BY <1>7, <2>2 DEF Verify, Abort, Goto
    <3>2. QED
      BY <2>2, <3>1
  <2>3. QED
    BY <1>7, <2>1, <2>2 DEF Verify
<1>8. ASSUME NEW d \in Dirs, MakeDir(d) PROVE CurInv'
  BY <1>8 DEF MakeDir, atVars
<1>9. CASE Install
  BY <1>9 DEF Install, Wrote, NextItem, Abort, Goto, atVars
<1>10. CASE CopyDone
  BY <1>10 DEF CopyDone, NextItem, atVars
<1>11. CASE Remove
  BY <1>11 DEF Remove, NextItem, Abort, Goto, atVars
<1>12. ASSUME NEW d \in Dirs, RemoveDir(d) PROVE CurInv'
  BY <1>12 DEF RemoveDir, atVars
<1>13. CASE NextPhase
  BY <1>13 DEF NextPhase, Goto, atVars
<1>14. CASE Done
  BY <1>14 DEF Done, Finish, NoTransaction, atVars
<1>15. CASE FailEarly
  BY <1>15 DEF FailEarly, Fault, Finish, NoTransaction, atVars
<1>16. CASE FailApply
  BY <1>16 DEF FailApply, Fault, Abort, Goto, atVars, Applying
<1>17. CASE FailAfterInstall
  BY <1>17 DEF FailAfterInstall, Fault, Wrote, Abort, Goto, atVars
<1>18. CASE FailReplace
  BY <1>18 DEF FailReplace, Fault, Abort, Goto, atVars
<1>19. ASSUME NEW item \in Paths \cup Dirs, FailUndo(item) PROVE CurInv'
  BY <1>19 DEF FailUndo, Fault, RollsBack, atVars
<1>20. ASSUME NEW p \in Paths, UndoFile(p) PROVE CurInv'
  BY <1>20 DEF UndoFile, RollsBack, atVars
<1>21. ASSUME NEW d \in Dirs, UndoRemoveDir(d) PROVE CurInv'
  BY <1>21 DEF UndoRemoveDir, RollsBack, atVars
<1>22. ASSUME NEW d \in Dirs, UndoMakeDir(d) PROVE CurInv'
  BY <1>22 DEF UndoMakeDir, RollsBack, atVars
<1>23. CASE Crash
  BY <1>23 DEF Crash, Finish, NoTransaction, atVars
<1>24. QED
  BY <1>1, <1>2, <1>3, <1>4, <1>5, <1>6, <1>7, <1>8, <1>9, <1>10, <1>11,
     <1>12, <1>13, <1>14, <1>15, <1>16, <1>17, <1>18, <1>19, <1>20, <1>21,
     <1>22, <1>23
     DEF Next, D2Next, UserNext, vars, treeVars, txVars, endVars, runVars,
         atVars, UserEdit, UserActs, UserPut, UserDelete, UserMakeRoot

LEMMA EmptyNext == TypeOK /\ EmptyInv /\ [Next]_vars => EmptyInv'
<1> SUFFICES ASSUME EmptyInv, [Next]_vars PROVE EmptyInv'
  OBVIOUS
<1> USE DEF EmptyInv, Early
<1>1. CASE UNCHANGED <<txVars, atVars>>
  BY <1>1 DEF vars, treeVars, txVars, endVars, runVars, atVars
<1>2. ASSUME NEW S \in SUBSET Files, Begin(S) PROVE EmptyInv'
  BY <1>2 DEF Begin, Goto, txVars, atVars
<1>3. CASE LookAgain
  BY <1>3 DEF LookAgain, Goto, txVars, atVars
<1>4. CASE RenameStage
  BY <1>4 DEF RenameStage, Finish, NoTransaction, txVars, atVars
<1>5. CASE Plan
  BY <1>5 DEF Plan, Finish, NoTransaction, Goto, txVars, atVars
<1>6. ASSUME NEW p \in Paths, Backup(p) PROVE EmptyInv'
  BY <1>6 DEF Backup, txVars, atVars
<1>7. ASSUME NEW p \in Paths, Verify(p) PROVE EmptyInv'
  BY <1>7 DEF Verify, Abort, Goto, txVars, atVars
<1>8. ASSUME NEW d \in Dirs, MakeDir(d) PROVE EmptyInv'
  BY <1>8 DEF MakeDir, txVars, atVars
<1>9. CASE Install
  BY <1>9 DEF Install, Wrote, NextItem, Abort, Goto, txVars, atVars
<1>10. CASE CopyDone
  BY <1>10 DEF CopyDone, NextItem, txVars, atVars
<1>11. CASE Remove
  BY <1>11 DEF Remove, NextItem, Abort, Goto, txVars, atVars
<1>12. ASSUME NEW d \in Dirs, RemoveDir(d) PROVE EmptyInv'
  BY <1>12 DEF RemoveDir, txVars, atVars
<1>13. CASE NextPhase
  BY <1>13 DEF NextPhase, Goto, txVars, atVars
<1>14. CASE Done
  BY <1>14 DEF Done, Finish, NoTransaction, txVars, atVars
<1>15. CASE FailEarly
  BY <1>15 DEF FailEarly, Fault, Finish, NoTransaction, txVars, atVars
<1>16. CASE FailApply
  BY <1>16 DEF FailApply, Fault, Abort, Goto, txVars, atVars
<1>17. CASE FailAfterInstall
  BY <1>17 DEF FailAfterInstall, Fault, Wrote, Abort, Goto, txVars, atVars
<1>18. CASE FailReplace
  BY <1>18 DEF FailReplace, Fault, Abort, Goto, txVars, atVars
<1>19. ASSUME NEW item \in Paths \cup Dirs, FailUndo(item) PROVE EmptyInv'
  BY <1>19 DEF FailUndo, Fault, RollsBack, txVars, atVars
<1>20. ASSUME NEW p \in Paths, UndoFile(p) PROVE EmptyInv'
  BY <1>20 DEF UndoFile, RollsBack, txVars, atVars
<1>21. ASSUME NEW d \in Dirs, UndoRemoveDir(d) PROVE EmptyInv'
  BY <1>21 DEF UndoRemoveDir, RollsBack, txVars, atVars
<1>22. ASSUME NEW d \in Dirs, UndoMakeDir(d) PROVE EmptyInv'
  BY <1>22 DEF UndoMakeDir, RollsBack, txVars, atVars
<1>23. CASE Crash
  BY <1>23 DEF Crash, Finish, NoTransaction, txVars, atVars
<1>24. QED
  BY <1>1, <1>2, <1>3, <1>4, <1>5, <1>6, <1>7, <1>8, <1>9, <1>10, <1>11,
     <1>12, <1>13, <1>14, <1>15, <1>16, <1>17, <1>18, <1>19, <1>20, <1>21,
     <1>22, <1>23
     DEF Next, D2Next, UserNext, vars, treeVars, txVars, endVars, runVars,
         atVars, UserEdit, UserActs, UserPut, UserDelete, UserMakeRoot

LEMMA TypeInit == Init => TypeInv
<1> SUFFICES ASSUME Init PROVE TypeInv
  OBVIOUS
<1>1. TreeTypes /\ TxTypes
  BY ContentFacts DEF Init, TreeTypes, TxTypes, Identities
<1>2. AtTypes /\ EmptyInv
  BY DEF Init, AtTypes, Phases, EmptyInv
<1>a. \A n \in Nat : 0 \in 0..n
  OBVIOUS
<1>3. EndTypes
  BY <1>a, BoundAssumption DEF Init, EndTypes
<1>4. RunTypes
  <2>1. before \in [content : [Paths -> Contents], dirs : SUBSET Dirs]
    BY <1>1 DEF Init, TreeTypes
  <2>2. staged \in [Runs -> SUBSET Files] /\ run \in 0..MaxRuns
    BY <1>a, BoundAssumption DEF Init
  <2>3. QED
    BY <2>1, <2>2 DEF Init, RunTypes
<1>5. CurInv
  BY DEF Init, CurInv
<1>6. QED
  BY <1>1, <1>2, <1>3, <1>4, <1>5, TypeParts DEF TypeInv

LEMMA TypeNext == TypeInv /\ [Next]_vars => TypeInv'
<1> SUFFICES ASSUME TypeOK, CurInv, EmptyInv, [Next]_vars PROVE TypeInv'
  BY DEF TypeInv
<1>1. TreeTypes' /\ TxTypes' /\ AtTypes' /\ RunTypes' /\ EndTypes'
  BY TreeTypesNext, TxTypesNext, AtTypesNext, RunTypesNext, EndTypesNext
<1>2. TypeOK'
  BY <1>1 DEF TypeOK, TreeTypes, TxTypes, AtTypes, RunTypes, EndTypes
<1>3. QED
  BY <1>2, CurNext, EmptyNext DEF TypeInv

\* Every variable keeps its type, whatever fails and whenever d2 is killed.
THEOREM TypeCorrect == Spec => []TypeOK
<1>1. TypeInv => TypeOK
  BY DEF TypeInv
<1>2. QED
  BY <1>1, TypeInit, TypeNext, PTL DEF Spec

-----------------------------------------------------------------------------
(* What a transaction visits and changes.                                  *)

\* The work of each phase.
PhaseInv ==
    /\ pc = "backup" => todo \subseteq Work
    /\ pc = "mkdirs" => todo \subseteq DirsOf(Now)
    /\ pc = "install" => todo \cup ({cur} \ {""}) \subseteq Now
    /\ pc = "remove" => todo \cup ({cur} \ {""}) \subseteq stale
    /\ pc = "rmdirs" => todo \subseteq OldGone
    /\ pc = "manifest" => todo \cup ({cur} \ {""}) \subseteq {Manifest}
    /\ pc = "undoDirs" => todo \subseteq goneDirs
    /\ pc = "undoFiles" => todo \subseteq applied
    /\ pc = "undoMkdirs" => todo \subseteq madeDirs
    /\ stale \subseteq OldListed \ Now
    /\ pc \notin Undoing => ~rbErr

\* p holds what it held before the run, or what the user made of it since.
Kept(p) == IF p \in userFiles THEN content[p] \in {User, Absent}
                              ELSE content[p] = before.content[p]

\* What a phase has changed so far; everything else was left alone.
AppliedInv ==
    /\ applied \subseteq Work
    /\ applied \cap stale \subseteq noInfo
    /\ pc \in {"backup", "mkdirs"} => applied = {}
    /\ pc = "install" => applied \subseteq Now
    /\ pc \in Applying \ {"manifest"} => Manifest \notin applied
    /\ pc \in {"install", "remove", "manifest"} =>
         applied \cap todo = {} /\ (cur # "" => cur \notin todo)
    /\ cur # "" => (cur \in applied <=> copying)
    /\ pc # "idle" => \A p \in Paths \ applied : Kept(p)

\* Until the manifest is installed, the one on disk is the previous one.
LEMMA OldManifest ==
    ASSUME TypeInv, AppliedInv, pc \in Early \cup (Applying \ {"manifest"})
    PROVE  content[Manifest] = Old /\ Listed = OldListed
<1>1. pc # "idle" /\ Manifest \notin applied
  BY DEF TypeInv, EmptyInv, AppliedInv, Early, Applying
<1>2. Manifest \in Paths /\ Manifest \notin userFiles
  BY PathAssumption DEF TypeInv, TypeOK, Paths
<1>3. content[Manifest] = Old
  BY <1>1, <1>2 DEF AppliedInv, Kept, Old
<1>4. QED
  BY <1>3 DEF Listed, OldListed

\* What a publication is about is fixed when it begins.
LEMMA RunFixed ==
    ASSUME UNCHANGED runVars
    PROVE  /\ Now' = Now /\ Old' = Old
           /\ OldListed' = OldListed /\ OldGone' = OldGone
           /\ UNCHANGED <<run, staged, before, canLink>>
  BY DEF runVars, Now, Old, OldListed, OldGone, DirsOf

LEMMA PhaseNext == TypeInv /\ PhaseInv /\ AppliedInv /\ [Next]_vars => PhaseInv'
<1> SUFFICES ASSUME TypeInv, PhaseInv, AppliedInv, [Next]_vars, EmptyInv'
             PROVE  PhaseInv'
  BY TypeNext DEF TypeInv
<1>e. EmptyInv /\ CurInv
  BY DEF TypeInv
<1> USE <1>e, RunFixed DEF PhaseInv, EmptyInv, CurInv, Early, Undoing, Work
<1>1. CASE UNCHANGED <<txVars, atVars, runVars>>
  BY <1>1 DEF vars, treeVars, txVars, endVars, runVars, atVars
<1>2. ASSUME NEW S \in SUBSET Files, Begin(S) PROVE PhaseInv'
  BY <1>2 DEF Begin, Goto, txVars, atVars
<1>3. CASE LookAgain
  BY <1>3 DEF LookAgain, Goto, txVars, atVars
<1>4. CASE RenameStage
  BY <1>4 DEF RenameStage, Finish, NoTransaction, txVars, atVars
<1>5. CASE Plan
  <2>1. Listed = OldListed
    BY <1>5, OldManifest DEF Plan
  <2>2. QED
    BY <1>5, <2>1 DEF Plan, Finish, NoTransaction, Goto, txVars, atVars
<1>6. ASSUME NEW p \in Paths, Backup(p) PROVE PhaseInv'
  BY <1>6 DEF Backup, txVars, atVars
<1>7. ASSUME NEW p \in Paths, Verify(p) PROVE PhaseInv'
  <2>1. CASE Abort
    BY <1>7, <2>1 DEF Verify, Abort, Goto
  <2>2. CASE ~Abort
    <3>1. /\ UNCHANGED <<pc, runVars, stale, applied, goneDirs, madeDirs, rbErr>>
          /\ todo' \subseteq todo /\ cur' \in {"", p} /\ p \in todo
          /\ pc \in {"install", "manifest", "remove"}
      BY <1>7, <2>2 DEF Verify
    <3>2. QED
      BY <3>1
  <2>3. QED
    BY <2>1, <2>2
<1>8. ASSUME NEW d \in Dirs, MakeDir(d) PROVE PhaseInv'
  BY <1>8 DEF MakeDir, txVars, atVars
<1>9. CASE Install
  <2>1. CASE Abort
    BY <1>9, <2>1 DEF Install, Abort, Goto
  <2>2. CASE ~Abort
    <3>1. /\ UNCHANGED <<pc, todo, runVars, stale, goneDirs, madeDirs, rbErr>>
          /\ cur' \in {"", cur}
          /\ pc \in {"install", "manifest"}
      BY <1>9, <2>2 DEF Install, NextItem
    <3>2. QED
      BY <3>1
  <2>3. QED
    BY <2>1, <2>2
<1>10. CASE CopyDone
  BY <1>10 DEF CopyDone, NextItem, txVars, atVars
<1>11. CASE Remove
  BY <1>11 DEF Remove, NextItem, Abort, Goto, txVars, atVars
<1>12. ASSUME NEW d \in Dirs, RemoveDir(d) PROVE PhaseInv'
  BY <1>12 DEF RemoveDir, txVars, atVars
<1>13. CASE NextPhase
  <2>1. pc = "remove" => Listed = OldListed
    BY OldManifest DEF Applying
  <2>2. UNCHANGED <<runVars, stale, applied, madeDirs, goneDirs, rbErr>>
    BY <1>13 DEF NextPhase, txVars
  <2>3. QED
    BY <1>13, <2>1, <2>2 DEF NextPhase, Goto, OldGone
<1>14. CASE Done
  BY <1>14 DEF Done, Finish, NoTransaction, txVars, atVars
<1>15. CASE FailEarly
  BY <1>15 DEF FailEarly, Fault, Finish, NoTransaction, txVars, atVars
<1>16. CASE FailApply
  BY <1>16 DEF FailApply, Fault, Abort, Goto, txVars, atVars, Applying
<1>17. CASE FailAfterInstall
  BY <1>17 DEF FailAfterInstall, Fault, Wrote, Abort, Goto, txVars, atVars
<1>18. CASE FailReplace
  BY <1>18 DEF FailReplace, Fault, Abort, Goto, txVars, atVars
<1>19. ASSUME NEW item \in Paths \cup Dirs, FailUndo(item) PROVE PhaseInv'
  BY <1>19 DEF FailUndo, Fault, RollsBack, txVars, atVars
<1>20. ASSUME NEW p \in Paths, UndoFile(p) PROVE PhaseInv'
  BY <1>20 DEF UndoFile, RollsBack, txVars, atVars
<1>21. ASSUME NEW d \in Dirs, UndoRemoveDir(d) PROVE PhaseInv'
  BY <1>21 DEF UndoRemoveDir, RollsBack, txVars, atVars
<1>22. ASSUME NEW d \in Dirs, UndoMakeDir(d) PROVE PhaseInv'
  BY <1>22 DEF UndoMakeDir, RollsBack, txVars, atVars
<1>23. CASE Crash
  BY <1>23 DEF Crash, Finish, NoTransaction, txVars, atVars
<1>24. QED
  BY <1>1, <1>2, <1>3, <1>4, <1>5, <1>6, <1>7, <1>8, <1>9, <1>10, <1>11,
     <1>12, <1>13, <1>14, <1>15, <1>16, <1>17, <1>18, <1>19, <1>20, <1>21,
     <1>22, <1>23
     DEF Next, D2Next, UserNext, vars, treeVars, txVars, endVars, runVars,
         atVars, UserEdit, UserActs, UserPut, UserDelete, UserMakeRoot

LEMMA AppliedNext == TypeInv /\ PhaseInv /\ AppliedInv /\ [Next]_vars => AppliedInv'
<1> SUFFICES ASSUME TypeInv, PhaseInv, AppliedInv, [Next]_vars, EmptyInv'
             PROVE  AppliedInv'
  BY TypeNext DEF TypeInv
<1>e. /\ EmptyInv /\ CurInv /\ TreeTypes
      /\ applied \subseteq Paths /\ stale \subseteq Files
      /\ Now \subseteq Files /\ Manifest \notin Files
      /\ "" \notin Paths
  BY TypeParts, NowType, PathAssumption DEF TypeInv, TxTypes, Paths, Manifest
<1>a. ASSUME pc # "idle", Abort, UNCHANGED <<content, applied, noInfo>>
      PROVE  AppliedInv'
  <2>1. UNCHANGED <<runVars, userFiles, stale>> /\ pc' = "undoDirs" /\ cur' = "" /\ ~copying'
    BY <1>a DEF Abort, Goto
  <2>2. QED
    BY <1>a, <2>1, <1>e, RunFixed DEF AppliedInv, Kept, Work, Applying, Paths
<1>w. ASSUME pc \in {"install", "remove", "manifest"}, cur # "", cur \notin todo,
             UNCHANGED <<pc, todo, stale, runVars, userFiles>>,
             applied' = applied \cup {cur}, noInfo \subseteq noInfo',
             cur \in stale => cur \in noInfo',
             \A q \in Paths \ {cur} : content'[q] = content[q],
             (cur' = "" /\ ~copying') \/ (cur' = cur /\ copying')
      PROVE  AppliedInv'
  <2> USE <1>w, <1>e, RunFixed
  <2>1. pc = "install" => cur \in Now
    BY DEF PhaseInv
  <2>2. pc = "remove" => cur \in stale
    BY DEF PhaseInv
  <2>3. pc = "manifest" => cur = Manifest
    BY DEF PhaseInv
  <2>4. applied' \subseteq Work' /\ applied' \cap stale' \subseteq noInfo'
    BY <2>1, <2>2, <2>3 DEF AppliedInv, Work
  <2>5. /\ pc' = "install" => applied' \subseteq Now'
        /\ pc' \in Applying \ {"manifest"} => Manifest \notin applied'
        /\ pc' \notin {"backup", "mkdirs"}
    BY <2>1, <2>2 DEF AppliedInv, Applying
  <2>6. /\ applied' \cap todo' = {}
        /\ cur' # "" => cur' \notin todo' /\ (cur' \in applied' <=> copying')
    BY DEF AppliedInv
  <2>7. \A q \in Paths \ applied' : Kept(q)'
    BY DEF AppliedInv, Kept
  <2>8. QED
    BY <2>4, <2>5, <2>6, <2>7 DEF AppliedInv
<1> USE <1>e, RunFixed
    DEF PhaseInv, AppliedInv, Kept, EmptyInv, CurInv, TreeTypes, Early, Undoing, Applying, Work
<1>1. CASE UNCHANGED <<content, userFiles, txVars, atVars, runVars>>
  BY <1>1 DEF vars, treeVars, txVars, endVars, runVars, atVars
<1>2. ASSUME NEW f \in Files, UserEdit(f) PROVE AppliedInv'
  BY <1>2 DEF UserEdit, UserActs, txVars, atVars, treeVars
<1>3. ASSUME NEW f \in Files, UserPut(f) PROVE AppliedInv'
  BY <1>3 DEF UserPut, UserActs, txVars, atVars, treeVars
<1>4. ASSUME NEW f \in Files, UserDelete(f) PROVE AppliedInv'
  BY <1>4 DEF UserDelete, UserActs, txVars, atVars, treeVars
<1>5. ASSUME NEW S \in SUBSET Files, Begin(S) PROVE AppliedInv'
  BY <1>5 DEF Begin, Goto, txVars, atVars, treeVars
<1>6. CASE LookAgain
  BY <1>6 DEF LookAgain, Goto, txVars, atVars, treeVars
<1>7. CASE RenameStage
  BY <1>7 DEF RenameStage, Finish, NoTransaction, txVars, atVars, treeVars
<1>8. CASE Plan
  BY <1>8 DEF Plan, Finish, NoTransaction, Goto, txVars, atVars, treeVars
<1>9. ASSUME NEW p \in Paths, Backup(p) PROVE AppliedInv'
  BY <1>9 DEF Backup, txVars, atVars, treeVars
<1>10. ASSUME NEW p \in Paths, Verify(p) PROVE AppliedInv'
  <2>1. UNCHANGED <<content, userFiles, runVars, stale, applied, noInfo>>
    BY <1>10 DEF Verify, Abort, treeVars
  <2>2. CASE Abort
    BY <1>10, <1>a, <2>1, <2>2 DEF Verify
  <2>3. CASE ~Abort
    <3>1. /\ pc' = pc /\ todo' = todo \ {p} /\ cur' \in {"", p} /\ cur = ""
          /\ p \in todo /\ copying' = copying
          /\ pc \in {"install", "manifest", "remove"}
      BY <1>10, <2>3 DEF Verify
    <3>2. QED
      BY <2>1, <3>1
  <2>4. QED
    BY <2>2, <2>3
<1>11. ASSUME NEW d \in Dirs, MakeDir(d) PROVE AppliedInv'
  BY <1>11 DEF MakeDir, txVars, atVars, treeVars
<1>12. CASE Install
  <2>1. /\ pc \in {"install", "manifest"} /\ cur # "" /\ ~copying
        /\ cur \in Now \cup {Manifest} /\ cur \notin stale /\ cur \notin todo
    BY <1>12 DEF Install, Paths
  <2>2. CASE Abort
    <3>1. pc' # pc
      BY <2>1, <2>2 DEF Abort, Goto
    <3>2. UNCHANGED <<content, applied, noInfo>>
      BY <1>12, <3>1 DEF Install, NextItem, treeVars
    <3>3. QED
      BY <1>a, <2>1, <2>2, <3>2
  <2>3. CASE ~Abort
    <3>1. /\ UNCHANGED <<pc, todo, stale, noInfo, runVars, userFiles>>
          /\ applied' = applied \cup {cur}
          /\ \A q \in Paths \ {cur} : content'[q] = content[q]
          /\ (cur' = "" /\ ~copying') \/ (cur' = cur /\ copying')
      <4>1. CASE Wrote(cur, run) /\ NextItem /\ noInfo' = noInfo
        BY <4>1 DEF Wrote, NextItem
      <4>2. CASE Wrote(cur, Partial) /\ noInfo' = noInfo /\ copying' = TRUE
                 /\ UNCHANGED <<pc, todo, cur, stale, runVars, userFiles>>
        BY <4>2 DEF Wrote
      <4>3. QED
        BY <1>12, <2>3, <4>1, <4>2 DEF Install
    <3>2. QED
      BY <2>1, <3>1, <1>w
  <2>4. QED
    BY <2>2, <2>3
<1>13. CASE CopyDone
  <2>1. /\ UNCHANGED <<pc, todo, stale, noInfo, applied, runVars, userFiles>>
        /\ \A q \in Paths \ {cur} : content'[q] = content[q]
        /\ cur' = "" /\ ~copying' /\ copying
    BY <1>13 DEF CopyDone, NextItem
  <2>2. QED
    BY <2>1
<1>14. CASE Remove
  <2>1. /\ pc = "remove" /\ cur # "" /\ ~copying /\ cur \in stale /\ cur \notin todo
    BY <1>14 DEF Remove
  <2>2. CASE Abort /\ UNCHANGED <<content, applied, noInfo>>
    BY <1>a, <2>1, <2>2
  <2>3. CASE ~(Abort /\ UNCHANGED <<content, applied, noInfo>>)
    <3>1. /\ UNCHANGED <<pc, todo, stale, runVars, userFiles>>
          /\ applied' = applied \cup {cur} /\ noInfo' = noInfo \cup {cur}
          /\ \A q \in Paths \ {cur} : content'[q] = content[q]
          /\ cur' = "" /\ ~copying'
      BY <1>14, <2>1, <2>3 DEF Remove, NextItem
    <3>2. QED
      BY <2>1, <3>1, <1>w
  <2>4. QED
    BY <2>2, <2>3
<1>15. ASSUME NEW d \in Dirs, RemoveDir(d) PROVE AppliedInv'
  BY <1>15 DEF RemoveDir, txVars, atVars, treeVars
<1>16. CASE NextPhase
  <2>1. UNCHANGED <<content, runVars, userFiles, stale, applied, noInfo>>
    BY <1>16 DEF NextPhase, txVars, treeVars
  <2>2. /\ cur = "" /\ todo = {} /\ cur' = "" /\ ~copying'
        /\ \/ pc = "backup" /\ pc' = "mkdirs"
           \/ pc = "mkdirs" /\ pc' = "install"
           \/ pc = "install" /\ pc' = "remove" /\ todo' = stale
           \/ pc = "remove" /\ pc' = "rmdirs"
           \/ pc = "rmdirs" /\ pc' = "manifest" /\ todo' = {Manifest}
           \/ pc = "undoDirs" /\ pc' = "undoFiles"
           \/ pc = "undoFiles" /\ pc' = "undoMkdirs"
    BY <1>16 DEF NextPhase, Goto
  <2>3. pc # "idle" /\ Work' = Work
    BY <2>1, <2>2
  <2>4. applied \cap todo' = {} \/ pc' \notin {"install", "remove", "manifest"}
    <3>1. CASE pc = "install"
      BY <2>2, <3>1
    <3>2. CASE pc = "rmdirs"
      <4>1. Manifest \notin applied
        BY <3>2
      <4>2. todo' = {Manifest}
        BY <2>2, <3>2
      <4>3. QED
        BY ONLY <4>1, <4>2
    <3>3. CASE pc \notin {"install", "rmdirs"}
      BY <2>2, <3>3
    <3>4. QED
      BY <3>1, <3>2, <3>3
  <2>5. \A q \in Paths \ applied' : Kept(q)'
    BY <2>1, <2>3
  <2>6. QED
    BY <2>1, <2>2, <2>3, <2>4, <2>5
<1>17. CASE Done
  BY <1>17 DEF Done, Finish, NoTransaction, txVars, atVars, treeVars
<1>18. CASE FailEarly
  BY <1>18 DEF FailEarly, Fault, Finish, NoTransaction, txVars, atVars,
         treeVars
<1>19. CASE FailApply
  BY <1>19 DEF FailApply, Fault, Abort, Goto, txVars, atVars, treeVars
<1>20. CASE FailAfterInstall
  <2>1. /\ pc \in {"install", "manifest"} /\ cur # "" /\ ~copying
        /\ cur \in Now \cup {Manifest} /\ cur \notin stale
    BY <1>20 DEF FailAfterInstall, Paths
  <2>2. /\ UNCHANGED <<stale, runVars, userFiles>>
        /\ applied' = applied \cup {cur} /\ noInfo \subseteq noInfo'
        /\ \A q \in Paths \ {cur} : content'[q] = content[q]
        /\ pc' = "undoDirs" /\ cur' = "" /\ ~copying'
    BY <1>20 DEF FailAfterInstall, Wrote, Abort, Goto
  <2>3. QED
    BY <2>1, <2>2
<1>21. CASE FailReplace
  BY <1>21 DEF FailReplace, Fault, Abort, Goto, txVars, atVars, treeVars
<1>22. ASSUME NEW item \in Paths \cup Dirs, FailUndo(item) PROVE AppliedInv'
  BY <1>22 DEF FailUndo, Fault, RollsBack, txVars, atVars, treeVars
<1>23. ASSUME NEW p \in Paths, UndoFile(p) PROVE AppliedInv'
  BY <1>23 DEF UndoFile, RollsBack, txVars, atVars, treeVars
<1>24. ASSUME NEW d \in Dirs, UndoRemoveDir(d) PROVE AppliedInv'
  BY <1>24 DEF UndoRemoveDir, RollsBack, txVars, atVars, treeVars
<1>25. ASSUME NEW d \in Dirs, UndoMakeDir(d) PROVE AppliedInv'
  BY <1>25 DEF UndoMakeDir, RollsBack, txVars, atVars, treeVars
<1>26. CASE Crash
  BY <1>26 DEF Crash, Finish, NoTransaction, txVars, atVars, treeVars
<1>27. QED
  BY <1>1, <1>2, <1>3, <1>4, <1>5, <1>6, <1>7, <1>8, <1>9, <1>10, <1>11,
     <1>12, <1>13, <1>14, <1>15, <1>16, <1>17, <1>18, <1>19, <1>20, <1>21,
     <1>22, <1>23, <1>24, <1>25, <1>26
     DEF Next, D2Next, UserNext, vars, treeVars, txVars, endVars, runVars,
         atVars, UserMakeRoot, UserActs

\* What the other invariants rest on.
CoreInv == TypeInv /\ PhaseInv /\ AppliedInv

LEMMA CoreInit == Init => CoreInv
<1>1. Init => PhaseInv
  BY DEF Init, PhaseInv, Undoing
<1>2. Init => AppliedInv
  BY DEF Init, AppliedInv, Applying
<1>3. QED
  BY <1>1, <1>2, TypeInit DEF CoreInv

LEMMA CoreNext == CoreInv /\ [Next]_vars => CoreInv'
  BY TypeNext, PhaseNext, AppliedNext DEF CoreInv

-----------------------------------------------------------------------------
(* The user's files.                                                       *)

\* Between the digest check of a stale file and its removal the file is the one
\* that was checked, if nobody acts in that window.
WindowInv ==
    pc = "remove" /\ cur # "" => content[cur] = content[Manifest]


LEMMA WindowNext == ~WindowOpen /\ CoreInv /\ WindowInv /\ [Next]_vars => WindowInv'
<1> SUFFICES ASSUME ~WindowOpen, CoreInv, WindowInv, [Next]_vars PROVE WindowInv'
  OBVIOUS
<1>e. /\ PhaseInv /\ CurInv
  BY DEF CoreInv, TypeInv
<1> USE <1>e DEF WindowInv, CurInv
<1>1. CASE UNCHANGED <<content, atVars>>
  BY <1>1 DEF vars, treeVars, txVars, endVars, runVars, atVars
<1>2. ASSUME NEW f \in Files, UserEdit(f) PROVE WindowInv'
  BY <1>2 DEF UserEdit, UserActs, atVars, treeVars, InWindow, atVars
<1>3. ASSUME NEW f \in Files, UserPut(f) PROVE WindowInv'
  BY <1>3 DEF UserPut, UserActs, atVars, treeVars, InWindow
<1>4. ASSUME NEW f \in Files, UserDelete(f) PROVE WindowInv'
  BY <1>4 DEF UserDelete, UserActs, atVars, treeVars, InWindow
<1>5. ASSUME NEW S \in SUBSET Files, Begin(S) PROVE WindowInv'
  BY <1>5 DEF Begin, Goto, atVars, treeVars
<1>6. CASE LookAgain
  BY <1>6 DEF LookAgain, Goto, atVars, treeVars
<1>7. CASE RenameStage
  BY <1>7 DEF RenameStage, Finish, NoTransaction, atVars, treeVars
<1>8. CASE Plan
  BY <1>8 DEF Plan, Finish, NoTransaction, Goto, atVars, treeVars
<1>9. ASSUME NEW p \in Paths, Backup(p) PROVE WindowInv'
  BY <1>9 DEF Backup, atVars, treeVars
<1>10. ASSUME NEW p \in Paths, Verify(p) PROVE WindowInv'
  BY <1>10 DEF Verify, Abort, Goto, atVars, treeVars, PhaseInv
<1>11. ASSUME NEW d \in Dirs, MakeDir(d) PROVE WindowInv'
  BY <1>11 DEF MakeDir, atVars, treeVars
<1>12. CASE Install
  BY <1>12 DEF Install, Wrote, NextItem, Abort, Goto, atVars, treeVars
<1>13. CASE CopyDone
  BY <1>13 DEF CopyDone, NextItem, atVars, treeVars
<1>14. CASE Remove
  BY <1>14 DEF Remove, NextItem, Abort, Goto, atVars, treeVars
<1>15. ASSUME NEW d \in Dirs, RemoveDir(d) PROVE WindowInv'
  BY <1>15 DEF RemoveDir, atVars, treeVars
<1>16. CASE NextPhase
  BY <1>16 DEF NextPhase, Goto, atVars, treeVars
<1>17. CASE Done
  BY <1>17 DEF Done, Finish, NoTransaction, atVars, treeVars
<1>18. CASE FailEarly
  BY <1>18 DEF FailEarly, Fault, Finish, NoTransaction, atVars, treeVars
<1>19. CASE FailApply
  BY <1>19 DEF FailApply, Fault, Abort, Goto, atVars, treeVars, Applying
<1>20. CASE FailAfterInstall
  BY <1>20 DEF FailAfterInstall, Fault, Wrote, Abort, Goto, atVars, treeVars
<1>21. CASE FailReplace
  BY <1>21 DEF FailReplace, Fault, Abort, Goto, atVars, treeVars
<1>22. ASSUME NEW item \in Paths \cup Dirs, FailUndo(item) PROVE WindowInv'
  BY <1>22 DEF FailUndo, Fault, RollsBack, atVars, treeVars
<1>23. ASSUME NEW p \in Paths, UndoFile(p) PROVE WindowInv'
  BY <1>23 DEF UndoFile, RollsBack, atVars, treeVars
<1>24. ASSUME NEW d \in Dirs, UndoRemoveDir(d) PROVE WindowInv'
  BY <1>24 DEF UndoRemoveDir, RollsBack, atVars, treeVars
<1>25. ASSUME NEW d \in Dirs, UndoMakeDir(d) PROVE WindowInv'
  BY <1>25 DEF UndoMakeDir, RollsBack, atVars, treeVars
<1>26. CASE Crash
  BY <1>26 DEF Crash, Finish, NoTransaction, atVars, treeVars
<1>27. QED
  BY <1>1, <1>2, <1>3, <1>4, <1>5, <1>6, <1>7, <1>8, <1>9, <1>10, <1>11,
     <1>12, <1>13, <1>14, <1>15, <1>16, <1>17, <1>18, <1>19, <1>20, <1>21,
     <1>22, <1>23, <1>24, <1>25, <1>26
     DEF Next, D2Next, UserNext, vars, treeVars, txVars, endVars, runVars,
         atVars, UserMakeRoot, UserActs

\* No step of d2 destroys what the user wrote to a path that this run does not
\* generate, provided that nobody writes to a stale file between its last check
\* and its removal: install, copy, removal and rollback only ever change paths
\* of the run, or files that still are what d2 put there.
THEOREM UserFilesKeptHolds ==
    ASSUME WindowOpen = FALSE
    PROVE  Spec => UserFilesKept
<1>1. Init => CoreInv /\ WindowInv
  BY CoreInit DEF Init, WindowInv
<1>2. CoreInv /\ WindowInv /\ [Next]_vars => CoreInv' /\ WindowInv'
  BY CoreNext, WindowNext
<1>3. CoreInv /\ WindowInv /\ [Next]_vars
      => [\A f \in Files \ Now :
             content[f] = User /\ acts' = acts => content'[f] = User]_vars
  <2> SUFFICES ASSUME CoreInv, WindowInv, [Next]_vars,
                      NEW f \in Files \ Now, content[f] = User, acts' = acts
               PROVE  content'[f] = User
    OBVIOUS
  <2>e. /\ PhaseInv /\ CurInv /\ AppliedInv /\ TreeTypes
        /\ f \in Paths /\ f # Manifest
    BY TypeParts, PathAssumption DEF CoreInv, TypeInv, Paths
  <2>a. acts \in Nat
    BY TypeParts, BoundAssumption DEF CoreInv, TypeInv, EndTypes
  <2>c. pc \in {"install", "manifest"} /\ cur # "" => cur \in Now \cup {Manifest}
    BY <2>e DEF PhaseInv
  <2> USE <2>e, ContentFacts DEF TreeTypes, CurInv
  <2>1. CASE UNCHANGED content
    BY <2>1
  <2>2. CASE RenameStage
    BY <2>2 DEF RenameStage, treeVars
  <2>3. CASE Install
    BY <2>3, <2>c DEF Install, Wrote, treeVars
  <2>4. CASE CopyDone
    BY <2>4 DEF CopyDone
  <2>5. CASE Remove
    <3>1. cur \in stale
      BY <2>5 DEF Remove, PhaseInv
    <3>a. content[Manifest] = Old
      BY <2>5, OldManifest DEF Remove, CoreInv, Applying
    <3>b. Old \in Runs
      BY <3>1 DEF PhaseInv, OldListed
    <3>2. content[cur] # User
      BY <2>5, <3>a, <3>b DEF Remove, WindowInv
    <3>3. QED
      BY <2>5, <3>2 DEF Remove
  <2>6. CASE FailAfterInstall
    <3>1. cur # f
      BY <2>6, <2>c DEF FailAfterInstall
    <3>2. \E c : content' = [content EXCEPT ![cur] = c]
      BY <2>6 DEF FailAfterInstall, Wrote
    <3>3. QED
      BY <3>1, <3>2
  <2>7. CASE FailReplace
    BY <2>7, <2>c DEF FailReplace
  <2>8. ASSUME NEW p \in Paths, UndoFile(p) PROVE content'[f] = User
    <3>1. p \in applied
      BY <2>8 DEF UndoFile, RollsBack, PhaseInv
    <3>2. p = f => p \in noInfo
      BY <3>1 DEF AppliedInv, Work
    <3>3. QED
      BY <2>8, <3>2 DEF UndoFile, Ours
  <2>9. ASSUME NEW item \in Paths \cup Dirs, FailUndo(item) PROVE content'[f] = User
    BY <2>9 DEF FailUndo
  <2>10. ASSUME NEW g \in Files, UserEdit(g) \/ UserPut(g) \/ UserDelete(g)
         PROVE  content'[f] = User
    <3>1. acts' = acts + 1
      BY <2>10 DEF UserEdit, UserPut, UserDelete, UserActs
    <3>2. QED
      BY ONLY <2>a, <3>1, acts' = acts
  <2>11. QED
    BY <2>1, <2>2, <2>3, <2>4, <2>5, <2>6, <2>7, <2>8, <2>9, <2>10
       DEF Next, D2Next, UserNext, vars, treeVars, UserMakeRoot, Begin, LookAgain,
           Plan, Backup, Verify, MakeDir, RemoveDir, UndoRemoveDir, UndoMakeDir,
           NextPhase, Done, FailEarly, FailApply, Crash, RollsBack
<1>4. QED
  BY <1>1, <1>2, <1>3, PTL DEF Spec, UserFilesKept

-----------------------------------------------------------------------------
(* Backups and rollback.                                                   *)

\* c is what p held before the run, or what the user made of it since.
Genuine(p, c) == c = before.content[p] \/ (p \in userFiles /\ c \in {User, Absent})

\* The paths whose backup rollback may rely on.
Saved == IF pc = "backup" THEN Work \ todo
         ELSE IF pc \in Applying THEN Work
         ELSE IF pc \in Undoing THEN applied ELSE {}

SavedInv == \A p \in Saved : Genuine(p, backup[p])

\* What rollback has restored, unless a step of it has failed.
RestoreInv ==
    pc \in {"undoFiles", "undoMkdirs"} /\ ~rbErr =>
        \A p \in applied : (pc = "undoFiles" /\ p \in todo) \/ Genuine(p, content[p])

LEMMA SavedFrame ==
    ASSUME SavedInv, Saved' \subseteq Saved, UNCHANGED <<backup, before>>,
           userFiles \subseteq userFiles'
    PROVE  SavedInv'
  BY DEF SavedInv, Genuine

LEMMA SavedNext == CoreInv /\ SavedInv /\ [Next]_vars => SavedInv'
<1> SUFFICES ASSUME CoreInv, SavedInv, [Next]_vars PROVE SavedInv'
  OBVIOUS
<1>e. PhaseInv /\ CurInv /\ AppliedInv /\ EmptyInv
  BY DEF CoreInv, TypeInv
<1>f. /\ applied \subseteq Work /\ (pc = "backup" => applied = {})
      /\ pc \in Applying \ {"backup"} => applied \subseteq Saved
  BY <1>e DEF AppliedInv, Saved, Work
<1>s. ASSUME Saved' = {} PROVE SavedInv'
  BY <1>s DEF SavedInv
<1>i. ASSUME pc' \in {"idle", "first", "plan"} PROVE SavedInv'
  BY <1>s, <1>i DEF Saved, Applying, Undoing
<1> USE SavedFrame, RunFixed DEF Saved, Work, Applying, Undoing
<1>1. CASE UNCHANGED <<txVars, atVars, runVars, userFiles>>
  BY <1>1 DEF vars, treeVars, txVars, endVars, runVars, atVars
<1>2. ASSUME NEW f \in Files, UserEdit(f) PROVE SavedInv'
  BY <1>2 DEF UserEdit, UserActs, txVars, atVars
<1>3. ASSUME NEW f \in Files, UserPut(f) PROVE SavedInv'
  BY <1>3 DEF UserPut, UserActs, txVars, atVars
<1>4. ASSUME NEW f \in Files, UserDelete(f) PROVE SavedInv'
  BY <1>4 DEF UserDelete, UserActs, txVars, atVars
<1>5. ASSUME NEW S \in SUBSET Files, Begin(S) PROVE SavedInv'
  BY <1>5, <1>i DEF Begin, Goto, txVars, atVars
<1>6. CASE LookAgain
  BY <1>6 DEF LookAgain, Goto, txVars, atVars
<1>7. CASE RenameStage
  BY <1>7, <1>i DEF RenameStage, Finish, NoTransaction, txVars, atVars
<1>8. CASE Plan
  <2>1. CASE pc' = "idle"
    BY <2>1, <1>i
  <2>2. CASE pc' # "idle"
    <3>1. pc' = "backup" /\ todo' = Work' 
      BY <1>8, <2>2 DEF Plan, Finish, Goto
    <3>2. QED
      BY <3>1, <1>s
  <2>3. QED
    BY <2>1, <2>2
<1>9. ASSUME NEW p \in Paths, Backup(p) PROVE SavedInv'
  <2>1. /\ pc = "backup" /\ p \in todo /\ Kept(p)
        /\ backup' = [backup EXCEPT ![p] = content[p]]
        /\ UNCHANGED <<runVars, userFiles, stale, pc>> /\ todo' = todo \ {p}
    BY <1>9, <1>e DEF Backup, AppliedInv
  <2>2. Saved' \subseteq Saved \cup {p}
    BY <2>1
  <2>3. backup \in [Paths -> Contents]
    BY TypeParts DEF CoreInv, TypeInv, TxTypes
  <2>4. \A q \in Saved' : Genuine(q, backup'[q])
    BY <2>1, <2>2, <2>3 DEF SavedInv, Genuine, Kept
  <2>5. QED
    BY <2>1, <2>4 DEF SavedInv, Genuine
<1>10. ASSUME NEW p \in Paths, Verify(p) PROVE SavedInv'
  BY <1>10, <1>f DEF Verify, Abort, Goto, txVars, atVars
<1>11. ASSUME NEW d \in Dirs, MakeDir(d) PROVE SavedInv'
  BY <1>11 DEF MakeDir, txVars, atVars
<1>12. CASE Install
  BY <1>12, <1>f DEF Install, Wrote, NextItem, Abort, Goto, txVars, atVars
<1>13. CASE CopyDone
  BY <1>13 DEF CopyDone, NextItem, txVars, atVars
<1>14. CASE Remove
  BY <1>14, <1>f DEF Remove, NextItem, Abort, Goto, txVars, atVars
<1>15. ASSUME NEW d \in Dirs, RemoveDir(d) PROVE SavedInv'
  BY <1>15 DEF RemoveDir, txVars, atVars
<1>16. CASE NextPhase
  BY <1>16 DEF NextPhase, Goto, txVars, atVars
<1>17. CASE Done
  BY <1>17, <1>i DEF Done, Finish, NoTransaction, txVars, atVars
<1>18. CASE FailEarly
  BY <1>18, <1>i DEF FailEarly, Fault, Finish, NoTransaction, txVars, atVars
<1>19. CASE FailApply
  BY <1>19, <1>f DEF FailApply, Fault, Abort, Goto, txVars, atVars
<1>20. CASE FailAfterInstall
  <2>1. /\ pc \in {"install", "manifest"} /\ pc' = "undoDirs"
        /\ applied' = applied \cup {cur}
        /\ UNCHANGED <<backup, runVars, userFiles, stale>>
    BY <1>20 DEF FailAfterInstall, Wrote, Abort, Goto
  <2>2. cur \in Work
    BY <1>20, <2>1, <1>e DEF FailAfterInstall, PhaseInv
  <2>3. Saved' \subseteq Saved
    BY <2>1, <2>2, <1>f
  <2>4. QED
    BY <2>1, <2>3
<1>21. CASE FailReplace
  BY <1>21, <1>e, <1>f DEF FailReplace, Fault, Abort, Goto, txVars, atVars,
         PhaseInv
<1>22. ASSUME NEW item \in Paths \cup Dirs, FailUndo(item) PROVE SavedInv'
  BY <1>22 DEF FailUndo, Fault, RollsBack, txVars, atVars
<1>23. ASSUME NEW p \in Paths, UndoFile(p) PROVE SavedInv'
  BY <1>23 DEF UndoFile, RollsBack, txVars, atVars
<1>24. ASSUME NEW d \in Dirs, UndoRemoveDir(d) PROVE SavedInv'
  BY <1>24 DEF UndoRemoveDir, RollsBack, txVars, atVars
<1>25. ASSUME NEW d \in Dirs, UndoMakeDir(d) PROVE SavedInv'
  BY <1>25 DEF UndoMakeDir, RollsBack, txVars, atVars
<1>26. CASE Crash
  BY <1>26, <1>i DEF Crash, Finish, NoTransaction, txVars, atVars
<1>27. QED
  BY <1>1, <1>2, <1>3, <1>4, <1>5, <1>6, <1>7, <1>8, <1>9, <1>10, <1>11,
     <1>12, <1>13, <1>14, <1>15, <1>16, <1>17, <1>18, <1>19, <1>20, <1>21,
     <1>22, <1>23, <1>24, <1>25, <1>26
     DEF Next, D2Next, UserNext, vars, treeVars, txVars, endVars, runVars,
         atVars, UserMakeRoot, UserActs

LEMMA RestoreNext == CoreInv /\ SavedInv /\ RestoreInv /\ [Next]_vars => RestoreInv'
<1> SUFFICES ASSUME CoreInv, SavedInv, RestoreInv, [Next]_vars PROVE RestoreInv'
  OBVIOUS
<1>e. /\ CurInv /\ TreeTypes /\ applied \subseteq Paths /\ rbErr \in BOOLEAN
      /\ (pc \in Undoing => Saved = applied)
  BY TypeParts DEF CoreInv, TypeInv, TxTypes, Saved, Undoing, Applying
<1>i. ASSUME pc' \notin {"undoFiles", "undoMkdirs"} PROVE RestoreInv'
  BY <1>i DEF RestoreInv
<1>u. ASSUME NEW f \in Files, UNCHANGED <<txVars, atVars, runVars>>,
             userFiles' = userFiles \cup {f},
             content'[f] \in {User, Absent},
             \A q \in Paths \ {f} : content'[q] = content[q]
      PROVE  RestoreInv'
  BY <1>u, <1>e, RunFixed DEF RestoreInv, Genuine, txVars, atVars
<1> USE RunFixed DEF RestoreInv, Genuine
<1>1. CASE UNCHANGED <<content, txVars, atVars, runVars, userFiles>>
  BY <1>1 DEF vars, treeVars, txVars, endVars, runVars, atVars
<1>2. ASSUME NEW f \in Files, UserEdit(f) PROVE RestoreInv'
  BY <1>2, <1>u, <1>e DEF UserEdit, UserActs, txVars, atVars, treeVars,
         TreeTypes, Paths
<1>3. ASSUME NEW f \in Files, UserPut(f) PROVE RestoreInv'
  BY <1>3, <1>u, <1>e DEF UserPut, UserActs, txVars, atVars, treeVars,
         TreeTypes, Paths
<1>4. ASSUME NEW f \in Files, UserDelete(f) PROVE RestoreInv'
  BY <1>4, <1>u, <1>e DEF UserDelete, UserActs, txVars, atVars, treeVars,
         TreeTypes, Paths
<1>5. ASSUME NEW S \in SUBSET Files, Begin(S) PROVE RestoreInv'
  BY <1>5, <1>i DEF Begin, Goto, txVars, atVars, treeVars
<1>6. CASE LookAgain
  BY <1>6, <1>i DEF LookAgain, Goto, txVars, atVars, treeVars
<1>7. CASE RenameStage
  BY <1>7, <1>i DEF RenameStage, Finish, NoTransaction, txVars, atVars,
         treeVars
<1>8. CASE Plan
  BY <1>8, <1>i DEF Plan, Finish, NoTransaction, Goto, txVars, atVars,
         treeVars
<1>9. ASSUME NEW p \in Paths, Backup(p) PROVE RestoreInv'
  <2>1. pc' \notin {"undoFiles", "undoMkdirs"}
    BY <1>9 DEF Backup
  <2>2. QED
    BY <2>1, <1>i
<1>10. ASSUME NEW p \in Paths, Verify(p) PROVE RestoreInv'
  <2>1. pc' \notin {"undoFiles", "undoMkdirs"}
    BY <1>10 DEF Verify, Abort, Goto
  <2>2. QED
    BY <2>1, <1>i
<1>11. ASSUME NEW d \in Dirs, MakeDir(d) PROVE RestoreInv'
  BY <1>11 DEF MakeDir, txVars, atVars, treeVars
<1>12. CASE Install
  <2>1. pc' \notin {"undoFiles", "undoMkdirs"}
    BY <1>12 DEF Install, NextItem, Abort, Goto
  <2>2. QED
    BY <2>1, <1>i
<1>13. CASE CopyDone
  <2>1. pc' \notin {"undoFiles", "undoMkdirs"}
    BY <1>13, <1>e DEF CopyDone, NextItem, CurInv
  <2>2. QED
    BY <2>1, <1>i
<1>14. CASE Remove
  <2>1. pc' \notin {"undoFiles", "undoMkdirs"}
    BY <1>14 DEF Remove, NextItem, Abort, Goto
  <2>2. QED
    BY <2>1, <1>i
<1>15. ASSUME NEW d \in Dirs, RemoveDir(d) PROVE RestoreInv'
  BY <1>15 DEF RemoveDir, txVars, atVars, treeVars
<1>16. CASE NextPhase
  BY <1>16 DEF NextPhase, Goto, txVars, atVars, treeVars
<1>17. CASE Done
  BY <1>17, <1>i DEF Done, Finish, NoTransaction, txVars, atVars, treeVars
<1>18. CASE FailEarly
  BY <1>18, <1>i DEF FailEarly, Fault, Finish, NoTransaction, txVars, atVars,
         treeVars
<1>19. CASE FailApply
  BY <1>19, <1>i DEF FailApply, Fault, Abort, Goto, txVars, atVars, treeVars
<1>20. CASE FailAfterInstall
  BY <1>20, <1>i DEF FailAfterInstall, Fault, Wrote, Abort, Goto, txVars,
         atVars, treeVars
<1>21. CASE FailReplace
  BY <1>21, <1>i DEF FailReplace, Fault, Abort, Goto, txVars, atVars, treeVars
<1>22. ASSUME NEW item \in Paths \cup Dirs, FailUndo(item) PROVE RestoreInv'
  <2>1. rbErr' = TRUE
    BY <1>22 DEF FailUndo
  <2>2. QED
    BY <2>1
<1>23. ASSUME NEW p \in Paths, UndoFile(p) PROVE RestoreInv'
  <2>1. /\ pc = "undoFiles" /\ pc' = pc /\ todo' = todo \ {p} /\ p \in todo
        /\ UNCHANGED <<applied, runVars, userFiles, backup>>
    BY <1>23 DEF UndoFile, RollsBack
  <2>2. CASE Ours(p) /\ (Existed(p) => Writable(p))
    <3>1. rbErr' = rbErr /\ content' = [content EXCEPT ![p] = backup[p]]
      BY <1>23, <2>2 DEF UndoFile
    <3>2. p \in applied => Genuine(p, backup[p])
      BY <1>e, <2>1 DEF SavedInv, Undoing
    <3>3. QED
      BY <1>e, <2>1, <3>1, <3>2 DEF TreeTypes
  <2>3. CASE ~(Ours(p) /\ (Existed(p) => Writable(p)))
    <3>1. rbErr' = TRUE
      BY <1>23, <2>3 DEF UndoFile
    <3>2. QED
      BY <3>1
  <2>4. QED
    BY <2>2, <2>3
<1>24. ASSUME NEW d \in Dirs, UndoRemoveDir(d) PROVE RestoreInv'
  BY <1>24 DEF UndoRemoveDir, RollsBack, txVars, atVars, treeVars
<1>25. ASSUME NEW d \in Dirs, UndoMakeDir(d) PROVE RestoreInv'
  BY <1>25 DEF UndoMakeDir, RollsBack, txVars, atVars, treeVars
<1>26. CASE Crash
  BY <1>26, <1>i DEF Crash, Finish, NoTransaction, txVars, atVars, treeVars
<1>27. QED
  BY <1>1, <1>2, <1>3, <1>4, <1>5, <1>6, <1>7, <1>8, <1>9, <1>10, <1>11,
     <1>12, <1>13, <1>14, <1>15, <1>16, <1>17, <1>18, <1>19, <1>20, <1>21,
     <1>22, <1>23, <1>24, <1>25, <1>26
     DEF Next, D2Next, UserNext, vars, treeVars, txVars, endVars, runVars,
         atVars, UserMakeRoot, UserActs

\* The directories that exist, as long as no step of rollback has failed: what
\* there was, and what the transaction has made, without what it has removed.
DirInv ==
    /\ madeDirs \subseteq DirsOf(Now) \ before.dirs
    /\ goneDirs \subseteq before.dirs \cap OldGone
    /\ pc \in Early \cup Applying => dirs = (before.dirs \cup madeDirs) \ goneDirs
    /\ pc = "undoDirs" /\ ~rbErr => dirs = (before.dirs \cup madeDirs) \ todo
    /\ pc = "undoFiles" /\ ~rbErr => dirs = before.dirs \cup madeDirs
    /\ pc = "undoMkdirs" /\ ~rbErr => dirs = before.dirs \cup todo


LEMMA DirNext == CoreInv /\ DirInv /\ [Next]_vars => DirInv'
<1> SUFFICES ASSUME CoreInv, DirInv, [Next]_vars, EmptyInv' PROVE DirInv'
  BY CoreNext DEF CoreInv, TypeInv
<1>e. PhaseInv /\ CurInv /\ EmptyInv
  BY DEF CoreInv, TypeInv
<1>i. ASSUME pc' = "idle" PROVE DirInv'
  BY <1>i DEF DirInv, EmptyInv, Early, Applying
<1>a. ASSUME Abort, dirs' = dirs, pc \in Applying PROVE DirInv'
  <2>1. /\ UNCHANGED <<madeDirs, goneDirs, runVars>>
        /\ pc' = "undoDirs" /\ todo' = goneDirs
    BY <1>a DEF Abort, Goto
  <2>2. QED
    BY <1>a, <2>1, RunFixed DEF DirInv, Early, Applying
<1>f. ASSUME UNCHANGED <<dirs, madeDirs, goneDirs, pc, runVars>>, todo' = todo,
             rbErr' = rbErr
      PROVE  DirInv'
  BY <1>f, RunFixed DEF DirInv
<1>d. OldGone \cap DirsOf(Now) = {}
  BY DEF OldGone
<1> USE <1>e, RunFixed DEF DirInv, Early, Applying, EmptyInv
<1>1. CASE UNCHANGED <<dirs, txVars, atVars, runVars>>
  BY <1>1 DEF vars, treeVars, txVars, endVars, runVars, atVars
<1>2. ASSUME NEW S \in SUBSET Files, Begin(S) PROVE DirInv'
  BY <1>2 DEF Begin, Goto, txVars, atVars, treeVars
<1>3. CASE LookAgain
  BY <1>3 DEF LookAgain, Goto, txVars, atVars, treeVars
<1>4. CASE RenameStage
  BY <1>4, <1>i DEF RenameStage, Finish, NoTransaction, txVars, atVars,
         treeVars
<1>5. CASE Plan
  BY <1>5 DEF Plan, Finish, NoTransaction, Goto, txVars, atVars, treeVars
<1>6. ASSUME NEW p \in Paths, Backup(p) PROVE DirInv'
  BY <1>6 DEF Backup, txVars, atVars, treeVars
<1>7. ASSUME NEW p \in Paths, Verify(p) PROVE DirInv'
  BY <1>7 DEF Verify, Abort, Goto, txVars, atVars, treeVars
<1>8. ASSUME NEW d \in Dirs, MakeDir(d) PROVE DirInv'
  <2>1. d \in DirsOf(Now) /\ d \notin goneDirs
    BY <1>8, <1>d DEF MakeDir, PhaseInv
  <2>2. QED
    BY <1>8, <2>1 DEF MakeDir
<1>9. CASE Install
  BY <1>9 DEF Install, Wrote, NextItem, Abort, Goto, txVars, atVars, treeVars
<1>10. CASE CopyDone
  BY <1>10 DEF CopyDone, NextItem, txVars, atVars, treeVars
<1>11. CASE Remove
  BY <1>11 DEF Remove, NextItem, Abort, Goto, txVars, atVars, treeVars
<1>12. ASSUME NEW d \in Dirs, RemoveDir(d) PROVE DirInv'
  <2>1. d \in OldGone /\ d \notin madeDirs
    BY <1>12, <1>d DEF RemoveDir, PhaseInv
  <2>2. QED
    BY <1>12, <2>1 DEF RemoveDir
<1>13. CASE NextPhase
  BY <1>13 DEF NextPhase, Goto, txVars, atVars, treeVars
<1>14. CASE Done
  BY <1>14, <1>i DEF Done, Finish, NoTransaction, txVars, atVars, treeVars
<1>15. CASE FailEarly
  BY <1>15, <1>i DEF FailEarly, Fault, Finish, NoTransaction, txVars, atVars,
         treeVars
<1>16. CASE FailApply
  BY <1>16, <1>a DEF FailApply, Fault, Abort, Goto, txVars, atVars, treeVars
<1>17. CASE FailAfterInstall
  BY <1>17 DEF FailAfterInstall, Fault, Wrote, Abort, Goto, txVars, atVars,
         treeVars
<1>18. CASE FailReplace
  BY <1>18 DEF FailReplace, Fault, Abort, Goto, txVars, atVars, treeVars
<1>19. ASSUME NEW item \in Paths \cup Dirs, FailUndo(item) PROVE DirInv'
  BY <1>19 DEF FailUndo, Fault, RollsBack, txVars, atVars, treeVars
<1>20. ASSUME NEW p \in Paths, UndoFile(p) PROVE DirInv'
  BY <1>20 DEF UndoFile, RollsBack, txVars, atVars, treeVars
<1>21. ASSUME NEW d \in Dirs, UndoRemoveDir(d) PROVE DirInv'
  <2>1. d \in before.dirs /\ d \in todo
    BY <1>21 DEF UndoRemoveDir, RollsBack, PhaseInv
  <2>2. QED
    BY <1>21, <2>1 DEF UndoRemoveDir, RollsBack
<1>22. ASSUME NEW d \in Dirs, UndoMakeDir(d) PROVE DirInv'
  <2>1. d \notin before.dirs /\ d \in todo
    BY <1>22 DEF UndoMakeDir, RollsBack, PhaseInv
  <2>2. QED
    BY <1>22, <2>1 DEF UndoMakeDir, RollsBack
<1>23. CASE Crash
  BY <1>23, <1>i DEF Crash, Finish, NoTransaction, txVars, atVars, treeVars
<1>24. QED
  BY <1>1, <1>2, <1>3, <1>4, <1>5, <1>6, <1>7, <1>8, <1>9, <1>10, <1>11,
     <1>12, <1>13, <1>14, <1>15, <1>16, <1>17, <1>18, <1>19, <1>20, <1>21,
     <1>22, <1>23
     DEF Next, D2Next, UserNext, vars, treeVars, txVars, endVars, runVars,
         atVars, UserEdit, UserActs, UserPut, UserDelete, UserMakeRoot

\* What a publication that failed, and says that it touched nothing, leaves.
FailedInv ==
    pc = "idle" /\ outcome = "error" /\ ~touched =>
        (\A p \in Paths : Genuine(p, content[p])) /\ dirs = before.dirs

\* An early end, before anything is changed.
LEMMA FailedEarly ==
    ASSUME CoreInv, DirInv, pc \in Early, UNCHANGED <<content, dirs, runVars, userFiles>>
    PROVE  FailedInv'
<1>1. pc # "idle" /\ applied = {} /\ madeDirs = {} /\ goneDirs = {}
  BY DEF CoreInv, TypeInv, EmptyInv, Early
<1>2. \A p \in Paths : Kept(p)
  BY <1>1 DEF CoreInv, AppliedInv
<1>3. dirs = before.dirs
  BY <1>1 DEF DirInv, Early
<1>4. QED
  BY <1>2, <1>3, RunFixed DEF FailedInv, Genuine, Kept


LEMMA FailedNext == CoreInv /\ RestoreInv /\ DirInv /\ FailedInv /\ [Next]_vars => FailedInv'
<1> SUFFICES ASSUME CoreInv, RestoreInv, DirInv, FailedInv, [Next]_vars
             PROVE  FailedInv'
  OBVIOUS
<1>i. ASSUME pc' # "idle" \/ outcome' # "error" PROVE FailedInv'
  BY <1>i DEF FailedInv
<1>a. ASSUME Abort PROVE FailedInv'
  BY <1>a, <1>i DEF Abort, Goto
<1>p. ASSUME pc # "idle", pc' = pc PROVE FailedInv'
  BY <1>p, <1>i
<1>c. CurInv /\ TreeTypes
  BY TypeParts DEF CoreInv, TypeInv
<1>u. ASSUME NEW f \in Files, UNCHANGED <<dirs, pc, outcome, touched, before>>,
             userFiles' = userFiles \cup {f},
             content'[f] \in {User, Absent},
             \A q \in Paths \ {f} : content'[q] = content[q]
      PROVE  FailedInv'
  BY <1>u DEF FailedInv, Genuine
<1>1. CASE UNCHANGED <<content, dirs, pc, outcome, touched, before, userFiles>>
  BY <1>1 DEF vars, treeVars, txVars, endVars, runVars, atVars, FailedInv,
         Genuine
<1>2. ASSUME NEW f \in Files, UserEdit(f) PROVE FailedInv'
  BY <1>2, <1>u, <1>c DEF UserEdit, UserActs, TreeTypes, Paths, atVars,
         endVars, runVars
<1>3. ASSUME NEW f \in Files, UserPut(f) PROVE FailedInv'
  BY <1>3, <1>u, <1>c DEF UserPut, UserActs, TreeTypes, Paths, atVars,
         endVars, runVars
<1>4. ASSUME NEW f \in Files, UserDelete(f) PROVE FailedInv'
  BY <1>4, <1>u, <1>c DEF UserDelete, UserActs, TreeTypes, Paths, atVars,
         endVars, runVars
<1>5. ASSUME NEW S \in SUBSET Files, Begin(S) PROVE FailedInv'
  BY <1>5, <1>i DEF Begin, Goto
<1>6. CASE LookAgain
  BY <1>6, <1>i DEF LookAgain, Goto
<1>7. CASE RenameStage
  <2>1. CASE Finish("ok", TRUE)
    BY <1>i, <2>1 DEF Finish
  <2>2. CASE UNCHANGED treeVars /\ Finish("error", FALSE)
    BY <1>7, <2>2, FailedEarly DEF RenameStage, Finish, Early, treeVars
  <2>3. QED
    BY <1>7, <2>1, <2>2 DEF RenameStage
<1>8. CASE Plan
  <2>1. CASE Finish("error", FALSE)
    BY <1>8, <2>1, FailedEarly DEF Plan, Finish, Early, treeVars
  <2>2. CASE ~Finish("error", FALSE)
    <3>1. pc' = "backup"
      BY <1>8, <2>2 DEF Plan, Goto
    <3>2. QED
      BY <1>i, <3>1
  <2>3. QED
    BY <2>1, <2>2
<1>9. ASSUME NEW p \in Paths, Backup(p) PROVE FailedInv'
  BY <1>9, <1>p DEF Backup
<1>10. ASSUME NEW p \in Paths, Verify(p) PROVE FailedInv'
  <2>1. CASE Abort
    BY <1>a, <2>1
  <2>2. CASE ~Abort
    BY <1>10, <1>p, <2>2 DEF Verify
  <2>3. QED
    BY <2>1, <2>2
<1>11. ASSUME NEW d \in Dirs, MakeDir(d) PROVE FailedInv'
  BY <1>11, <1>p DEF MakeDir
<1>12. CASE Install
  <2>1. CASE Abort
    BY <1>a, <2>1
  <2>2. CASE ~Abort
    BY <1>12, <1>p, <2>2 DEF Install, NextItem
  <2>3. QED
    BY <2>1, <2>2
<1>13. CASE CopyDone
  BY <1>13, <1>p, <1>c DEF CopyDone, NextItem, CurInv
<1>14. CASE Remove
  <2>1. CASE Abort
    BY <1>a, <2>1
  <2>2. CASE ~Abort
    BY <1>14, <1>p, <2>2 DEF Remove, NextItem
  <2>3. QED
    BY <2>1, <2>2
<1>15. ASSUME NEW d \in Dirs, RemoveDir(d) PROVE FailedInv'
  BY <1>15, <1>p DEF RemoveDir
<1>16. CASE NextPhase
  BY <1>16, <1>i DEF NextPhase, Goto
<1>17. CASE Done
  <2>1. CASE Finish("ok", TRUE)
    BY <1>i, <2>1 DEF Finish
  <2>2. CASE pc = "undoMkdirs" /\ Finish("error", rbErr)
    <3>1. touched' = rbErr /\ UNCHANGED <<content, dirs, runVars, userFiles>> /\ todo = {}
      BY <1>17, <2>2 DEF Done, Finish, treeVars
    <3>2. SUFFICES ASSUME ~rbErr PROVE FailedInv'
      BY <3>1 DEF FailedInv
    <3>3. dirs = before.dirs
      BY <2>2, <3>1, <3>2 DEF DirInv
    <3>4. \A p \in applied : Genuine(p, content[p])
      BY <2>2, <3>2 DEF RestoreInv
    <3>5. \A p \in Paths \ applied : Kept(p)
      BY <2>2 DEF CoreInv, AppliedInv
    <3>6. QED
      BY <3>1, <3>3, <3>4, <3>5, RunFixed DEF FailedInv, Genuine, Kept
  <2>3. QED
    BY <1>17, <2>1, <2>2 DEF Done
<1>18. CASE FailEarly
  BY <1>18, FailedEarly DEF FailEarly, Fault, Finish, NoTransaction, Early,
         treeVars
<1>19. CASE FailApply
  BY <1>19, <1>a DEF FailApply, Fault, Abort, Goto
<1>20. CASE FailAfterInstall
  BY <1>20, <1>a DEF FailAfterInstall, Fault, Wrote, Abort, Goto
<1>21. CASE FailReplace
  BY <1>21, <1>a DEF FailReplace, Fault, Abort, Goto
<1>22. ASSUME NEW item \in Paths \cup Dirs, FailUndo(item) PROVE FailedInv'
  BY <1>22, <1>p DEF FailUndo, Fault, RollsBack
<1>23. ASSUME NEW p \in Paths, UndoFile(p) PROVE FailedInv'
  BY <1>23, <1>p DEF UndoFile, RollsBack
<1>24. ASSUME NEW d \in Dirs, UndoRemoveDir(d) PROVE FailedInv'
  BY <1>24, <1>p DEF UndoRemoveDir, RollsBack
<1>25. ASSUME NEW d \in Dirs, UndoMakeDir(d) PROVE FailedInv'
  BY <1>25, <1>p DEF UndoMakeDir, RollsBack
<1>26. CASE Crash
  BY <1>26, <1>i DEF Crash, Finish, NoTransaction
<1>27. QED
  BY <1>1, <1>2, <1>3, <1>4, <1>5, <1>6, <1>7, <1>8, <1>9, <1>10, <1>11,
     <1>12, <1>13, <1>14, <1>15, <1>16, <1>17, <1>18, <1>19, <1>20, <1>21,
     <1>22, <1>23, <1>24, <1>25, <1>26
     DEF Next, D2Next, UserNext, vars, treeVars, txVars, endVars, runVars,
         atVars, UserMakeRoot, UserActs

\* When publishBoardOutputWorkspace fails and reports nothing touched, every file
\* the user left alone and every directory is what it was: rollback undoes
\* whatever apply had done when it failed, at any point and with any mixture of
\* replaced, created and removed files.
THEOREM RestoredOnFailureHolds == Spec => []RestoredOnFailure
<1> DEFINE IInv == CoreInv /\ SavedInv /\ RestoreInv /\ DirInv /\ FailedInv
<1>1. Init => IInv
  <2>1. Init => SavedInv /\ RestoreInv /\ FailedInv
    BY DEF Init, SavedInv, Saved, RestoreInv, FailedInv, Applying, Undoing
  <2>2. Init => DirInv
    BY DEF Init, DirInv, Early, Applying
  <2>3. QED
    BY <2>1, <2>2, CoreInit
<1>2. IInv /\ [Next]_vars => IInv'
  BY CoreNext, SavedNext, RestoreNext, DirNext, FailedNext
<1>3. IInv => RestoredOnFailure
  BY DEF FailedInv, Genuine, RestoredOnFailure
<1>4. QED
  BY <1>1, <1>2, <1>3, PTL DEF Spec

-----------------------------------------------------------------------------
(* A publication that succeeds.                                            *)

\* The files that are no longer generated and still are as they were generated.
Dropped == {f \in OldListed \ Now : before.content[f] = Old}

\* The plan removes those, but for what the user has touched; and it only drops
\* a removal because of the user.
PlanInv ==
    pc \in Applying =>
        /\ \A f \in Files \ userFiles : f \in stale <=> f \in Dropped
        /\ skip \subseteq userFiles

\* What the files look like that apply has changed.
Written(p) == IF copying /\ p = cur THEN Partial
              ELSE IF p \in stale THEN Absent ELSE run

WrittenInv ==
    pc \in Applying =>
        \A p \in applied : \/ content[p] = Written(p)
                           \/ p \in userFiles /\ content[p] \in {User, Absent}

\* What apply has already changed in each phase.
VisitInv ==
    /\ pc \in {"install", "remove", "rmdirs", "manifest"} =>
         \A f \in Now : f \in applied \/ (pc = "install" /\ f \in todo \cup {cur})
    /\ pc \in {"remove", "rmdirs", "manifest"} =>
         \A f \in stale \ userFiles :
             f \in applied \/ (pc = "remove" /\ f \in todo \cup {cur})
    /\ pc = "manifest" => Manifest \in applied \cup todo \cup {cur}

\* An untouched stale file still is what the previous run generated.
LEMMA StaleKept ==
    ASSUME CoreInv, PlanInv, pc \in Applying \ {"manifest"},
           NEW p \in stale \ userFiles, p \notin applied
    PROVE  content[p] = content[Manifest] /\ content[p] = Old /\ before.content[p] = Old
           /\ Old \in Runs
<1>1. p \in Files /\ p \in Paths /\ pc # "idle"
  BY TypeParts DEF CoreInv, TypeInv, TxTypes, Paths, Applying
<1>2. before.content[p] = Old /\ p \in OldListed
  BY <1>1 DEF PlanInv, Dropped
<1>3. content[p] = before.content[p]
  BY <1>1 DEF CoreInv, AppliedInv, Kept
<1>4. content[Manifest] = Old
  BY OldManifest DEF CoreInv
<1>5. Old \in Runs
  BY <1>2 DEF OldListed
<1>6. QED
  BY <1>2, <1>3, <1>4, <1>5


LEMMA PlanNext == CoreInv /\ PlanInv /\ [Next]_vars => PlanInv'
<1> SUFFICES ASSUME CoreInv, PlanInv, [Next]_vars PROVE PlanInv'
  OBVIOUS
<1>i. ASSUME pc' \notin Applying PROVE PlanInv'
  BY <1>i DEF PlanInv
<1>j. ASSUME pc' \in Early \cup Undoing \cup {"idle"} PROVE PlanInv'
  BY <1>i, <1>j DEF Early, Undoing, Applying
<1>f. ASSUME pc \in Applying \/ pc' = pc, UNCHANGED <<stale, runVars>>,
             userFiles \subseteq userFiles', skip' \subseteq userFiles' \cup skip
      PROVE  PlanInv'
  <2>1. Dropped' = Dropped
    BY <1>f, RunFixed DEF Dropped
  <2>2. QED
    BY <1>f, <2>1 DEF PlanInv
<1>a. ASSUME Abort PROVE PlanInv'
  BY <1>a, <1>j DEF Abort, Goto, Undoing
<1>c. CurInv /\ AppliedInv /\ PhaseInv /\ EmptyInv
  BY DEF CoreInv, TypeInv
<1>1. CASE UNCHANGED <<pc, stale, skip, runVars, userFiles>>
  BY <1>1
     DEF vars, treeVars, txVars, endVars, runVars, atVars, PlanInv, Dropped,
         Now, Old, OldListed
<1>2. ASSUME NEW f \in Files, UserEdit(f) PROVE PlanInv'
  BY <1>2, <1>f DEF UserEdit, UserActs, atVars, txVars
<1>3. ASSUME NEW f \in Files, UserPut(f) PROVE PlanInv'
  BY <1>3, <1>f DEF UserPut, UserActs, atVars, txVars
<1>4. ASSUME NEW f \in Files, UserDelete(f) PROVE PlanInv'
  BY <1>4, <1>f DEF UserDelete, UserActs, atVars, txVars
<1>5. ASSUME NEW S \in SUBSET Files, Begin(S) PROVE PlanInv'
  BY <1>5, <1>j DEF Begin, Goto, Early
<1>6. CASE LookAgain
  BY <1>6, <1>j DEF LookAgain, Goto, Early
<1>7. CASE RenameStage
  BY <1>7, <1>j DEF RenameStage, Finish, NoTransaction
<1>8. CASE Plan
  <2>1. CASE Finish("error", FALSE)
    BY <2>1, <1>j DEF Finish
  <2>2. CASE ~Finish("error", FALSE)
    <3>1. /\ UNCHANGED <<runVars, userFiles, skip>> /\ pc = "plan"
          /\ stale' = {f \in Listed \ Now : content[f] = content[Manifest]}
      BY <1>8, <2>2 DEF Plan
    <3>2. Listed = OldListed /\ content[Manifest] = Old /\ skip = {} /\ applied = {}
      BY <3>1, <1>c, OldManifest DEF Early, EmptyInv, CoreInv
    <3>3. \A f \in Files \ userFiles : content[f] = before.content[f]
      BY <3>1, <3>2, <1>c DEF AppliedInv, Kept, Paths
    <3>4. Dropped' = Dropped
      BY <3>1, RunFixed DEF Dropped
    <3>5. QED
      BY <3>1, <3>2, <3>3, <3>4 DEF PlanInv, Dropped
  <2>3. QED
    BY <2>1, <2>2
<1>9. ASSUME NEW p \in Paths, Backup(p) PROVE PlanInv'
  <2>1. skip' \subseteq userFiles \cup skip
    BY <1>9, <1>c, StaleKept DEF Backup, AppliedInv, Applying
  <2>2. QED
    BY <1>9, <1>f, <2>1 DEF Backup
<1>10. ASSUME NEW p \in Paths, Verify(p) PROVE PlanInv'
  <2>1. CASE Abort
    BY <1>a, <2>1
  <2>2. CASE ~Abort
    <3>1. skip' \subseteq userFiles \cup skip
      <4>1. p \in todo /\ p \in Paths /\ pc \in {"install", "remove", "manifest"}
        BY <1>10 DEF Verify
      <4>2. p \in stale => p # Manifest
        BY TypeParts, PathAssumption DEF CoreInv, TypeInv, TxTypes
      <4>3. p \in stale => pc # "manifest"
        BY <4>1, <4>2, <1>c DEF PhaseInv
      <4>4. p \notin applied
        BY <4>1, <1>c DEF AppliedInv
      <4>5. p \in stale /\ content[p] # content[Manifest] => p \in userFiles
        BY <4>1, <4>3, <4>4, StaleKept DEF Applying
      <4>6. QED
        BY <1>10, <2>2, <4>5 DEF Verify
    <3>2. QED
      BY <1>10, <2>2, <1>f, <3>1 DEF Verify
  <2>3. QED
    BY <2>1, <2>2
<1>11. ASSUME NEW d \in Dirs, MakeDir(d) PROVE PlanInv'
  BY <1>11, <1>f DEF MakeDir
<1>12. CASE Install
  <2>1. CASE Abort
    BY <1>a, <2>1
  <2>2. CASE ~Abort
    BY <1>12, <1>f, <2>2 DEF Install, NextItem
  <2>3. QED
    BY <2>1, <2>2
<1>13. CASE CopyDone
  BY <1>13, <1>f DEF CopyDone, NextItem, NextItem
<1>14. CASE Remove
  <2>1. CASE Abort
    BY <1>a, <2>1
  <2>2. CASE ~Abort
    BY <1>14, <1>f, <2>2 DEF Remove, NextItem
  <2>3. QED
    BY <2>1, <2>2
<1>15. ASSUME NEW d \in Dirs, RemoveDir(d) PROVE PlanInv'
  BY <1>15, <1>f DEF RemoveDir
<1>16. CASE NextPhase
  <2>1. UNCHANGED <<stale, skip, runVars, userFiles>>
    BY <1>16 DEF NextPhase, txVars
  <2>2. pc \in Applying \/ pc' \in Undoing
    BY <1>16 DEF NextPhase, Goto, Applying, Undoing
  <2>3. QED
    BY <1>f, <1>j, <2>1, <2>2
<1>17. CASE Done
  BY <1>17, <1>j DEF Done, Finish, NoTransaction
<1>18. CASE FailEarly
  BY <1>18, <1>j DEF FailEarly, Fault, Finish, NoTransaction
<1>19. CASE FailApply
  BY <1>19, <1>a DEF FailApply, Fault, Abort, Goto
<1>20. CASE FailAfterInstall
  BY <1>20, <1>a DEF FailAfterInstall, Fault, Wrote, Abort, Goto
<1>21. CASE FailReplace
  BY <1>21, <1>a DEF FailReplace, Fault, Abort, Goto
<1>22. ASSUME NEW item \in Paths \cup Dirs, FailUndo(item) PROVE PlanInv'
  BY <1>22, <1>f DEF FailUndo, Fault, RollsBack
<1>23. ASSUME NEW p \in Paths, UndoFile(p) PROVE PlanInv'
  BY <1>23, <1>f DEF UndoFile, RollsBack
<1>24. ASSUME NEW d \in Dirs, UndoRemoveDir(d) PROVE PlanInv'
  BY <1>24, <1>f DEF UndoRemoveDir, RollsBack
<1>25. ASSUME NEW d \in Dirs, UndoMakeDir(d) PROVE PlanInv'
  BY <1>25, <1>f DEF UndoMakeDir, RollsBack
<1>26. CASE Crash
  BY <1>26, <1>j DEF Crash, Finish, NoTransaction
<1>27. QED
  BY <1>1, <1>2, <1>3, <1>4, <1>5, <1>6, <1>7, <1>8, <1>9, <1>10, <1>11,
     <1>12, <1>13, <1>14, <1>15, <1>16, <1>17, <1>18, <1>19, <1>20, <1>21,
     <1>22, <1>23, <1>24, <1>25, <1>26
     DEF Next, D2Next, UserNext, vars, treeVars, txVars, endVars, runVars,
         atVars, UserMakeRoot, UserActs

LEMMA WrittenNext == CoreInv /\ WrittenInv /\ [Next]_vars => WrittenInv'
<1> SUFFICES ASSUME CoreInv, WrittenInv, [Next]_vars PROVE WrittenInv'
  OBVIOUS
<1>j. ASSUME pc' \in Early \cup Undoing \cup {"idle"} PROVE WrittenInv'
  BY <1>j DEF Early, Undoing, Applying, WrittenInv
<1>a. ASSUME Abort PROVE WrittenInv'
  BY <1>a, <1>j DEF Abort, Goto, Undoing
<1>c. /\ CurInv /\ AppliedInv /\ PhaseInv /\ EmptyInv /\ TreeTypes
      /\ applied \subseteq Paths /\ stale \subseteq Files /\ Now \subseteq Files
      /\ "" \notin Paths /\ Manifest \notin Files
  BY TypeParts, NowType, PathAssumption
     DEF CoreInv, TypeInv, TxTypes, Paths, Manifest
<1>f. ASSUME pc \in Applying, UNCHANGED <<content, stale, applied, run, userFiles>>,
             ~copying, ~copying'
      PROVE  WrittenInv'
  BY <1>f DEF WrittenInv, Written
<1>u. ASSUME NEW f \in Files, UNCHANGED <<pc, cur, copying, stale, applied, run>>,
             userFiles' = userFiles \cup {f},
             content'[f] \in {User, Absent},
             \A q \in Paths \ {f} : content'[q] = content[q]
      PROVE  WrittenInv'
  BY <1>u, <1>c DEF WrittenInv, Written
\* One path has been changed.
<1>w. ASSUME pc \in Applying, UNCHANGED <<stale, run, userFiles>>, ~copying,
             applied' = applied \cup {cur}, cur \notin applied,
             \A q \in Paths \ {cur} : content'[q] = content[q],
             content'[cur] = IF copying' THEN Partial
                             ELSE IF cur \in stale THEN Absent ELSE run,
             cur' = "" \/ cur' = cur, copying' => cur' = cur
      PROVE  WrittenInv'
  <2> SUFFICES ASSUME NEW p \in applied', pc' \in Applying
               PROVE  \/ content'[p] = Written(p)'
                      \/ p \in userFiles' /\ content'[p] \in {User, Absent}
    BY DEF WrittenInv
  <2>1. CASE p = cur
    BY <1>w, <2>1 DEF Written
  <2>2. CASE p # cur
    <3>1. p \in applied /\ p \in Paths /\ p # "" /\ content'[p] = content[p]
      BY <1>w, <1>c, <2>2
    <3>2. Written(p) = Written(p)'
      BY <1>w, <2>2, <3>1 DEF Written
    <3>3. QED
      BY <1>w, <3>1, <3>2 DEF WrittenInv
  <2>3. QED
    BY <2>1, <2>2
<1>1. CASE UNCHANGED <<content, pc, cur, copying, stale, applied, run, userFiles>>
  BY <1>1
     DEF vars, treeVars, txVars, endVars, runVars, atVars, WrittenInv,
         Written, User, Absent, Partial
<1>2. ASSUME NEW f \in Files, UserEdit(f) PROVE WrittenInv'
  BY <1>2, <1>u, <1>c DEF UserEdit, UserActs, TreeTypes, Paths, atVars,
         txVars, runVars
<1>3. ASSUME NEW f \in Files, UserPut(f) PROVE WrittenInv'
  BY <1>3, <1>u, <1>c DEF UserPut, UserActs, TreeTypes, Paths, atVars, txVars,
         runVars
<1>4. ASSUME NEW f \in Files, UserDelete(f) PROVE WrittenInv'
  BY <1>4, <1>u, <1>c DEF UserDelete, UserActs, TreeTypes, Paths, atVars,
         txVars, runVars
<1>5. ASSUME NEW S \in SUBSET Files, Begin(S) PROVE WrittenInv'
  BY <1>5, <1>j DEF Begin, Goto, Early
<1>6. CASE LookAgain
  BY <1>6, <1>j DEF LookAgain, Goto, Early
<1>7. CASE RenameStage
  BY <1>7, <1>j DEF RenameStage, Finish, NoTransaction
<1>8. CASE Plan
  <2>1. pc' = "idle" \/ applied' = {}
    BY <1>8, <1>c DEF Plan, Finish, EmptyInv, Early
  <2>2. QED
    BY <2>1, <1>j DEF WrittenInv
<1>9. ASSUME NEW p \in Paths, Backup(p) PROVE WrittenInv'
  <2>1. ~copying /\ ~copying' /\ pc \in Applying
    BY <1>9, <1>c DEF Backup, CurInv, Applying
  <2>2. QED
    BY <1>9, <1>f, <2>1 DEF Backup, runVars
<1>10. ASSUME NEW p \in Paths, Verify(p) PROVE WrittenInv'
  <2>1. CASE Abort
    BY <1>a, <2>1
  <2>2. CASE ~Abort
    <3>1. cur = "" /\ copying' = copying /\ pc \in Applying
      BY <1>10, <2>2 DEF Verify, Applying
    <3>a. ~copying /\ ~copying'
      BY <3>1, <1>c DEF CurInv
    <3>2. QED
      BY <1>10, <1>f, <2>2, <3>1, <3>a DEF Verify, treeVars, runVars
  <2>3. QED
    BY <2>1, <2>2
<1>11. ASSUME NEW d \in Dirs, MakeDir(d) PROVE WrittenInv'
  <2>1. ~copying /\ ~copying' /\ pc \in Applying
    BY <1>11, <1>c DEF MakeDir, CurInv, Applying
  <2>2. QED
    BY <1>11, <1>f, <2>1 DEF MakeDir, runVars
<1>12. CASE Install
  <2>1. CASE Abort
    BY <1>a, <2>1
  <2>2. CASE ~Abort
    <3>1. /\ pc \in {"install", "manifest"} /\ cur # "" /\ ~copying /\ cur \in Paths
          /\ cur \notin stale /\ cur \notin applied
      BY <1>12, <1>c DEF Install, PhaseInv, AppliedInv, Paths
    <3>2. CASE Wrote(cur, run) /\ NextItem
      <4>1. /\ content'[cur] = run
            /\ \A q \in Paths \ {cur} : content'[q] = content[q]
            /\ UNCHANGED <<stale, run, userFiles>> /\ cur' = "" /\ ~copying'
        BY <1>c, <3>1, <3>2 DEF Wrote, NextItem, TreeTypes, runVars
      <4>2. QED
        BY <1>w, <3>1, <3>2, <4>1 DEF Wrote, Applying
    <3>3. CASE Wrote(cur, Partial) /\ copying' = TRUE
               /\ UNCHANGED <<cur, stale, runVars, userFiles>>
      <4>1. /\ content'[cur] = Partial
            /\ \A q \in Paths \ {cur} : content'[q] = content[q]
            /\ UNCHANGED <<stale, run, userFiles>> /\ cur' = cur /\ copying'
        BY <1>c, <3>1, <3>3 DEF Wrote, TreeTypes, runVars
      <4>2. QED
        BY <1>w, <3>1, <3>3, <4>1 DEF Wrote, Applying
    <3>4. QED
      BY <1>12, <2>2, <3>2, <3>3 DEF Install
  <2>3. QED
    BY <2>1, <2>2
<1>13. CASE CopyDone
  <2>1. /\ copying /\ ~copying' /\ cur \in applied /\ cur \notin stale
        /\ pc \in {"install", "manifest"} /\ cur \in Paths
        /\ UNCHANGED <<pc, stale, applied, run, userFiles>>
    BY <1>13, <1>c DEF CopyDone, NextItem, CurInv, PhaseInv, AppliedInv,
           Paths, runVars
  <2>2. \A q \in Paths \ {cur} : content'[q] = content[q]
    BY <1>13, <2>1, <1>c DEF CopyDone, TreeTypes
  <2>3. content'[cur] = IF content[cur] = Partial THEN run ELSE content[cur]
    BY <1>13, <2>1, <1>c DEF CopyDone, TreeTypes
  <2>4. \/ content[cur] = Partial
        \/ cur \in userFiles /\ content[cur] \in {User, Absent}
    BY <2>1 DEF WrittenInv, Written, Applying
  <2>5. QED
    BY <2>1, <2>2, <2>3, <2>4, <1>c, ContentFacts DEF WrittenInv, Written
<1>14. CASE Remove
  <2>1. CASE Abort
    BY <1>a, <2>1
  <2>2. CASE ~Abort
    <3>1. /\ pc = "remove" /\ cur # "" /\ ~copying /\ cur \in Paths
          /\ cur \in stale /\ cur \notin applied
      BY <1>14, <1>c DEF Remove, CurInv, PhaseInv, AppliedInv, Paths
    <3>2. /\ content' = [content EXCEPT ![cur] = Absent]
          /\ applied' = applied \cup {cur} /\ NextItem
      BY <1>14, <2>2 DEF Remove
    <3>3. /\ content'[cur] = Absent
          /\ \A q \in Paths \ {cur} : content'[q] = content[q]
          /\ UNCHANGED <<stale, run, userFiles>> /\ cur' = "" /\ ~copying'
      BY <1>c, <3>1, <3>2 DEF NextItem, TreeTypes, runVars
    <3>4. QED
      BY <1>w, <3>1, <3>2, <3>3 DEF Applying
  <2>3. QED
    BY <2>1, <2>2
<1>15. ASSUME NEW d \in Dirs, RemoveDir(d) PROVE WrittenInv'
  <2>1. ~copying /\ ~copying' /\ pc \in Applying
    BY <1>15, <1>c DEF RemoveDir, CurInv, Applying
  <2>2. QED
    BY <1>15, <1>f, <2>1 DEF RemoveDir, runVars
<1>16. CASE NextPhase
  <2>1. UNCHANGED <<content, stale, applied, run, userFiles>>
    BY <1>16 DEF NextPhase, txVars, treeVars, runVars
  <2>2. pc \in Applying \/ pc' \in Undoing
    BY <1>16 DEF NextPhase, Goto, Applying, Undoing
  <2>3. ~copying /\ ~copying'
    BY <1>16, <1>c DEF NextPhase, Goto, CurInv
  <2>4. QED
    BY <1>f, <1>j, <2>1, <2>2, <2>3
<1>17. CASE Done
  BY <1>17, <1>j DEF Done, Finish, NoTransaction
<1>18. CASE FailEarly
  BY <1>18, <1>j DEF FailEarly, Fault, Finish, NoTransaction
<1>19. CASE FailApply
  BY <1>19, <1>a DEF FailApply, Fault, Abort, Goto
<1>20. CASE FailAfterInstall
  BY <1>20, <1>a DEF FailAfterInstall, Fault, Wrote, Abort, Goto
<1>21. CASE FailReplace
  BY <1>21, <1>a DEF FailReplace, Fault, Abort, Goto
<1>22. ASSUME NEW item \in Paths \cup Dirs, FailUndo(item) PROVE WrittenInv'
  <2>1. pc' \in Undoing
    BY <1>22 DEF FailUndo, RollsBack, Undoing
  <2>2. QED
    BY <2>1, <1>j
<1>23. ASSUME NEW p \in Paths, UndoFile(p) PROVE WrittenInv'
  <2>1. pc' \in Undoing
    BY <1>23 DEF UndoFile, RollsBack, Undoing
  <2>2. QED
    BY <2>1, <1>j
<1>24. ASSUME NEW d \in Dirs, UndoRemoveDir(d) PROVE WrittenInv'
  <2>1. pc' \in Undoing
    BY <1>24 DEF UndoRemoveDir, RollsBack, Undoing
  <2>2. QED
    BY <2>1, <1>j
<1>25. ASSUME NEW d \in Dirs, UndoMakeDir(d) PROVE WrittenInv'
  <2>1. pc' \in Undoing
    BY <1>25 DEF UndoMakeDir, RollsBack, Undoing
  <2>2. QED
    BY <2>1, <1>j
<1>26. CASE Crash
  BY <1>26, <1>j DEF Crash, Finish, NoTransaction
<1>27. QED
  BY <1>1, <1>2, <1>3, <1>4, <1>5, <1>6, <1>7, <1>8, <1>9, <1>10, <1>11,
     <1>12, <1>13, <1>14, <1>15, <1>16, <1>17, <1>18, <1>19, <1>20, <1>21,
     <1>22, <1>23, <1>24, <1>25, <1>26
     DEF Next, D2Next, UserNext, vars, treeVars, txVars, endVars, runVars,
         atVars, UserMakeRoot, UserActs

LEMMA VisitNext == CoreInv /\ SavedInv /\ PlanInv /\ VisitInv /\ [Next]_vars => VisitInv'
<1> SUFFICES ASSUME CoreInv, SavedInv, PlanInv, VisitInv, [Next]_vars
             PROVE  VisitInv'
  OBVIOUS
<1>i. ASSUME pc' \notin {"install", "remove", "rmdirs", "manifest"} PROVE VisitInv'
  BY <1>i DEF VisitInv
<1>a. ASSUME Abort PROVE VisitInv'
  BY <1>a, <1>i DEF Abort, Goto
<1>c. /\ CurInv /\ AppliedInv /\ PhaseInv
      /\ stale \subseteq Files /\ Now \subseteq Files /\ cur \in Paths \cup {""}
      /\ "" \notin Files /\ "" \notin Paths /\ Manifest \notin Files
  BY TypeParts, NowType, PathAssumption
     DEF CoreInv, TypeInv, TxTypes, AtTypes, Paths, Manifest
\* What leaves the work of a phase has been changed, or was the user's.
<1>f. ASSUME pc' = pc, UNCHANGED <<stale, runVars>>, userFiles \subseteq userFiles',
             applied \subseteq applied',
             \A q \in todo \cup {cur} :
                 \/ pc = "rmdirs" \/ q \in applied' \cup todo' \cup {cur'} \/ q = ""
                 \/ q \in stale \cap userFiles'
      PROVE  VisitInv'
  <2>1. Now' = Now /\ "" \notin Now /\ "" \notin stale /\ Now \cap stale = {}
        /\ Manifest # "" /\ Manifest \notin stale
    BY <1>f, <1>c, RunFixed, PathAssumption DEF PhaseInv, Manifest
  <2>2. QED
    BY <1>f, <2>1 DEF VisitInv
<1>1. CASE UNCHANGED <<pc, todo, cur, stale, applied, runVars, userFiles>>
  BY <1>1 DEF vars, treeVars, txVars, endVars, runVars, atVars, VisitInv, Now
<1>2. ASSUME NEW f \in Files, UserEdit(f) PROVE VisitInv'
  BY <1>2, <1>f DEF UserEdit, UserActs, atVars, txVars
<1>3. ASSUME NEW f \in Files, UserPut(f) PROVE VisitInv'
  BY <1>3, <1>f DEF UserPut, UserActs, atVars, txVars
<1>4. ASSUME NEW f \in Files, UserDelete(f) PROVE VisitInv'
  BY <1>4, <1>f DEF UserDelete, UserActs, atVars, txVars
<1>5. ASSUME NEW S \in SUBSET Files, Begin(S) PROVE VisitInv'
  BY <1>5, <1>i DEF Begin, Goto
<1>6. CASE LookAgain
  BY <1>6, <1>i DEF LookAgain, Goto
<1>7. CASE RenameStage
  BY <1>7, <1>i DEF RenameStage, Finish, NoTransaction
<1>8. CASE Plan
  BY <1>8, <1>i DEF Plan, Finish, NoTransaction, Goto
<1>9. ASSUME NEW p \in Paths, Backup(p) PROVE VisitInv'
  BY <1>9, <1>i DEF Backup
<1>10. ASSUME NEW p \in Paths, Verify(p) PROVE VisitInv'
  <2>1. CASE Abort
    BY <1>a, <2>1
  <2>2. CASE ~Abort
    <3>1. /\ p \in todo /\ cur = "" /\ pc \in {"install", "manifest", "remove"}
          /\ todo' = todo \ {p} /\ UNCHANGED <<pc, stale, runVars, userFiles, applied>>
      BY <1>10, <2>2 DEF Verify
    <3>2. p \in stale => pc = "remove"
      BY <3>1, <1>c DEF PhaseInv
    <3>3. p \notin applied
      BY <3>1, <1>c DEF AppliedInv
    <3>4. ASSUME p \in stale \ userFiles
          PROVE  p \notin skip /\ Existed(p) /\ content[p] = content[Manifest]
      <4>1. content[p] = content[Manifest] /\ before.content[p] \in Runs
        BY <3>2, <3>3, <3>4, StaleKept DEF Applying
      <4>2. p \in Saved
        BY <3>2, <3>4 DEF Saved, Work, Applying
      <4>3. backup[p] # Absent
        BY <3>4, <4>1, <4>2, ContentFacts DEF SavedInv, Genuine
      <4>4. p \notin skip
        BY <3>2, <3>4 DEF PlanInv, Applying
      <4>5. QED
        BY <4>1, <4>3, <4>4 DEF Existed
    <3>5. p \in stale \cap userFiles \/ cur' = p
      BY <1>10, <2>2, <3>4 DEF Verify
    <3>6. QED
      BY <3>1, <3>5, <1>f
  <2>3. QED
    BY <2>1, <2>2
<1>11. ASSUME NEW d \in Dirs, MakeDir(d) PROVE VisitInv'
  BY <1>11, <1>i DEF MakeDir
<1>12. CASE Install
  <2>1. CASE Abort
    BY <1>a, <2>1
  <2>2. CASE ~Abort
    <3>1. applied' = applied \cup {cur} /\ UNCHANGED <<pc, stale, runVars, userFiles, todo>>
      BY <1>12, <2>2 DEF Install, NextItem, Wrote
    <3>2. QED
      BY <3>1, <1>f
  <2>3. QED
    BY <2>1, <2>2
<1>13. CASE CopyDone
  <2>1. copying /\ cur \in applied
    BY <1>13, <1>c DEF CopyDone, CurInv, AppliedInv
  <2>2. QED
    BY <1>13, <1>f, <2>1 DEF CopyDone, NextItem, runVars
<1>14. CASE Remove
  <2>1. CASE Abort
    BY <1>a, <2>1
  <2>2. CASE ~Abort
    <3>1. applied' = applied \cup {cur} /\ UNCHANGED <<pc, stale, runVars, userFiles, todo>>
      BY <1>14, <2>2 DEF Remove, NextItem
    <3>2. QED
      BY <3>1, <1>f
  <2>3. QED
    BY <2>1, <2>2
<1>15. ASSUME NEW d \in Dirs, RemoveDir(d) PROVE VisitInv'
  BY <1>15, <1>f DEF RemoveDir, runVars
<1>16. CASE NextPhase
  <2>1. UNCHANGED <<stale, runVars, userFiles, applied>> /\ todo = {} /\ cur = ""
    BY <1>16 DEF NextPhase, txVars
  <2>2. Now' = Now
    BY <2>1, RunFixed
  <2>3. CASE pc = "mkdirs"
    BY <1>16, <2>1, <2>2, <2>3 DEF NextPhase, Goto, VisitInv
  <2>4. CASE pc = "install"
    BY <1>16, <1>c, <2>1, <2>2, <2>4 DEF NextPhase, Goto, VisitInv
  <2>5. CASE pc = "remove"
    BY <1>16, <1>c, <2>1, <2>2, <2>5 DEF NextPhase, Goto, VisitInv
  <2>6. CASE pc = "rmdirs"
    BY <1>16, <1>c, <2>1, <2>2, <2>6 DEF NextPhase, Goto, VisitInv
  <2>7. QED
    BY <1>16, <1>i, <2>3, <2>4, <2>5, <2>6 DEF NextPhase, Goto
<1>17. CASE Done
  BY <1>17, <1>i DEF Done, Finish, NoTransaction
<1>18. CASE FailEarly
  BY <1>18, <1>i DEF FailEarly, Fault, Finish, NoTransaction
<1>19. CASE FailApply
  BY <1>19, <1>a DEF FailApply, Fault, Abort, Goto
<1>20. CASE FailAfterInstall
  BY <1>20, <1>a DEF FailAfterInstall, Fault, Wrote, Abort, Goto
<1>21. CASE FailReplace
  BY <1>21, <1>a DEF FailReplace, Fault, Abort, Goto
<1>22. ASSUME NEW item \in Paths \cup Dirs, FailUndo(item) PROVE VisitInv'
  <2>1. pc' \notin {"install", "remove", "rmdirs", "manifest"}
    BY <1>22 DEF FailUndo, RollsBack
  <2>2. QED
    BY <2>1, <1>i
<1>23. ASSUME NEW p \in Paths, UndoFile(p) PROVE VisitInv'
  BY <1>23, <1>i DEF UndoFile, RollsBack
<1>24. ASSUME NEW d \in Dirs, UndoRemoveDir(d) PROVE VisitInv'
  BY <1>24, <1>i DEF UndoRemoveDir, RollsBack
<1>25. ASSUME NEW d \in Dirs, UndoMakeDir(d) PROVE VisitInv'
  BY <1>25, <1>i DEF UndoMakeDir, RollsBack
<1>26. CASE Crash
  BY <1>26, <1>i DEF Crash, Finish, NoTransaction
<1>27. QED
  BY <1>1, <1>2, <1>3, <1>4, <1>5, <1>6, <1>7, <1>8, <1>9, <1>10, <1>11,
     <1>12, <1>13, <1>14, <1>15, <1>16, <1>17, <1>18, <1>19, <1>20, <1>21,
     <1>22, <1>23, <1>24, <1>25, <1>26
     DEF Next, D2Next, UserNext, vars, treeVars, txVars, endVars, runVars,
         atVars, UserMakeRoot, UserActs

\* The directories of the new boards are made, and nothing removes them.
MadeInv ==
    pc \in Applying \ {"backup"} =>
        \A d \in DirsOf(Now) : (pc = "mkdirs" /\ d \in todo) \/ d \in dirs

\* d is gone, or there was something in it that does not belong to d2.
Cleared(d) == d \notin dirs \/ \E f \in Files :
                                 DirOf[f] = d /\ (content[f] # Absent \/ f \in userFiles)

\* The directories that nothing is generated in any more are visited.
GoneInv ==
    pc \in {"rmdirs", "manifest"} =>
        \A d \in OldGone : (pc = "rmdirs" /\ d \in todo) \/ Cleared(d)


LEMMA MadeNext == CoreInv /\ MadeInv /\ [Next]_vars => MadeInv'
<1> SUFFICES ASSUME CoreInv, MadeInv, [Next]_vars PROVE MadeInv'
  OBVIOUS
<1>i. ASSUME pc' \in Early \cup Undoing \cup {"idle"} PROVE MadeInv'
  BY <1>i DEF MadeInv, Early, Undoing, Applying
<1>a. ASSUME Abort PROVE MadeInv'
  BY <1>a, <1>i DEF Abort, Goto, Undoing
<1>c. PhaseInv /\ CurInv
  BY DEF CoreInv, TypeInv
<1>f. ASSUME pc' = pc, todo' = todo \/ pc # "mkdirs", dirs' = dirs, UNCHANGED runVars
      PROVE  MadeInv'
  BY <1>f, RunFixed DEF MadeInv
<1>1. CASE UNCHANGED <<pc, todo, dirs, runVars>>
  BY <1>1 DEF vars, treeVars, txVars, endVars, runVars, atVars, MadeInv, Now,
         DirsOf
<1>2. ASSUME NEW S \in SUBSET Files, Begin(S) PROVE MadeInv'
  BY <1>2, <1>i DEF Begin, Goto, Early
<1>3. CASE LookAgain
  BY <1>3, <1>i DEF LookAgain, Goto, Early
<1>4. CASE RenameStage
  BY <1>4, <1>i DEF RenameStage, Finish, NoTransaction
<1>5. CASE Plan
  <2>1. pc' \in {"idle", "backup"}
    BY <1>5 DEF Plan, Finish, Goto
  <2>2. QED
    BY <2>1 DEF MadeInv, Applying
<1>6. ASSUME NEW p \in Paths, Backup(p) PROVE MadeInv'
  BY <1>6, <1>f DEF Backup
<1>7. ASSUME NEW p \in Paths, Verify(p) PROVE MadeInv'
  <2>1. CASE Abort
    BY <1>a, <2>1
  <2>2. CASE ~Abort
    BY <1>7, <2>2, <1>f DEF Verify, treeVars
  <2>3. QED
    BY <2>1, <2>2
<1>8. ASSUME NEW d \in Dirs, MakeDir(d) PROVE MadeInv'
  BY <1>8, RunFixed DEF MakeDir, MadeInv, Applying
<1>9. CASE Install
  <2>1. CASE Abort
    BY <1>a, <2>1
  <2>2. CASE ~Abort
    BY <1>9, <2>2, <1>f DEF Install, NextItem, Wrote
  <2>3. QED
    BY <2>1, <2>2
<1>10. CASE CopyDone
  <2>1. pc # "mkdirs"
    BY <1>10, <1>c DEF CopyDone, CurInv
  <2>2. QED
    BY <1>10, <1>f, <2>1 DEF CopyDone, NextItem
<1>11. CASE Remove
  <2>1. CASE Abort
    BY <1>a, <2>1
  <2>2. CASE ~Abort
    BY <1>11, <2>2, <1>f DEF Remove, NextItem
  <2>3. QED
    BY <2>1, <2>2
<1>12. ASSUME NEW d \in Dirs, RemoveDir(d) PROVE MadeInv'
  <2>1. d \notin DirsOf(Now)
    BY <1>12, <1>c DEF RemoveDir, PhaseInv, OldGone
  <2>2. QED
    BY <1>12, <2>1, RunFixed DEF RemoveDir, MadeInv
<1>13. CASE NextPhase
  <2>1. UNCHANGED <<runVars, dirs>> /\ todo = {}
    BY <1>13 DEF NextPhase, treeVars
  <2>2. QED
    BY <1>13, <2>1, <1>i, RunFixed DEF NextPhase, Goto, MadeInv, Applying,
           Undoing
<1>14. CASE Done
  BY <1>14, <1>i DEF Done, Finish, NoTransaction
<1>15. CASE FailEarly
  BY <1>15, <1>i DEF FailEarly, Fault, Finish, NoTransaction
<1>16. CASE FailApply
  BY <1>16, <1>a DEF FailApply, Fault, Abort, Goto
<1>17. CASE FailAfterInstall
  BY <1>17, <1>a DEF FailAfterInstall, Fault, Wrote, Abort, Goto
<1>18. CASE FailReplace
  BY <1>18, <1>a DEF FailReplace, Fault, Abort, Goto
<1>19. ASSUME NEW item \in Paths \cup Dirs, FailUndo(item) PROVE MadeInv'
  <2>1. pc' \in Undoing
    BY <1>19 DEF FailUndo, RollsBack, Undoing
  <2>2. QED
    BY <2>1, <1>i
<1>20. ASSUME NEW p \in Paths, UndoFile(p) PROVE MadeInv'
  BY <1>20, <1>i DEF UndoFile, RollsBack, Undoing
<1>21. ASSUME NEW d \in Dirs, UndoRemoveDir(d) PROVE MadeInv'
  BY <1>21, <1>i DEF UndoRemoveDir, RollsBack, Undoing
<1>22. ASSUME NEW d \in Dirs, UndoMakeDir(d) PROVE MadeInv'
  BY <1>22, <1>i DEF UndoMakeDir, RollsBack, Undoing
<1>23. CASE Crash
  BY <1>23, <1>i DEF Crash, Finish, NoTransaction
<1>24. QED
  BY <1>1, <1>2, <1>3, <1>4, <1>5, <1>6, <1>7, <1>8, <1>9, <1>10, <1>11,
     <1>12, <1>13, <1>14, <1>15, <1>16, <1>17, <1>18, <1>19, <1>20, <1>21,
     <1>22, <1>23
     DEF Next, D2Next, UserNext, vars, treeVars, txVars, endVars, runVars,
         atVars, UserEdit, UserActs, UserPut, UserDelete, UserMakeRoot

LEMMA GoneNext == CoreInv /\ GoneInv /\ [Next]_vars => GoneInv'
<1> SUFFICES ASSUME CoreInv, GoneInv, [Next]_vars PROVE GoneInv'
  OBVIOUS
<1>i. ASSUME pc' \notin {"rmdirs", "manifest"} PROVE GoneInv'
  BY <1>i DEF GoneInv
<1>a. ASSUME Abort PROVE GoneInv'
  BY <1>a, <1>i DEF Abort, Goto
<1>c. PhaseInv /\ CurInv /\ TreeTypes /\ "" \notin Paths /\ Manifest \notin Files
  BY TypeParts, PathAssumption DEF CoreInv, TypeInv, Paths, Manifest
<1>f. ASSUME pc' = pc, todo' = todo \/ pc # "rmdirs", dirs' = dirs, UNCHANGED runVars,
             \A f \in Files : \/ f \in userFiles'
                              \/ f \notin userFiles /\ content'[f] = content[f]
      PROVE  GoneInv'
  BY <1>f, RunFixed DEF GoneInv, Cleared
<1>1. CASE UNCHANGED <<pc, todo, dirs, content, userFiles, runVars>>
  BY <1>1
     DEF vars, treeVars, txVars, endVars, runVars, atVars, GoneInv, Cleared,
         OldGone, OldListed, Old, Now, DirsOf
<1>2. ASSUME NEW f \in Files, UserEdit(f) PROVE GoneInv'
  BY <1>2, <1>f, <1>c DEF UserEdit, UserActs, TreeTypes, Paths, atVars
<1>3. ASSUME NEW f \in Files, UserPut(f) PROVE GoneInv'
  BY <1>3, <1>f, <1>c DEF UserPut, UserActs, TreeTypes, Paths, atVars
<1>4. ASSUME NEW f \in Files, UserDelete(f) PROVE GoneInv'
  BY <1>4, <1>f, <1>c DEF UserDelete, UserActs, TreeTypes, Paths, atVars
<1>5. ASSUME NEW S \in SUBSET Files, Begin(S) PROVE GoneInv'
  BY <1>5, <1>i DEF Begin, Goto
<1>6. CASE LookAgain
  BY <1>6, <1>i DEF LookAgain, Goto
<1>7. CASE RenameStage
  BY <1>7, <1>i DEF RenameStage, Finish, NoTransaction
<1>8. CASE Plan
  BY <1>8, <1>i DEF Plan, Finish, NoTransaction, Goto
<1>9. ASSUME NEW p \in Paths, Backup(p) PROVE GoneInv'
  BY <1>9, <1>i DEF Backup
<1>10. ASSUME NEW p \in Paths, Verify(p) PROVE GoneInv'
  <2>1. CASE Abort
    BY <1>a, <2>1
  <2>2. CASE ~Abort
    BY <1>10, <2>2, <1>f DEF Verify, treeVars
  <2>3. QED
    BY <2>1, <2>2
<1>11. ASSUME NEW d \in Dirs, MakeDir(d) PROVE GoneInv'
  BY <1>11, <1>i DEF MakeDir
<1>12. CASE Install
  <2>1. CASE Abort
    BY <1>a, <2>1
  <2>2. CASE ~Abort
    <3>1. pc = "install" \/ cur = Manifest
      BY <1>12, <1>c DEF Install, PhaseInv
    <3>2. UNCHANGED <<pc, todo, dirs, runVars, userFiles>>
      BY <1>12, <2>2 DEF Install, NextItem, Wrote
    <3>3. \A q \in Paths \ {cur} : content'[q] = content[q]
      BY <1>12, <2>2, <1>c DEF Install, Wrote, TreeTypes
    <3>4. QED
      BY <3>1, <3>2, <3>3, <1>f, <1>i, <1>c DEF Paths
  <2>3. QED
    BY <2>1, <2>2
<1>13. CASE CopyDone
  <2>1. pc = "install" \/ cur = Manifest
    BY <1>13, <1>c DEF CopyDone, CurInv, PhaseInv
  <2>2. UNCHANGED <<pc, todo, dirs, runVars, userFiles>>
    BY <1>13 DEF CopyDone, NextItem
  <2>3. \A q \in Paths \ {cur} : content'[q] = content[q]
    BY <1>13, <1>c DEF CopyDone, TreeTypes
  <2>4. QED
    BY <2>1, <2>2, <2>3, <1>f, <1>i, <1>c DEF Paths
<1>14. CASE Remove
  <2>1. CASE Abort
    BY <1>a, <2>1
  <2>2. CASE ~Abort
    BY <1>14, <2>2, <1>i DEF Remove, NextItem
  <2>3. QED
    BY <2>1, <2>2
<1>15. ASSUME NEW d \in Dirs, RemoveDir(d) PROVE GoneInv'
  <2>1. /\ pc = "rmdirs" /\ pc' = pc /\ todo' = todo \ {d} /\ dirs' \subseteq dirs
        /\ UNCHANGED <<content, userFiles, runVars>>
        /\ d \notin dirs' \/ ~Empty(d)
    BY <1>15 DEF RemoveDir
  <2>2. Cleared(d)'
    BY <2>1 DEF Cleared, Empty
  <2>3. \A e \in OldGone : Cleared(e) => Cleared(e)'
    BY <2>1 DEF Cleared
  <2>4. QED
    BY <2>1, <2>2, <2>3, RunFixed DEF GoneInv
<1>16. CASE NextPhase
  <2>1. UNCHANGED <<runVars, dirs, content, userFiles>> /\ todo = {}
    BY <1>16 DEF NextPhase, treeVars
  <2>2. pc = "remove" => Listed = OldListed
    BY OldManifest DEF CoreInv, Applying
  <2>3. \A d : Cleared(d) => Cleared(d)'
    BY <2>1 DEF Cleared
  <2>4. QED
    BY <1>16, <2>1, <2>2, <2>3, RunFixed DEF NextPhase, Goto, GoneInv, OldGone
<1>17. CASE Done
  BY <1>17, <1>i DEF Done, Finish, NoTransaction
<1>18. CASE FailEarly
  BY <1>18, <1>i DEF FailEarly, Fault, Finish, NoTransaction
<1>19. CASE FailApply
  BY <1>19, <1>a DEF FailApply, Fault, Abort, Goto
<1>20. CASE FailAfterInstall
  BY <1>20, <1>a DEF FailAfterInstall, Fault, Wrote, Abort, Goto
<1>21. CASE FailReplace
  BY <1>21, <1>a DEF FailReplace, Fault, Abort, Goto
<1>22. ASSUME NEW item \in Paths \cup Dirs, FailUndo(item) PROVE GoneInv'
  <2>1. pc' \notin {"rmdirs", "manifest"}
    BY <1>22 DEF FailUndo, RollsBack
  <2>2. QED
    BY <2>1, <1>i
<1>23. ASSUME NEW p \in Paths, UndoFile(p) PROVE GoneInv'
  BY <1>23, <1>i DEF UndoFile, RollsBack
<1>24. ASSUME NEW d \in Dirs, UndoRemoveDir(d) PROVE GoneInv'
  BY <1>24, <1>i DEF UndoRemoveDir, RollsBack
<1>25. ASSUME NEW d \in Dirs, UndoMakeDir(d) PROVE GoneInv'
  BY <1>25, <1>i DEF UndoMakeDir, RollsBack
<1>26. CASE Crash
  BY <1>26, <1>i DEF Crash, Finish, NoTransaction
<1>27. QED
  BY <1>1, <1>2, <1>3, <1>4, <1>5, <1>6, <1>7, <1>8, <1>9, <1>10, <1>11,
     <1>12, <1>13, <1>14, <1>15, <1>16, <1>17, <1>18, <1>19, <1>20, <1>21,
     <1>22, <1>23, <1>24, <1>25, <1>26
     DEF Next, D2Next, UserNext, vars, treeVars, txVars, endVars, runVars,
         atVars, UserMakeRoot, UserActs

\* What a publication that succeeded leaves.
SuccessInv ==
    pc = "idle" /\ outcome = "ok" =>
        /\ content[Manifest] = run /\ run \in Runs
        /\ \A f \in Files :
             \/ content[f] = IF f \in Now THEN run
                             ELSE IF f \in Dropped THEN Absent ELSE before.content[f]
             \/ f \in userFiles /\ content[f] \in {User, Absent}
        /\ DirsOf(Now) \subseteq dirs
        /\ \A d \in OldGone : Cleared(d)
        /\ before.dirs \ DirsOf(OldListed) \subseteq dirs

ApplyInv == CoreInv /\ SavedInv /\ DirInv /\ PlanInv /\ WrittenInv /\ VisitInv
            /\ MadeInv /\ GoneInv

LEMMA ApplyNext == ApplyInv /\ [Next]_vars => ApplyInv'
  BY CoreNext, SavedNext, DirNext, PlanNext, WrittenNext, VisitNext, MadeNext,
     GoneNext DEF ApplyInv

\* The end of apply.
LEMMA AppliedAll ==
    ASSUME ApplyInv, pc = "manifest", todo = {}, cur = "", NEW f \in Files
    PROVE  \/ content[f] = IF f \in Now THEN run
                           ELSE IF f \in Dropped THEN Absent ELSE before.content[f]
           \/ f \in userFiles /\ content[f] \in {User, Absent}
<1>1. /\ CurInv /\ AppliedInv /\ PhaseInv /\ ~copying /\ f \in Paths /\ f # "" /\ f # Manifest
      /\ pc \in Applying
  BY PathAssumption DEF ApplyInv, CoreInv, TypeInv, CurInv, Paths, Applying
<1>2. CASE f \in Now
  <2>1. f \in applied
    BY <1>1, <1>2 DEF ApplyInv, VisitInv
  <2>2. f \notin stale
    BY <1>1, <1>2 DEF PhaseInv
  <2>3. QED
    BY <1>1, <1>2, <2>1, <2>2 DEF ApplyInv, WrittenInv, Written
<1>3. CASE f \in applied /\ f \notin Now
  <2>1. f \in stale
    BY <1>1, <1>3 DEF AppliedInv, Work
  <2>2. content[f] = Absent \/ (f \in userFiles /\ content[f] \in {User, Absent})
    BY <1>1, <1>3, <2>1 DEF ApplyInv, WrittenInv, Written
  <2>3. QED
    BY <1>1, <1>3, <2>1, <2>2 DEF ApplyInv, PlanInv
<1>4. CASE f \notin applied /\ f \notin Now
  <2>1. Kept(f)
    BY <1>1, <1>4 DEF AppliedInv
  <2>2. CASE f \in userFiles
    BY <2>1, <2>2 DEF Kept
  <2>3. CASE f \notin userFiles
    <3>1. f \notin stale
      BY <1>1, <1>4, <2>3 DEF ApplyInv, VisitInv
    <3>2. f \notin Dropped
      BY <1>1, <2>3, <3>1 DEF ApplyInv, PlanInv
    <3>3. QED
      BY <1>4, <2>1, <2>3, <3>2 DEF Kept
  <2>4. QED
    BY <2>2, <2>3
<1>5. QED
  BY <1>2, <1>3, <1>4



LEMMA SuccessNext == ApplyInv /\ SuccessInv /\ [Next]_vars => SuccessInv'
<1> SUFFICES ASSUME ApplyInv, SuccessInv, [Next]_vars PROVE SuccessInv'
  OBVIOUS
<1>i. ASSUME pc' # "idle" \/ outcome' # "ok" PROVE SuccessInv'
  BY <1>i DEF SuccessInv
<1>a. ASSUME Abort PROVE SuccessInv'
  BY <1>a, <1>i DEF Abort, Goto
<1>p. ASSUME pc # "idle", pc' = pc PROVE SuccessInv'
  BY <1>p, <1>i
<1>c. /\ CurInv /\ TreeTypes /\ Manifest \in Paths /\ Manifest \notin Files
      /\ Files \subseteq Paths
  BY TypeParts, PathAssumption DEF ApplyInv, CoreInv, TypeInv, Paths
<1>r. UNCHANGED runVars => Dropped' = Dropped
  BY RunFixed DEF Dropped
<1>u. ASSUME NEW f \in Files, UNCHANGED <<dirs, pc, outcome, runVars>>,
             userFiles' = userFiles \cup {f},
             content'[f] \in {User, Absent},
             \A q \in Paths \ {f} : content'[q] = content[q]
      PROVE  SuccessInv'
  <2>1. \A d : Cleared(d) => Cleared(d)'
    BY <1>u, <1>c DEF Cleared
  <2>2. QED
    BY <1>u, <1>c, <1>r, <2>1, RunFixed DEF SuccessInv
<1>1. CASE UNCHANGED <<content, dirs, pc, outcome, userFiles, runVars>>
  BY <1>1
     DEF vars, treeVars, txVars, endVars, runVars, atVars, SuccessInv,
         Cleared, Dropped, OldGone, OldListed, Old, Now, DirsOf
<1>2. ASSUME NEW f \in Files, UserEdit(f) PROVE SuccessInv'
  BY <1>2, <1>u, <1>c DEF UserEdit, UserActs, TreeTypes, atVars, endVars
<1>3. ASSUME NEW f \in Files, UserPut(f) PROVE SuccessInv'
  BY <1>3, <1>u, <1>c DEF UserPut, UserActs, TreeTypes, atVars, endVars
<1>4. ASSUME NEW f \in Files, UserDelete(f) PROVE SuccessInv'
  BY <1>4, <1>u, <1>c DEF UserDelete, UserActs, TreeTypes, atVars, endVars
<1>5. ASSUME NEW S \in SUBSET Files, Begin(S) PROVE SuccessInv'
  <2>1. pc' # "idle"
    BY <1>5 DEF Begin, Goto
  <2>2. QED
    BY <2>1, <1>i
<1>6. CASE LookAgain
  BY <1>6, <1>i DEF LookAgain, Goto
<1>7. CASE RenameStage
  <2>1. CASE Finish("error", FALSE)
    BY <2>1, <1>i DEF Finish
  <2>2. CASE ~Finish("error", FALSE)
    <3>1. /\ pc = "rename" /\ pc' = "idle" /\ dirs = {} /\ dirs' = DirsOf(Now)
          /\ \A p \in Paths : content[p] = Absent
          /\ content' = [p \in Paths |-> IF p \in Now \cup {Manifest} THEN run ELSE Absent]
          /\ UNCHANGED <<runVars, userFiles>>
      BY <1>7, <2>2 DEF RenameStage, Finish
    <3>2. applied = {} /\ madeDirs = {} /\ goneDirs = {} /\ run \in Runs
      BY <3>1, <1>c DEF ApplyInv, CoreInv, TypeInv, EmptyInv, Early, CurInv
    <3>3. before.dirs = {}
      BY <3>1, <3>2 DEF ApplyInv, DirInv, Early
    <3>4. \A p \in Paths : p \in userFiles \/ before.content[p] = Absent
      BY <3>1, <3>2 DEF ApplyInv, CoreInv, AppliedInv, Kept
    <3>5. Old = Absent
      BY <3>4, <1>c, TypeParts DEF ApplyInv, CoreInv, TypeInv, RunTypes, Old
    <3>6. OldListed = {} /\ Dropped = {} /\ OldGone = {}
      BY <3>5, ContentFacts DEF OldListed, Dropped, OldGone, DirsOf
    <3>7. \A f \in Files : f \in userFiles \/ before.content[f] = Absent
      BY <3>4, <1>c
    <3>8. \A f \in Files : content'[f] = IF f \in Now THEN run ELSE Absent
      BY <3>1, <1>c
    <3>9. content'[Manifest] = run
      BY <3>1, <1>c
    <3>10. QED
      BY <3>1, <3>2, <3>3, <3>6, <3>7, <3>8, <3>9, <1>r, RunFixed DEF
             SuccessInv
  <2>3. QED
    BY <2>1, <2>2
<1>8. CASE Plan
  <2>1. pc' # "idle" \/ outcome' # "ok"
    BY <1>8 DEF Plan, Finish, Goto
  <2>2. QED
    BY <2>1, <1>i
<1>9. ASSUME NEW p \in Paths, Backup(p) PROVE SuccessInv'
  BY <1>9, <1>p DEF Backup
<1>10. ASSUME NEW p \in Paths, Verify(p) PROVE SuccessInv'
  <2>1. CASE Abort
    BY <1>a, <2>1
  <2>2. CASE ~Abort
    BY <1>10, <2>2, <1>p DEF Verify
  <2>3. QED
    BY <2>1, <2>2
<1>11. ASSUME NEW d \in Dirs, MakeDir(d) PROVE SuccessInv'
  BY <1>11, <1>p DEF MakeDir
<1>12. CASE Install
  <2>1. CASE Abort
    BY <1>a, <2>1
  <2>2. CASE ~Abort
    BY <1>12, <2>2, <1>p DEF Install, NextItem
  <2>3. QED
    BY <2>1, <2>2
<1>13. CASE CopyDone
  BY <1>13, <1>p, <1>c DEF CopyDone, NextItem, CurInv
<1>14. CASE Remove
  <2>1. CASE Abort
    BY <1>a, <2>1
  <2>2. CASE ~Abort
    BY <1>14, <2>2, <1>p DEF Remove, NextItem
  <2>3. QED
    BY <2>1, <2>2
<1>15. ASSUME NEW d \in Dirs, RemoveDir(d) PROVE SuccessInv'
  BY <1>15, <1>p DEF RemoveDir
<1>16. CASE NextPhase
  <2>1. pc' # "idle"
    BY <1>16 DEF NextPhase, Goto
  <2>2. QED
    BY <2>1, <1>i
<1>17. CASE Done
  <2>1. CASE pc # "manifest"
    BY <1>17, <2>1, <1>i DEF Done, Finish
  <2>2. CASE pc = "manifest"
    <3>1. /\ todo = {} /\ cur = "" /\ pc' = "idle"
          /\ UNCHANGED <<content, dirs, userFiles, runVars>>
      BY <1>17, <2>2 DEF Done, Finish, treeVars
    <3>2. run \in Runs /\ AppliedInv /\ ~copying
      BY <2>2, <3>1, <1>c DEF CurInv, ApplyInv, CoreInv
    <3>3. content[Manifest] = run
      <4>1. Manifest \in applied /\ Manifest \notin stale /\ Manifest \notin userFiles
        BY <2>2, <3>1, <1>c, TypeParts, PathAssumption
           DEF ApplyInv, VisitInv, CoreInv, TypeInv, TxTypes, RunTypes, Manifest
      <4>2. QED
        BY <2>2, <3>2, <4>1 DEF ApplyInv, WrittenInv, Written, Applying
    <3>4. DirsOf(Now) \subseteq dirs
      BY <2>2 DEF ApplyInv, MadeInv, Applying
    <3>5. \A d \in OldGone : Cleared(d)
      BY <2>2 DEF ApplyInv, GoneInv
    <3>6. before.dirs \ DirsOf(OldListed) \subseteq dirs
      BY <2>2 DEF ApplyInv, DirInv, Applying, OldGone
    <3>7. \A d : Cleared(d) => Cleared(d)'
      BY <3>1 DEF Cleared
    <3>8. UNCHANGED <<content, dirs, userFiles, run, before>> /\ Now' = Now
          /\ Dropped' = Dropped /\ OldGone' = OldGone /\ OldListed' = OldListed
      BY <3>1, <1>r, RunFixed
    <3>9. QED
      BY <2>2, <3>1, <3>2, <3>3, <3>4, <3>5, <3>6, <3>7, <3>8, AppliedAll
         DEF SuccessInv
  <2>3. QED
    BY <2>1, <2>2
<1>18. CASE FailEarly
  BY <1>18, <1>i DEF FailEarly, Fault, Finish, NoTransaction
<1>19. CASE FailApply
  BY <1>19, <1>a DEF FailApply, Fault, Abort, Goto
<1>20. CASE FailAfterInstall
  BY <1>20, <1>a DEF FailAfterInstall, Fault, Wrote, Abort, Goto
<1>21. CASE FailReplace
  BY <1>21, <1>a DEF FailReplace, Fault, Abort, Goto
<1>22. ASSUME NEW item \in Paths \cup Dirs, FailUndo(item) PROVE SuccessInv'
  <2>1. pc # "idle" /\ pc' = pc
    BY <1>22 DEF FailUndo, RollsBack
  <2>2. QED
    BY <2>1, <1>p
<1>23. ASSUME NEW p \in Paths, UndoFile(p) PROVE SuccessInv'
  BY <1>23, <1>p DEF UndoFile, RollsBack
<1>24. ASSUME NEW d \in Dirs, UndoRemoveDir(d) PROVE SuccessInv'
  BY <1>24, <1>p DEF UndoRemoveDir, RollsBack
<1>25. ASSUME NEW d \in Dirs, UndoMakeDir(d) PROVE SuccessInv'
  BY <1>25, <1>p DEF UndoMakeDir, RollsBack
<1>26. CASE Crash
  BY <1>26, <1>i DEF Crash, Finish, NoTransaction
<1>27. QED
  BY <1>1, <1>2, <1>3, <1>4, <1>5, <1>6, <1>7, <1>8, <1>9, <1>10, <1>11,
     <1>12, <1>13, <1>14, <1>15, <1>16, <1>17, <1>18, <1>19, <1>20, <1>21,
     <1>22, <1>23, <1>24, <1>25, <1>26
     DEF Next, D2Next, UserNext, vars, treeVars, txVars, endVars, runVars,
         atVars, UserMakeRoot, UserActs

LEMMA ApplyInit == Init => ApplyInv /\ SuccessInv
<1> SUFFICES ASSUME Init PROVE ApplyInv /\ SuccessInv
  OBVIOUS
<1>1. CoreInv
  BY CoreInit
<1>2. SavedInv
  BY DEF Init, SavedInv, Saved, Applying, Undoing
<1>3. DirInv
  BY DEF Init, DirInv, Early, Applying
<1>4. PlanInv /\ WrittenInv /\ VisitInv /\ MadeInv /\ GoneInv
  BY DEF Init, PlanInv, WrittenInv, VisitInv, MadeInv, GoneInv, Applying
<1>5. SuccessInv
  BY DEF Init, SuccessInv
<1>6. QED
  BY <1>1, <1>2, <1>3, <1>4, <1>5 DEF ApplyInv

\* When publishBoardOutputWorkspace succeeds, the tree holds the new boards and
\* the new manifest; what the previous run generated, nobody has changed and this
\* run does not generate is gone, with the directories that leaves empty; and
\* everything else is as it was.
THEOREM CompleteOnSuccessHolds == Spec => []CompleteOnSuccess
<1>1. ApplyInv /\ SuccessInv /\ [Next]_vars => ApplyInv' /\ SuccessInv'
  BY ApplyNext, SuccessNext
<1>2. SuccessInv => CompleteOnSuccess
  <2> SUFFICES ASSUME SuccessInv, pc = "idle", outcome = "ok"
               PROVE  CompleteOnSuccess
    BY DEF CompleteOnSuccess
  <2>1. \A d \in OldGone : Empty(d) /\ (\A f \in userFiles : DirOf[f] # d) => d \notin dirs
    BY DEF SuccessInv, Cleared, Empty
  <2>2. QED
    BY <2>1 DEF SuccessInv, CompleteOnSuccess, Dropped, OldGone, OldListed,
           Old
<1>3. QED
  BY <1>1, <1>2, ApplyInit, PTL DEF Spec


-----------------------------------------------------------------------------
(* What d2 owns.                                                           *)

\* The manifest on disk is of this run or an earlier one, the previous one of an
\* earlier one.
OlderInv ==
    /\ content[Manifest] \in Runs => content[Manifest] <= run
    /\ Old \in Runs => Old <= run /\ (pc # "idle" => Old < run)

\* What d2 had generated when the run began was listed.
OwnedBefore ==
    ~messy => \A f \in Files : before.content[f] \in Runs \cup {Partial} =>
                  f \in OldListed /\ before.content[f] = Old

\* How the last run ended.
EndInv ==
    pc = "idle" =>
        /\ outcome = "none" => \A f \in Files : content[f] \in {User, Absent}
        /\ outcome = "killed" \/ (outcome = "error" /\ touched) => messy

LEMMA EndedClean ==
    ASSUME CoreInv, SuccessInv, FailedInv, EndInv, OwnedBefore
    PROVE  NoOrphans
<1> SUFFICES ASSUME pc = "idle", ~messy, NEW f \in Files,
                    content[f] \in Runs \cup {Partial}
             PROVE  f \in Listed /\ content[f] = content[Manifest]
  BY DEF NoOrphans
<1>0. /\ f \in Paths /\ Manifest \in Paths /\ Manifest \notin userFiles
      /\ outcome \in {"none", "ok", "error", "killed"} /\ touched \in BOOLEAN
  BY TypeParts, PathAssumption DEF CoreInv, TypeInv, RunTypes, EndTypes, Paths
<1>1. content[f] \notin {User, Absent}
  BY ContentFacts
<1>2. CASE outcome = "ok"
  <2>1. /\ content[Manifest] = run /\ run \in Runs /\ Listed = Now
        /\ content[f] = IF f \in Now THEN run
                        ELSE IF f \in Dropped THEN Absent ELSE before.content[f]
    BY <1>1, <1>2, BoundAssumption DEF SuccessInv, Listed, Now, Runs
  <2>2. f \in Now
    BY <1>1, <2>1 DEF OwnedBefore, Dropped
  <2>3. QED
    BY <2>1, <2>2
<1>3. CASE outcome = "error" /\ ~touched
  <2>1. content[f] = before.content[f] /\ content[Manifest] = Old
    BY <1>0, <1>1, <1>3 DEF FailedInv, Genuine, Old
  <2>2. f \in OldListed /\ before.content[f] = Old
    BY <2>1 DEF OwnedBefore
  <2>3. QED
    BY <2>1, <2>2 DEF Listed, OldListed
<1>4. QED
  BY <1>0, <1>1, <1>2, <1>3 DEF EndInv


LEMMA OlderNext == CoreInv /\ SavedInv /\ OlderInv /\ [Next]_vars => OlderInv'
<1> SUFFICES ASSUME CoreInv, SavedInv, OlderInv, [Next]_vars PROVE OlderInv'
  OBVIOUS
<1>c. /\ CurInv /\ PhaseInv /\ TreeTypes /\ Manifest \in Paths /\ Manifest \notin Files
      /\ stale \subseteq Files /\ Manifest \notin userFiles
  BY TypeParts, PathAssumption DEF CoreInv, TypeInv, TxTypes, RunTypes, Paths
<1>d. run \in Nat /\ Runs \subseteq Nat
  BY TypeParts, BoundAssumption DEF CoreInv, TypeInv, RunTypes, Runs
<1>k. run <= run
  BY <1>d
<1>f. ASSUME UNCHANGED runVars, pc' = "idle" \/ pc # "idle" \/ pc' = pc,
             \/ content'[Manifest] = content[Manifest]
             \/ content'[Manifest] \in {run, Partial, Absent, Old}
      PROVE  OlderInv'
  BY <1>f, <1>c, <1>k, RunFixed, ContentFacts DEF OlderInv
<1>1. CASE UNCHANGED <<content, pc, run, before>>
  BY <1>1 DEF vars, treeVars, txVars, endVars, runVars, atVars, OlderInv, Old
<1>2. ASSUME NEW f \in Files, UserEdit(f) PROVE OlderInv'
  BY <1>2, <1>f, <1>c DEF UserEdit, UserActs, TreeTypes, Paths, atVars
<1>3. ASSUME NEW f \in Files, UserPut(f) PROVE OlderInv'
  BY <1>3, <1>f, <1>c DEF UserPut, UserActs, TreeTypes, Paths, atVars
<1>4. ASSUME NEW f \in Files, UserDelete(f) PROVE OlderInv'
  BY <1>4, <1>f, <1>c DEF UserDelete, UserActs, TreeTypes, Paths, atVars
<1>5. ASSUME NEW S \in SUBSET Files, Begin(S) PROVE OlderInv'
  <2>1. content' = content /\ run' = run + 1 /\ before'.content = content /\ run < run'
    BY <1>5, <1>d DEF Begin, treeVars
  <2>2. content[Manifest] \in Runs => content[Manifest] < run'
    <3>1. ASSUME content[Manifest] \in Runs PROVE content[Manifest] \in Nat /\ content[Manifest] <= run
      BY <3>1, <1>d DEF OlderInv
    <3>2. run \in Nat /\ run' \in Nat
      BY <2>1, <1>d
    <3>3. QED
      BY ONLY <2>1, <3>1, <3>2
  <2>3. QED
    <3>1. content[Manifest] \in Runs => content[Manifest] <= run'
      <4>1. ASSUME content[Manifest] \in Runs PROVE content[Manifest] \in Nat
        BY <4>1, <1>d
      <4>2. run' \in Nat
        BY <2>1, <1>d
      <4>3. QED
        BY ONLY <4>1, <4>2, <2>2
    <3>2. QED
      BY <2>1, <2>2, <3>1 DEF OlderInv, Old
<1>6. CASE LookAgain
  BY <1>6, <1>f DEF LookAgain, Goto, treeVars
<1>7. CASE RenameStage
  <2>1. content' = content \/ content'[Manifest] = run
    BY <1>7, <1>c DEF RenameStage, treeVars
  <2>2. QED
    BY <1>7, <2>1, <1>f DEF RenameStage, Finish
<1>8. CASE Plan
  <2>1. UNCHANGED <<content, runVars>> /\ pc # "idle"
    BY <1>8 DEF Plan, treeVars, Finish
  <2>2. QED
    BY <2>1, <1>f
<1>9. ASSUME NEW p \in Paths, Backup(p) PROVE OlderInv'
  BY <1>9, <1>f DEF Backup, treeVars
<1>10. ASSUME NEW p \in Paths, Verify(p) PROVE OlderInv'
  <2>1. UNCHANGED <<content, runVars>> /\ pc # "idle"
    BY <1>10 DEF Verify, treeVars, Abort, Goto
  <2>2. QED
    BY <2>1, <1>f
<1>11. ASSUME NEW d \in Dirs, MakeDir(d) PROVE OlderInv'
  BY <1>11, <1>f DEF MakeDir
<1>12. CASE Install
  <2>1. UNCHANGED runVars /\ pc # "idle"
    BY <1>12, <1>c DEF Install, NextItem, Abort
  <2>2. content'[Manifest] \in {content[Manifest], run, Partial}
    BY <1>12, <1>c DEF Install, Wrote, TreeTypes, treeVars
  <2>3. QED
    BY <2>1, <2>2, <1>f
<1>13. CASE CopyDone
  <2>1. UNCHANGED runVars /\ pc # "idle"
    BY <1>13, <1>c DEF CopyDone, NextItem, CurInv
  <2>2. content'[Manifest] \in {content[Manifest], run}
    BY <1>13, <1>c DEF CopyDone, TreeTypes
  <2>3. QED
    BY <2>1, <2>2, <1>f
<1>14. CASE Remove
  <2>1. UNCHANGED runVars /\ pc # "idle"
    BY <1>14, <1>c DEF Remove, NextItem, Abort
  <2>2. content'[Manifest] \in {content[Manifest], Absent}
    BY <1>14, <1>c DEF Remove, TreeTypes
  <2>3. QED
    BY <2>1, <2>2, <1>f
<1>15. ASSUME NEW d \in Dirs, RemoveDir(d) PROVE OlderInv'
  BY <1>15, <1>f DEF RemoveDir
<1>16. CASE NextPhase
  <2>1. UNCHANGED <<content, runVars>> /\ pc # "idle"
    BY <1>16 DEF NextPhase, treeVars
  <2>2. QED
    BY <2>1, <1>f
<1>17. CASE Done
  BY <1>17, <1>f DEF Done, Finish, NoTransaction, treeVars
<1>18. CASE FailEarly
  BY <1>18, <1>f DEF FailEarly, Fault, Finish, NoTransaction, treeVars
<1>19. CASE FailApply
  <2>1. UNCHANGED <<content, runVars>> /\ pc # "idle"
    BY <1>19 DEF FailApply, treeVars, Abort, Applying
  <2>2. QED
    BY <2>1, <1>f
<1>20. CASE FailAfterInstall
  <2>1. UNCHANGED runVars /\ pc # "idle"
    BY <1>20 DEF FailAfterInstall, Abort
  <2>2. content'[Manifest] \in {content[Manifest], run, Partial}
    BY <1>20, <1>c DEF FailAfterInstall, Wrote, TreeTypes
  <2>3. QED
    BY <2>1, <2>2, <1>f
<1>21. CASE FailReplace
  <2>1. UNCHANGED runVars /\ pc # "idle"
    BY <1>21 DEF FailReplace, Abort
  <2>2. content'[Manifest] \in {content[Manifest], Absent}
    BY <1>21, <1>c DEF FailReplace, TreeTypes
  <2>3. QED
    BY <2>1, <2>2, <1>f
<1>22. ASSUME NEW item \in Paths \cup Dirs, FailUndo(item) PROVE OlderInv'
  <2>1. UNCHANGED <<runVars, pc>> /\ pc # "idle"
    BY <1>22 DEF FailUndo, RollsBack
  <2>2. content'[Manifest] \in {content[Manifest], Partial}
    BY <1>22, <1>c DEF FailUndo, TreeTypes
  <2>3. QED
    BY <2>1, <2>2, <1>f
<1>23. ASSUME NEW p \in Paths, UndoFile(p) PROVE OlderInv'
  <2>1. /\ pc = "undoFiles" /\ UNCHANGED <<runVars, pc>> /\ p \in applied
        /\ content' = content \/ content' = [content EXCEPT ![p] = backup[p]]
    BY <1>23, <1>c DEF UndoFile, RollsBack, PhaseInv
  <2>2. p = Manifest => backup[p] = Old
    BY <2>1, <1>c DEF SavedInv, Saved, Undoing, Applying, Genuine, Old
  <2>3. content'[Manifest] \in {content[Manifest], Old}
    BY <2>1, <2>2, <1>c DEF TreeTypes
  <2>4. QED
    BY <2>1, <2>3, <1>f
<1>24. ASSUME NEW d \in Dirs, UndoRemoveDir(d) PROVE OlderInv'
  BY <1>24, <1>f DEF UndoRemoveDir, RollsBack
<1>25. ASSUME NEW d \in Dirs, UndoMakeDir(d) PROVE OlderInv'
  BY <1>25, <1>f DEF UndoMakeDir, RollsBack
<1>26. CASE Crash
  BY <1>26, <1>f DEF Crash, Finish, NoTransaction, treeVars
<1>27. QED
  BY <1>1, <1>2, <1>3, <1>4, <1>5, <1>6, <1>7, <1>8, <1>9, <1>10, <1>11,
     <1>12, <1>13, <1>14, <1>15, <1>16, <1>17, <1>18, <1>19, <1>20, <1>21,
     <1>22, <1>23, <1>24, <1>25, <1>26
     DEF Next, D2Next, UserNext, vars, treeVars, txVars, endVars, runVars,
         atVars, UserMakeRoot, UserActs

LEMMA OwnedNext ==
    CoreInv /\ OlderInv /\ NoOrphans /\ OwnedBefore /\ [Next]_vars => OwnedBefore'
<1> SUFFICES ASSUME CoreInv, OlderInv, NoOrphans, OwnedBefore, [Next]_vars
             PROVE  OwnedBefore'
  OBVIOUS
<1>1. ASSUME NEW S \in SUBSET Files, Begin(S) PROVE OwnedBefore'
  <2>1. /\ pc = "idle" /\ run' = run + 1 /\ staged' = [staged EXCEPT ![run + 1] = S]
        /\ before'.content = content /\ messy' = messy
    BY <1>1 DEF Begin, endVars
  <2>2. /\ run \in Nat /\ staged \in [Runs -> SUBSET Files] /\ Runs \subseteq Nat
    BY TypeParts, BoundAssumption DEF CoreInv, TypeInv, RunTypes, Runs
  <2>3. content[Manifest] \in Runs => content[Manifest] # run + 1
    <3>1. ASSUME content[Manifest] \in Runs
          PROVE  content[Manifest] \in Nat /\ content[Manifest] <= run
      BY <2>2, <3>1 DEF OlderInv
    <3>2. QED
      BY ONLY <2>2, <3>1
  <2>4. OldListed' = Listed /\ Old' = content[Manifest]
    BY <2>1, <2>2, <2>3 DEF OldListed, Old, Listed
  <2>5. QED
    BY <2>1, <2>4 DEF OwnedBefore, NoOrphans
<1>2. CASE UNCHANGED runVars
  <2>1. messy => messy'
    BY <1>2 DEF Next, D2Next, UserNext, vars, endVars,
         UserEdit, UserPut, UserDelete, UserMakeRoot, UserActs, Begin, LookAgain,
         RenameStage, Plan, Finish, Backup, Verify, Abort, UndoFile, RollsBack, MakeDir,
         RemoveDir, UndoRemoveDir, UndoMakeDir, Install, Wrote, NextItem, CopyDone,
         Remove, NextPhase, Done, FailEarly, FailApply, FailAfterInstall, FailReplace,
         FailUndo, Crash
  <2>2. QED
    BY <1>2, <2>1, RunFixed DEF OwnedBefore
<1>3. QED
  BY <1>1, <1>2 DEF Next, D2Next, UserNext, vars, endVars,
       UserEdit, UserPut, UserDelete, UserMakeRoot, UserActs, LookAgain,
       RenameStage, Plan, Finish, Backup, Verify, Abort, UndoFile, RollsBack, MakeDir,
       RemoveDir, UndoRemoveDir, UndoMakeDir, Install, Wrote, NextItem, CopyDone,
       Remove, NextPhase, Done, FailEarly, FailApply, FailAfterInstall, FailReplace,
       FailUndo, Crash


LEMMA EndNext == CoreInv /\ EndInv /\ [Next]_vars => EndInv'
<1> SUFFICES ASSUME CoreInv, EndInv, [Next]_vars PROVE EndInv'
  OBVIOUS
<1>i. ASSUME pc' # "idle" PROVE EndInv'
  BY <1>i DEF EndInv
<1>n. ASSUME NEW r \in {"ok", "error", "killed"}, NEW t \in BOOLEAN, Finish(r, t)
      PROVE  EndInv'
  BY <1>n DEF EndInv, Finish
<1>c. CurInv /\ TreeTypes /\ Files \subseteq Paths /\ rbErr \in BOOLEAN
  BY TypeParts DEF CoreInv, TypeInv, TxTypes, Paths
<1>1. CASE UNCHANGED <<content, pc, endVars>>
  BY <1>1 DEF vars, treeVars, txVars, endVars, runVars, atVars, EndInv
<1>2. ASSUME NEW f \in Files, UserEdit(f) PROVE EndInv'
  BY <1>2, <1>c DEF UserEdit, UserActs, TreeTypes, EndInv, endVars, atVars
<1>3. ASSUME NEW f \in Files, UserPut(f) PROVE EndInv'
  BY <1>3, <1>c DEF UserPut, UserActs, TreeTypes, EndInv, endVars, atVars
<1>4. ASSUME NEW f \in Files, UserDelete(f) PROVE EndInv'
  BY <1>4, <1>c DEF UserDelete, UserActs, TreeTypes, EndInv, endVars, atVars
<1>5. ASSUME NEW S \in SUBSET Files, Begin(S) PROVE EndInv'
  <2>1. pc' # "idle"
    BY <1>5 DEF Begin, Goto
  <2>2. QED
    BY <2>1, <1>i
<1>6. CASE LookAgain
  BY <1>6, <1>i DEF LookAgain, Goto
<1>7. CASE RenameStage
  <2>1. Finish("ok", TRUE) \/ Finish("error", FALSE)
    BY <1>7 DEF RenameStage
  <2>2. QED
    BY <2>1, <1>n
<1>8. CASE Plan
  <2>1. Finish("error", FALSE) \/ pc' # "idle"
    BY <1>8 DEF Plan, Goto
  <2>2. QED
    BY <2>1, <1>i, <1>n
<1>9. ASSUME NEW p \in Paths, Backup(p) PROVE EndInv'
  BY <1>9, <1>i DEF Backup
<1>10. ASSUME NEW p \in Paths, Verify(p) PROVE EndInv'
  <2>1. pc' # "idle"
    BY <1>10 DEF Verify, Abort, Goto
  <2>2. QED
    BY <2>1, <1>i
<1>11. ASSUME NEW d \in Dirs, MakeDir(d) PROVE EndInv'
  BY <1>11, <1>i DEF MakeDir
<1>12. CASE Install
  <2>1. pc' # "idle"
    BY <1>12 DEF Install, NextItem, Abort, Goto
  <2>2. QED
    BY <2>1, <1>i
<1>13. CASE CopyDone
  BY <1>13, <1>i, <1>c DEF CopyDone, NextItem, CurInv
<1>14. CASE Remove
  <2>1. pc' # "idle"
    BY <1>14 DEF Remove, NextItem, Abort, Goto
  <2>2. QED
    BY <2>1, <1>i
<1>15. ASSUME NEW d \in Dirs, RemoveDir(d) PROVE EndInv'
  BY <1>15, <1>i DEF RemoveDir
<1>16. CASE NextPhase
  <2>1. pc' # "idle"
    BY <1>16 DEF NextPhase, Goto
  <2>2. QED
    BY <2>1, <1>i
<1>17. CASE Done
  <2>1. Finish("ok", TRUE) \/ Finish("error", rbErr)
    BY <1>17 DEF Done
  <2>2. QED
    BY <2>1, <1>n, <1>c
<1>18. CASE FailEarly
  <2>1. Finish("error", FALSE)
    BY <1>18 DEF FailEarly
  <2>2. QED
    BY <2>1, <1>n
<1>19. CASE FailApply
  BY <1>19, <1>i DEF FailApply, Fault, Abort, Goto
<1>20. CASE FailAfterInstall
  BY <1>20, <1>i DEF FailAfterInstall, Fault, Wrote, Abort, Goto
<1>21. CASE FailReplace
  BY <1>21, <1>i DEF FailReplace, Fault, Abort, Goto
<1>22. ASSUME NEW item \in Paths \cup Dirs, FailUndo(item) PROVE EndInv'
  <2>1. pc' # "idle"
    BY <1>22 DEF FailUndo, RollsBack
  <2>2. QED
    BY <2>1, <1>i
<1>23. ASSUME NEW p \in Paths, UndoFile(p) PROVE EndInv'
  BY <1>23, <1>i DEF UndoFile, RollsBack
<1>24. ASSUME NEW d \in Dirs, UndoRemoveDir(d) PROVE EndInv'
  BY <1>24, <1>i DEF UndoRemoveDir, RollsBack
<1>25. ASSUME NEW d \in Dirs, UndoMakeDir(d) PROVE EndInv'
  BY <1>25, <1>i DEF UndoMakeDir, RollsBack
<1>26. CASE Crash
  <2>1. Finish("killed", FALSE)
    BY <1>26 DEF Crash
  <2>2. QED
    BY <2>1, <1>n
<1>27. QED
  BY <1>1, <1>2, <1>3, <1>4, <1>5, <1>6, <1>7, <1>8, <1>9, <1>10, <1>11,
     <1>12, <1>13, <1>14, <1>15, <1>16, <1>17, <1>18, <1>19, <1>20, <1>21,
     <1>22, <1>23, <1>24, <1>25, <1>26
     DEF Next, D2Next, UserNext, vars, treeVars, txVars, endVars, runVars,
         atVars, UserMakeRoot, UserActs

\* Unless a run was killed or could not roll back, every file d2 generated is
\* listed in the manifest with its digest, so that a later run can recognise it.
\* It follows from how a run ends: a success leaves what it lists (SuccessInv), a
\* failure leaves what there was (FailedInv), and that was listed (OwnedBefore).
THEOREM NoOrphansHolds == Spec => []NoOrphans
<1> DEFINE IInv == ApplyInv /\ RestoreInv /\ SuccessInv /\ FailedInv /\ OlderInv
                   /\ OwnedBefore /\ EndInv
<1>1. Init => IInv
  <2> SUFFICES ASSUME Init PROVE IInv
    OBVIOUS
  <2>1. RestoreInv /\ FailedInv /\ EndInv
    BY DEF Init, RestoreInv, FailedInv, EndInv, Paths
  <2>2. \A p \in Paths : content[p] = Absent /\ before.content[p] = Absent
    BY DEF Init
  <2>3. OlderInv /\ OwnedBefore
    BY <2>2, ContentFacts DEF OlderInv, OwnedBefore, Old, Paths
  <2>4. QED
    BY <2>1, <2>3, ApplyInit
<1>2. IInv => NoOrphans
  BY EndedClean DEF ApplyInv
<1>3. IInv /\ [Next]_vars => IInv'
  BY <1>2, ApplyNext, RestoreNext, SuccessNext, FailedNext, OlderNext,
     OwnedNext, EndNext
     DEF ApplyInv
<1>4. QED
  BY <1>1, <1>2, <1>3, PTL DEF Spec


=============================================================================
