---------------------------- MODULE BoardPublish ----------------------------
(***************************************************************************)
(* How d2 publishes the files of a multi-board diagram into an output      *)
(* directory (d2cli/board_output_publish.go).  A run renders into a        *)
(* private staging directory; publishBoardOutputWorkspace then installs    *)
(* the staged files, removes the files an earlier run generated and nobody *)
(* changed since, and finally installs the manifest that says what d2 owns. *)
(* A failing step rolls the transaction back.  The user may edit the tree  *)
(* at any time, any operation on it may fail, and d2 may be killed.        *)
(*                                                                         *)
(* The content of a path is 0 (absent), n \in Runs (what run n generated), *)
(* User or Partial; two files have the same digest when their contents are *)
(* equal.  The manifest of run n lists Staged(n), each with digest n, so   *)
(* content n of the path Manifest stands for it.  os.SameFile compares     *)
(* identities: ident says whether the file at a path is the one that was   *)
(* backed up, the one this run installed, or another.                      *)
(***************************************************************************)
EXTENDS Naturals, FiniteSets

CONSTANTS
    Files,          \* paths of board files
    Dirs,           \* directories below the output root
    DirOf,          \* DirOf[f]: the directory of f, or Root
    MaxRuns,        \* bound: publications
    MaxUser,        \* bound: user actions
    MaxFaults,      \* bound: failing file system operations
    MaxCrashes,     \* bound: kills of the process
    WindowOpen      \* a user action may fall between the last digest check of
                    \* a stale file and its removal

Root == "root"
Manifest == ".manifest"

Runs == 1..MaxRuns
Absent == 0
User == MaxRuns + 1
Partial == MaxRuns + 2

Contents == 0..(MaxRuns + 2)
Identities == {"orig", "installed", "other"}

Paths == Files \cup {Manifest}

ASSUME PathAssumption ==
    /\ Manifest \notin Files /\ "" \notin Files /\ Root \notin Dirs
    /\ DirOf \in [Files -> Dirs \cup {Root}]
ASSUME BoundAssumption ==
    MaxRuns \in Nat /\ MaxUser \in Nat /\ MaxFaults \in Nat /\ MaxCrashes \in Nat
ASSUME SwitchAssumption == WindowOpen \in BOOLEAN

VARIABLES
    rootExists, \* the output directory is there
    content,    \* content[p]: what the path holds
    ident,      \* ident[p]: "orig", "installed" or "other"
    dirs,       \* the directories that exist
    run,        \* number of the newest run
    staged,     \* staged[n]: files run n generated
    pc,         \* where publishBoardOutputWorkspace stands, "idle" between runs
    todo,       \* what the current phase has still to visit
    cur,        \* the path applyChange is at, "" if none
    copying,    \* cur is being filled by copyBoardOutputFileExclusive
    stale,      \* removals of this transaction
    backup,     \* backup[p]: saved content, Absent when p did not exist
    skip,       \* changes dropped because the user edited the file
    applied,    \* appliedChanges
    noInfo,     \* applied changes whose installedInfo is nil
    madeDirs,   \* createdDirs
    goneDirs,   \* removedDirs
    rbErr,      \* rollback has met an error
    outcome,    \* of the newest finished run: "none", "ok", "error", "killed"
    touched,    \* what publishBoardOutputWorkspace returned as touched
    before,     \* history: the tree when the newest run began
    canLink,    \* the file system has hard links
    userFiles,  \* history: files the user touched during the newest run
    messy,      \* history: some run was killed or failed to roll back
    acts, faults, crashes

treeVars == <<rootExists, content, ident, dirs>>
txVars == <<stale, backup, skip, applied, noInfo, madeDirs, goneDirs, rbErr>>
endVars == <<outcome, touched, messy>>
runVars == <<run, staged, before, canLink>>
atVars == <<pc, todo, cur, copying>>
vars == <<treeVars, txVars, endVars, runVars, atVars, userFiles, acts, faults,
          crashes>>

DirsOf(S) == {DirOf[f] : f \in S} \ {Root}
Now == IF run = 0 THEN {} ELSE staged[run]

\* The files the manifest on disk lists; each is listed with the digest
\* content[Manifest].
Listed == IF content[Manifest] \in Runs THEN staged[content[Manifest]] ELSE {}

Empty(d) == \A f \in Files : DirOf[f] = d => content[f] = Absent

Applying == {"backup", "mkdirs", "install", "remove", "rmdirs", "manifest"}
Phases == {"idle", "first", "rename", "plan", "undoDirs", "undoFiles",
           "undoMkdirs"} \cup Applying

TypeOK ==
    /\ rootExists \in BOOLEAN
    /\ content \in [Paths -> Contents]
    /\ ident \in [Paths -> Identities]
    /\ dirs \subseteq Dirs
    /\ run \in 0..MaxRuns
    /\ staged \in [Runs -> SUBSET Files]
    /\ pc \in Phases
    /\ todo \subseteq Paths \cup Dirs
    /\ cur \in Paths \cup {""}
    /\ copying \in BOOLEAN
    /\ stale \subseteq Files
    /\ backup \in [Paths -> Contents]
    /\ skip \subseteq stale
    /\ applied \subseteq Paths
    /\ noInfo \subseteq applied
    /\ madeDirs \subseteq Dirs
    /\ goneDirs \subseteq Dirs
    /\ rbErr \in BOOLEAN
    /\ outcome \in {"none", "ok", "error", "killed"}
    /\ touched \in BOOLEAN
    /\ before \in [content : [Paths -> Contents], dirs : SUBSET Dirs]
    /\ canLink \in BOOLEAN
    /\ userFiles \subseteq Files
    /\ messy \in BOOLEAN
    /\ acts \in 0..MaxUser
    /\ faults \in 0..MaxFaults
    /\ crashes \in 0..MaxCrashes

NoTransaction ==
    /\ stale' = {} /\ backup' = [p \in Paths |-> Absent] /\ skip' = {}
    /\ applied' = {} /\ noInfo' = {} /\ madeDirs' = {} /\ goneDirs' = {}
    /\ rbErr' = FALSE /\ todo' = {} /\ cur' = "" /\ copying' = FALSE

Init ==
    /\ rootExists \in BOOLEAN
    /\ content = [p \in Paths |-> Absent]
    /\ ident = [p \in Paths |-> "other"]
    /\ dirs \in IF rootExists THEN SUBSET Dirs ELSE {{}}
    /\ run = 0 /\ staged = [n \in Runs |-> {}]
    /\ pc = "idle" /\ todo = {} /\ cur = "" /\ copying = FALSE
    /\ stale = {} /\ backup = [p \in Paths |-> Absent] /\ skip = {}
    /\ applied = {} /\ noInfo = {} /\ madeDirs = {} /\ goneDirs = {}
    /\ rbErr = FALSE
    /\ outcome = "none" /\ touched = FALSE /\ messy = FALSE
    /\ before = [content |-> content, dirs |-> dirs]
    /\ canLink \in BOOLEAN
    /\ userFiles = {}
    /\ acts = 0 /\ faults = 0 /\ crashes = 0

-----------------------------------------------------------------------------
(* The user                                                                *)

\* The window between verifying a stale file and removing it.
InWindow == pc = "remove" /\ cur # ""

UserActs(S) ==
    /\ acts < MaxUser
    /\ InWindow => WindowOpen
    /\ acts' = acts + 1
    /\ userFiles' = userFiles \cup S
    /\ UNCHANGED <<txVars, endVars, runVars, atVars, faults, crashes>>

\* A file is written in place.
UserEdit(f) ==
    /\ content[f] # Absent
    /\ content' = [content EXCEPT ![f] = User]
    /\ UNCHANGED <<rootExists, ident, dirs>>
    /\ UserActs({f})

\* A file is created, or replaced by another one.
UserPut(f) ==
    /\ rootExists /\ DirOf[f] \in dirs \cup {Root}
    /\ content' = [content EXCEPT ![f] = User]
    /\ ident' = [ident EXCEPT ![f] = "other"]
    /\ UNCHANGED <<rootExists, dirs>>
    /\ UserActs({f})

UserDelete(f) ==
    /\ content[f] # Absent
    /\ content' = [content EXCEPT ![f] = Absent]
    /\ UNCHANGED <<rootExists, ident, dirs>>
    /\ UserActs({f})

UserMakeRoot ==
    /\ ~rootExists
    /\ rootExists' = TRUE
    /\ UNCHANGED <<content, ident, dirs>>
    /\ UserActs({})

-----------------------------------------------------------------------------
(* Beginning and ending a publication                                      *)

Goto(phase, work) ==
    /\ pc' = phase
    /\ todo' = work
    /\ cur' = "" /\ copying' = FALSE

Finish(result, isTouched) ==
    /\ pc' = "idle"
    /\ outcome' = result
    /\ touched' = isTouched
    /\ messy' = (messy \/ result = "killed" \/ (result = "error" /\ isTouched))
    /\ NoTransaction
    /\ UNCHANGED <<runVars, userFiles, acts>>

\* A run has rendered the boards S and calls publishBoardOutputWorkspace.
Begin(S) ==
    /\ pc = "idle" /\ run < MaxRuns /\ S # {}
    /\ run' = run + 1
    /\ staged' = [staged EXCEPT ![run + 1] = S]
    /\ before' = [content |-> content, dirs |-> dirs]
    /\ userFiles' = {}
    /\ Goto(IF rootExists THEN "plan" ELSE "first", {})
    /\ UNCHANGED <<treeVars, txVars, endVars, canLink, acts, faults, crashes>>

\* There was no output directory: look again before renaming the stage.
LookAgain ==
    /\ pc = "first"
    /\ Goto(IF rootExists THEN "plan" ELSE "rename", {})
    /\ UNCHANGED <<treeVars, txVars, endVars, runVars, userFiles, acts, faults,
                   crashes>>

\* os.Rename puts the whole stage in place; an empty directory that appeared
\* meanwhile is replaced, any other makes it fail.
RenameStage ==
    /\ pc = "rename"
    /\ LET free == dirs = {} /\ \A p \in Paths : content[p] = Absent
       IN  IF free
           THEN /\ rootExists' = TRUE
                /\ content' = [p \in Paths |->
                                 IF p \in Now \cup {Manifest} THEN run ELSE Absent]
                /\ ident' = [p \in Paths |-> "other"]
                /\ dirs' = DirsOf(Now)
                /\ Finish("ok", TRUE)
           ELSE UNCHANGED treeVars /\ Finish("error", FALSE)
    /\ UNCHANGED <<faults, crashes>>

\* Mutant: staleFileChanges finds nothing.
PlanForgetsStale ==
    /\ pc = "plan"
    /\ stale' = {}
    /\ Goto("backup", Now \cup {Manifest})
    /\ UNCHANGED <<backup, skip, applied, noInfo, madeDirs, goneDirs, rbErr,
                   endVars, runVars, userFiles, acts, treeVars, faults, crashes>>

\* staleFileChanges.  A manifest that cannot be decoded ends the publication.
Plan ==
    /\ pc = "plan"
    /\ IF content[Manifest] = Partial
       THEN Finish("error", FALSE)
       ELSE LET gone == {f \in Listed \ Now : content[f] = content[Manifest]}
            IN  /\ stale' = gone
                /\ Goto("backup", Now \cup gone \cup {Manifest})
                /\ UNCHANGED <<backup, skip, applied, noInfo, madeDirs, goneDirs,
                               rbErr, endVars, runVars, userFiles, acts>>
    /\ UNCHANGED <<treeVars, faults, crashes>>

-----------------------------------------------------------------------------
(* apply                                                                   *)

Existed(p) == backup[p] # Absent

\* prepareBackups, one change.
Backup(p) ==
    /\ pc = "backup" /\ p \in todo
    /\ todo' = todo \ {p}
    /\ backup' = [backup EXCEPT ![p] = content[p]]
    /\ ident' = IF content[p] = Absent THEN ident ELSE [ident EXCEPT ![p] = "orig"]
    /\ skip' = IF p \in stale /\ content[p] \notin {Absent, content[Manifest]}
               THEN skip \cup {p} ELSE skip
    /\ UNCHANGED <<rootExists, content, dirs, stale, applied, noInfo, madeDirs,
                   goneDirs, rbErr, endVars, runVars, pc, cur, copying, userFiles,
                   acts, faults, crashes>>

\* ensureDirectory.
MakeDir(d) ==
    /\ pc = "mkdirs" /\ d \in todo
    /\ todo' = todo \ {d}
    /\ dirs' = dirs \cup {d}
    /\ madeDirs' = IF d \in dirs THEN madeDirs ELSE madeDirs \cup {d}
    /\ UNCHANGED <<rootExists, content, ident, stale, backup, skip, applied, noInfo,
                   goneDirs, rbErr, endVars, runVars, pc, cur, copying, userFiles,
                   acts, faults, crashes>>

\* apply returns an error: rollback begins.
Abort ==
    /\ Goto("undoDirs", goneDirs)
    /\ UNCHANGED <<stale, backup, skip, madeDirs, goneDirs, rbErr, endVars, runVars,
                   userFiles, acts, crashes>>

\* The file still is what was backed up, or is still absent.
Unchanged(p) == IF Existed(p) THEN content[p] # Absent /\ ident[p] = "orig"
                              ELSE content[p] = Absent

\* Mutant: applyChange neither honours skip nor compares the digest of a stale file.
VerifyNoDigest(p) ==
    /\ pc \in {"install", "manifest", "remove"} /\ cur = "" /\ p \in todo
    /\ UNCHANGED <<treeVars, applied, noInfo, faults>>
    /\ IF Unchanged(p)
       THEN /\ todo' = todo \ {p} /\ cur' = p
            /\ UNCHANGED <<stale, backup, skip, madeDirs, goneDirs, rbErr, endVars,
                           runVars, pc, copying, userFiles, acts, crashes>>
       ELSE Abort

\* applyChange up to the point where it changes the tree.
Verify(p) ==
    /\ pc \in {"install", "manifest", "remove"} /\ cur = "" /\ p \in todo
    /\ UNCHANGED <<treeVars, applied, noInfo, faults>>
    /\ \/ /\ p \in stale /\ (p \in skip \/ ~Existed(p))
          /\ todo' = todo \ {p}
          /\ UNCHANGED <<stale, backup, skip, madeDirs, goneDirs, rbErr, endVars,
                         runVars, pc, cur, copying, userFiles, acts, crashes>>
       \/ /\ ~(p \in stale /\ (p \in skip \/ ~Existed(p)))
          /\ ~Unchanged(p)
          /\ Abort
       \/ /\ ~(p \in stale /\ (p \in skip \/ ~Existed(p)))
          /\ Unchanged(p)
          /\ todo' = todo \ {p}
          /\ IF p \in stale /\ content[p] # content[Manifest]
             THEN skip' = skip \cup {p} /\ cur' = cur
             ELSE skip' = skip /\ cur' = p
          /\ UNCHANGED <<stale, backup, madeDirs, goneDirs, rbErr, endVars, runVars,
                         pc, copying, userFiles, acts, crashes>>

Wrote(p, c) ==
    /\ content' = [content EXCEPT ![p] = c]
    /\ ident' = [ident EXCEPT ![p] = "installed"]
    /\ applied' = applied \cup {p}
    /\ UNCHANGED <<rootExists, dirs>>

NextItem ==
    /\ cur' = "" /\ copying' = FALSE
    /\ UNCHANGED <<stale, backup, skip, madeDirs, goneDirs, rbErr, endVars, runVars,
                   pc, todo, userFiles, acts, crashes>>

\* installBoardOutputFile: rename over the old file, or link, or, without hard
\* links, create and copy.  A destination that appeared refuses the link.
Install ==
    /\ pc \in {"install", "manifest"} /\ cur # "" /\ ~copying
    /\ UNCHANGED <<noInfo, faults>>
    /\ \/ /\ Existed(cur) \/ (canLink /\ content[cur] = Absent)
          /\ Wrote(cur, run)
          /\ NextItem
       \/ /\ ~Existed(cur) /\ content[cur] # Absent
          /\ UNCHANGED <<treeVars, applied>>
          /\ Abort
       \/ /\ ~Existed(cur) /\ ~canLink /\ content[cur] = Absent
          /\ Wrote(cur, Partial)
          /\ copying' = TRUE
          /\ UNCHANGED <<stale, backup, skip, madeDirs, goneDirs, rbErr, endVars,
                         runVars, pc, todo, cur, userFiles, acts, crashes>>

CopyDone ==
    /\ copying
    /\ content' = IF content[cur] = Partial THEN [content EXCEPT ![cur] = run]
                                            ELSE content
    /\ NextItem
    /\ UNCHANGED <<rootExists, ident, dirs, applied, noInfo, faults>>

\* The last step of applyChange for a stale file.  It removes the file the path
\* names now.
Remove ==
    /\ pc = "remove" /\ cur # ""
    /\ UNCHANGED <<rootExists, ident, dirs, faults>>
    /\ IF content[cur] = Absent
       THEN UNCHANGED <<content, applied, noInfo>> /\ Abort
       ELSE /\ content' = [content EXCEPT ![cur] = Absent]
            /\ applied' = applied \cup {cur}
            /\ noInfo' = noInfo \cup {cur}
            /\ NextItem

\* Mutant: removeStaleDirectories leaves the directories it finds.
RemoveDirSkipped(d) ==
    /\ pc = "rmdirs" /\ d \in todo
    /\ todo' = todo \ {d}
    /\ UNCHANGED <<treeVars, txVars, endVars, runVars, pc, cur, copying, userFiles,
                   acts, faults, crashes>>

\* removeStaleDirectories, one directory.
RemoveDir(d) ==
    /\ pc = "rmdirs" /\ d \in todo
    /\ todo' = todo \ {d}
    /\ IF d \in dirs /\ Empty(d)
       THEN dirs' = dirs \ {d} /\ goneDirs' = goneDirs \cup {d}
       ELSE UNCHANGED <<dirs, goneDirs>>
    /\ UNCHANGED <<rootExists, content, ident, stale, backup, skip, applied, noInfo,
                   madeDirs, rbErr, endVars, runVars, pc, cur, copying, userFiles,
                   acts, faults, crashes>>

\* apply goes on to its next loop, and rollback to its.
NextPhase ==
    /\ todo = {} /\ cur = ""
    /\ \/ pc = "backup" /\ Goto("mkdirs", DirsOf(Now))
       \/ pc = "mkdirs" /\ Goto("install", Now)
       \/ pc = "install" /\ Goto("remove", stale)
       \/ pc = "remove" /\ Goto("rmdirs", DirsOf(Listed) \ DirsOf(Now))
       \/ pc = "rmdirs" /\ Goto("manifest", {Manifest})
       \/ pc = "undoDirs" /\ Goto("undoFiles", applied)
       \/ pc = "undoFiles" /\ Goto("undoMkdirs", madeDirs)
    /\ UNCHANGED <<treeVars, txVars, endVars, runVars, userFiles, acts, faults,
                   crashes>>

Done ==
    /\ todo = {} /\ cur = ""
    /\ \/ pc = "manifest" /\ Finish("ok", TRUE)
       \/ pc = "undoMkdirs" /\ Finish("error", rbErr)
    /\ UNCHANGED <<treeVars, faults, crashes>>

-----------------------------------------------------------------------------
(* Failing operations                                                      *)

Fault ==
    /\ faults < MaxFaults
    /\ faults' = faults + 1

FailEarly ==
    /\ pc \in {"first", "rename", "plan"}
    /\ Fault
    /\ Finish("error", FALSE)
    /\ UNCHANGED <<treeVars, crashes>>

\* An operation of apply fails and changes nothing; a failing copy leaves what
\* it has written.
FailApply ==
    /\ pc \in Applying /\ (todo # {} \/ cur # "")
    /\ Fault
    /\ Abort
    /\ UNCHANGED <<treeVars, applied, noInfo>>

\* Mutant: installBoardOutputFile reports a file it has put in place as not applied.
FailAfterInstallUnreported ==
    /\ pc \in {"install", "manifest"} /\ cur # "" /\ ~copying
    /\ Existed(cur) \/ content[cur] = Absent
    /\ Fault
    /\ content' = [content EXCEPT ![cur] = IF canLink THEN run ELSE Partial]
    /\ UNCHANGED <<rootExists, dirs, ident, applied, noInfo>>
    /\ Abort

\* The file is in place, but the Lstat after it fails (no installedInfo) or the
\* temporary name cannot be removed; likewise the Stat of a created file.
FailAfterInstall ==
    /\ pc \in {"install", "manifest"} /\ cur # "" /\ ~copying
    /\ Existed(cur) \/ content[cur] = Absent
    /\ Fault
    /\ IF Existed(cur) \/ canLink
       THEN Wrote(cur, run) /\ noInfo' \in {noInfo, noInfo \cup {cur}}
       ELSE Wrote(cur, Partial) /\ noInfo' = noInfo \cup {cur}
    /\ Abort

\* The rename fails, the old file is removed, and the second rename fails too.
FailReplace ==
    /\ pc \in {"install", "manifest"} /\ cur # "" /\ ~copying
    /\ Existed(cur) /\ content[cur] # Absent
    /\ Fault
    /\ content' = [content EXCEPT ![cur] = Absent]
    /\ applied' = applied \cup {cur}
    /\ noInfo' = noInfo \cup {cur}
    /\ UNCHANGED <<rootExists, ident, dirs>>
    /\ Abort

-----------------------------------------------------------------------------
(* rollback                                                                *)

RollsBack(item) ==
    /\ item \in todo
    /\ todo' = todo \ {item}
    /\ UNCHANGED <<rootExists, stale, backup, skip, applied, noInfo, madeDirs,
                   goneDirs, endVars, runVars, pc, cur, copying, userFiles, acts,
                   crashes>>

UndoRemoveDir(d) ==
    /\ pc = "undoDirs" /\ RollsBack(d)
    /\ dirs' = dirs \cup {d}
    /\ UNCHANGED <<content, ident, rbErr, faults>>

\* The path still holds what this transaction put there.
Ours(p) == IF p \in noInfo THEN content[p] = Absent
                           ELSE content[p] # Absent /\ ident[p] = "installed"

Writable(p) == p # Manifest => DirOf[p] \in dirs \cup {Root}

\* rollbackBoardOutputFile: restore the backup, or remove the new file.
UndoFile(p) ==
    /\ pc = "undoFiles" /\ RollsBack(p)
    /\ IF Ours(p) /\ (Existed(p) => Writable(p))
       THEN /\ content' = [content EXCEPT ![p] = backup[p]]
            /\ ident' = [ident EXCEPT ![p] = "other"]
            /\ UNCHANGED rbErr
       ELSE rbErr' = TRUE /\ UNCHANGED <<content, ident>>
    /\ UNCHANGED <<dirs, faults>>

UndoMakeDir(d) ==
    /\ pc = "undoMkdirs" /\ RollsBack(d)
    /\ IF Empty(d) THEN dirs' = dirs \ {d} /\ UNCHANGED rbErr
                   ELSE rbErr' = TRUE /\ UNCHANGED dirs
    /\ UNCHANGED <<content, ident, faults>>

\* One step of rollback fails; restoring a file without hard links may leave a
\* part of it.
FailUndo(item) ==
    /\ pc \in {"undoDirs", "undoFiles", "undoMkdirs"} /\ RollsBack(item)
    /\ Fault
    /\ rbErr' = TRUE
    /\ \/ UNCHANGED content
       \/ /\ pc = "undoFiles" /\ item \in noInfo
          /\ Existed(item) /\ content[item] = Absent
          /\ Writable(item) /\ ~canLink
          /\ content' = [content EXCEPT ![item] = Partial]
    /\ UNCHANGED <<ident, dirs>>

\* The process is killed.
Crash ==
    /\ pc # "idle" /\ crashes < MaxCrashes
    /\ crashes' = crashes + 1
    /\ Finish("killed", FALSE)
    /\ UNCHANGED <<treeVars, faults>>

-----------------------------------------------------------------------------
UserNext ==
    \/ \E f \in Files : UserEdit(f) \/ UserPut(f) \/ UserDelete(f)
    \/ UserMakeRoot

D2Next ==
    \/ \E S \in SUBSET Files : Begin(S)
    \/ LookAgain \/ RenameStage \/ Plan
    \/ \E p \in Paths : Backup(p) \/ Verify(p) \/ UndoFile(p)
    \/ \E d \in Dirs : MakeDir(d) \/ RemoveDir(d) \/ UndoRemoveDir(d) \/ UndoMakeDir(d)
    \/ Install \/ CopyDone \/ Remove
    \/ NextPhase \/ Done
    \/ FailEarly \/ FailApply \/ FailAfterInstall \/ FailReplace
    \/ \E item \in Paths \cup Dirs : FailUndo(item)
    \/ Crash

Next == D2Next \/ UserNext

Spec == Init /\ [][Next]_vars

-----------------------------------------------------------------------------
(* Properties                                                              *)

\* When publishBoardOutputWorkspace returns an error and says that nothing was
\* touched, every file the user left alone and every directory are what they
\* were before the run: rollback restores replaced and removed files and
\* removes created ones, however far apply got and whatever failed in it.
RestoredOnFailure ==
    pc = "idle" /\ outcome = "error" /\ ~touched =>
        /\ \A p \in Paths \ userFiles : content[p] = before.content[p]
        /\ dirs = before.dirs

\* When it succeeds, the tree holds the new boards and the new manifest, the
\* unchanged files of the previous manifest that are no longer generated are
\* gone with the directories they leave empty, and everything else is as before.
CompleteOnSuccess ==
    pc = "idle" /\ outcome = "ok" =>
        LET old == before.content[Manifest]
            listed == IF old \in Runs THEN staged[old] ELSE {}
            dropped == {f \in listed \ Now : before.content[f] = old}
        IN  /\ content[Manifest] = run
            /\ \A f \in Files \ userFiles :
                 content[f] = IF f \in Now THEN run
                              ELSE IF f \in dropped THEN Absent
                              ELSE before.content[f]
            /\ DirsOf(Now) \subseteq dirs
            /\ \A d \in DirsOf(listed) \ DirsOf(Now) :
                 Empty(d) /\ (\A f \in userFiles : DirOf[f] # d) => d \notin dirs
            /\ \A d \in before.dirs \ DirsOf(listed) : d \in dirs

\* Unless a run was killed or could not roll back, every file d2 generated is
\* listed in the manifest with its digest: nothing d2 wrote is left behind that
\* a later run would take for the user's.
NoOrphans ==
    pc = "idle" /\ ~messy =>
        \A f \in Files : content[f] \in Runs \cup {Partial} =>
            f \in Listed /\ content[f] = content[Manifest]

\* No step of d2 destroys what the user wrote to a path that this run does not
\* generate: only unchanged generated files are removed.
UserFilesKept ==
    [][\A f \in Files \ Now :
         content[f] = User /\ acts' = acts => content'[f] = User]_vars

=============================================================================
