------------------------------- MODULE Watch -------------------------------
(***************************************************************************)
(* The file side of `d2 --watch` (d2cli/watch.go): watchLoop turns file    *)
(* system events, and a poll that makes up for lost ones, into compile     *)
(* requests; compileLoop compiles, brings the watch list in line with the  *)
(* files the compilation opened, and broadcasts the result; handleRoot     *)
(* changes the board being shown.  WatchClients models what happens to a   *)
(* result after broadcast; here a broadcast is one step.                   *)
(*                                                                         *)
(* A file's content is its version, which is also its modification time;   *)
(* 0 is "does not exist".  The input's content names the imports it uses.  *)
(* fsnotify and the user's edits are the environment.                      *)
(***************************************************************************)
EXTENDS Naturals

CONSTANTS
    Input,      \* w.inputPath
    Imports,    \* files the input may import
    Boards,     \* board paths a browser may ask for
    FirstBoard, \* the initial w.boardPath
    MaxEdits,   \* bound: edits by the user and page loads by browsers
    MayLose,    \* fsnotify may fail to report an event
    MayCancel,  \* d2 may be interrupted
    Edits       \* what users do: a subset of EditKinds

Files == {Input} \cup Imports

NoFile == "none"

\* "delete" is the deletion of a file that is being watched, "deleteAny" of any.
EditKinds == {"save", "replace", "chmod", "delete", "deleteAny"}

ASSUME FileAssumption == Input \notin Imports /\ NoFile \notin Files
ASSUME BoardAssumption == FirstBoard \in Boards
ASSUME BoundAssumption == MaxEdits \in Nat
ASSUME EnvironmentAssumption ==
    MayLose \in BOOLEAN /\ MayCancel \in BOOLEAN /\ Edits \subseteq EditKinds

VARIABLES
    file,       \* file[f]: version and modification time, 0 when missing
    uses,       \* imports named by the input's content
    edits,      \* number of user actions so far
    watchList,  \* w.fw.WatchList()
    live,       \* files whose current inode is being watched
    events,     \* events fsnotify has still to deliver: <<file, op>>
    wlAt,       \* watchLoop: "start", "select", "event", "poll", "exited"
    wlPath,     \* the path its ensureAddWatch works on
    wlOp,       \* the operation of the event it handles
    wlAdded,    \* fw.Add(wlPath) has succeeded, os.Stat is next
    pollRest,   \* paths the poll has still to visit after wlPath
    missed,     \* missedChanges of the poll
    lastMod,    \* lastModified, 0 for a path that is not in the map
    changed,    \* changed
    armed,      \* eatBurstTimer is running
    tick,       \* eatBurstTimer.C holds a tick
    compileCh,  \* compileCh (capacity 1) holds a request
    clAt,       \* compileLoop: "idle", "input", "imports", "add", "exited"
    clRest,     \* imports still to read, then opened files still to watch
    clPath,     \* the path its ensureAddWatch works on
    clAdded,    \* fw.Add(clPath) has succeeded, os.Stat is next
    opened,     \* trackedFS.opened
    snap,       \* what the running compilation has read
    published,  \* what the last broadcast result was compiled from
    boardPath,  \* w.boardPath
    asking,     \* handleRoot changed boardPath and has to request a compile
    cancelled   \* w.ctx is done

fsVars == <<file, uses, edits>>
fwVars == <<watchList, live, events>>
wlVars == <<wlAt, wlPath, wlOp, wlAdded, pollRest, missed, lastMod, changed,
            armed, tick>>
clVars == <<clAt, clRest, clPath, clAdded, opened, snap, published>>
rootVars == <<boardPath, asking>>
vars == <<fsVars, fwVars, wlVars, compileCh, clVars, rootVars, cancelled>>

Ops == {"write", "remove", "chmod"}
Versions == 0..(2 * MaxEdits + 1)
Snapshots == [input : Versions, board : Boards, import : [Imports -> Versions]]

\* What a compilation sees when it reads every file now.
Current == [input  |-> file[Input],
            board  |-> boardPath,
            import |-> [f \in Imports |->
                           IF f \in uses /\ file[Input] # 0 THEN file[f] ELSE 0]]

NothingRead == [input |-> 0, board |-> FirstBoard,
                import |-> [f \in Imports |-> 0]]

TypeOK ==
    /\ file \in [Files -> Versions]
    /\ uses \subseteq Imports
    /\ edits \in Versions
    /\ watchList \subseteq Files
    /\ live \subseteq Files
    /\ events \subseteq Files \X Ops
    /\ wlAt \in {"start", "select", "event", "poll", "exited"}
    /\ wlPath \in Files \cup {NoFile}
    /\ wlOp \in Ops \cup {NoFile}
    /\ wlAdded \in BOOLEAN
    /\ pollRest \subseteq Files
    /\ missed \in BOOLEAN
    /\ lastMod \in [Files -> Versions]
    /\ changed \subseteq Files
    /\ armed \in BOOLEAN
    /\ tick \in BOOLEAN
    /\ compileCh \in BOOLEAN
    /\ clAt \in {"idle", "input", "imports", "add", "exited"}
    /\ clRest \subseteq Imports
    /\ clPath \in Imports \cup {NoFile}
    /\ clAdded \in BOOLEAN
    /\ opened \subseteq Imports
    /\ snap \in Snapshots
    /\ published \in Snapshots
    /\ boardPath \in Boards
    /\ asking \in BOOLEAN
    /\ cancelled \in BOOLEAN

Init ==
    /\ file = [f \in Files |-> 1]
    /\ uses \in SUBSET Imports
    /\ edits = 1
    /\ watchList = {} /\ live = {} /\ events = {}
    /\ wlAt = "start" /\ wlPath = Input /\ wlOp = NoFile /\ wlAdded = FALSE
    /\ pollRest = {} /\ missed = FALSE
    /\ lastMod = [f \in Files |-> 0]
    /\ changed = {} /\ armed = FALSE /\ tick = FALSE
    /\ compileCh = FALSE
    /\ clAt = "idle" /\ clRest = {} /\ clPath = NoFile /\ clAdded = FALSE
    /\ opened = {}
    /\ snap = NothingRead /\ published = NothingRead
    /\ boardPath = FirstBoard /\ asking = FALSE
    /\ cancelled = FALSE

-----------------------------------------------------------------------------
(* The user and fsnotify                                                   *)

\* The inode of f stays: a live watch reports op, unless the event is lost.
NotifyInPlace(f, op) ==
    /\ \/ events' = IF f \in live THEN events \cup {<<f, op>>} ELSE events
       \/ MayLose /\ events' = events
    /\ UNCHANGED <<watchList, live>>

\* The inode of f goes: its watch dies, and fsnotify forgets the path when it
\* reports so.
NotifyGone(f) ==
    /\ live' = live \ {f}
    /\ \/ /\ events' = IF f \in live THEN events \cup {<<f, "remove">>} ELSE events
          /\ watchList' = IF f \in live THEN watchList \ {f} ELSE watchList
       \/ MayLose /\ UNCHANGED <<events, watchList>>

\* f gets a new content; the input's content decides what it imports.
NewContent(f) ==
    /\ edits' = edits + 1
    /\ file' = [file EXCEPT ![f] = edits + 1]
    /\ uses' \in IF f = Input THEN SUBSET Imports ELSE {uses}

SystemUnchanged == UNCHANGED <<wlVars, compileCh, clVars, rootVars, cancelled>>

Save(f) ==
    /\ "save" \in Edits /\ edits < MaxEdits /\ file[f] # 0
    /\ NewContent(f)
    /\ NotifyInPlace(f, "write")
    /\ SystemUnchanged

\* An editor saves by renaming a new file over the old one.
Replace(f) ==
    /\ "replace" \in Edits /\ edits < MaxEdits /\ file[f] # 0
    /\ NewContent(f)
    /\ NotifyGone(f)
    /\ SystemUnchanged

Chmod(f) ==
    /\ "chmod" \in Edits /\ edits < MaxEdits /\ file[f] # 0
    /\ edits' = edits + 1
    /\ NotifyInPlace(f, "chmod")
    /\ UNCHANGED <<file, uses>>
    /\ SystemUnchanged

Delete(f) ==
    /\ edits < MaxEdits /\ file[f] # 0
    /\ "deleteAny" \in Edits \/ ("delete" \in Edits /\ f \in live)
    /\ edits' = edits + 1
    /\ file' = [file EXCEPT ![f] = 0]
    /\ NotifyGone(f)
    /\ UNCHANGED uses
    /\ SystemUnchanged

\* A missing file is created.  Only existing files are watched, so nothing is
\* reported.
Create(f) ==
    /\ file[f] = 0
    /\ NewContent(f)
    /\ UNCHANGED fwVars
    /\ SystemUnchanged

-----------------------------------------------------------------------------
(* watchLoop                                                               *)

WatchLoopOnly == UNCHANGED <<fsVars, clVars, rootVars, cancelled>>

\* Back to the select of watchLoop.
ToSelect ==
    /\ wlAt' = "select" /\ wlPath' = NoFile /\ wlOp' = NoFile
    /\ wlAdded' = FALSE /\ pollRest' = {} /\ missed' = FALSE

\* Mutant: ensureAddWatch gives up when the file is not there.
WatchAddGivesUp ==
    /\ wlAt \in {"start", "event", "poll"} /\ ~wlAdded
    /\ \/ /\ file[wlPath] # 0
          /\ watchList' = watchList \cup {wlPath}
          /\ live' = live \cup {wlPath}
          /\ wlAdded' = TRUE
          /\ UNCHANGED <<wlAt, wlPath, wlOp, pollRest, missed>>
       \/ /\ file[wlPath] = 0
          /\ ToSelect
          /\ UNCHANGED <<watchList, live>>
    /\ UNCHANGED <<events, lastMod, changed, armed, tick, compileCh>>
    /\ WatchLoopOnly

\* addWatch, first half: fw.Add(path) works on an existing file.  While it
\* fails, ensureAddWatch sleeps and tries again.
WatchAdd ==
    /\ wlAt \in {"start", "event", "poll"} /\ ~wlAdded
    /\ file[wlPath] # 0
    /\ watchList' = watchList \cup {wlPath}
    /\ live' = live \cup {wlPath}
    /\ wlAdded' = TRUE
    /\ UNCHANGED <<events, wlAt, wlPath, wlOp, pollRest, missed, lastMod,
                   changed, armed, tick, compileCh>>
    /\ WatchLoopOnly

\* addWatch, second half: os.Stat finds the file gone again, so retry.
WatchStatFail ==
    /\ wlAdded /\ file[wlPath] = 0
    /\ wlAdded' = FALSE
    /\ UNCHANGED <<fwVars, wlAt, wlPath, wlOp, pollRest, missed, lastMod,
                   changed, armed, tick, compileCh>>
    /\ WatchLoopOnly

\* ensureAddWatch has returned path's modification time.
Stat(at) == wlAt = at /\ wlAdded /\ file[wlPath] # 0

\* The input is watched; the first compilation is requested.
StartDone ==
    /\ Stat("start")
    /\ lastMod' = [lastMod EXCEPT ![wlPath] = file[wlPath]]
    /\ compileCh' = TRUE
    /\ ToSelect
    /\ UNCHANGED <<fwVars, changed, armed, tick>>
    /\ WatchLoopOnly

\* The select delivers an event.
EventBegin ==
    /\ wlAt = "select"
    /\ \E ev \in events :
        /\ events' = events \ {ev}
        /\ wlPath' = ev[1] /\ wlOp' = ev[2]
    /\ wlAt' = "event"
    /\ UNCHANGED <<watchList, live, wlAdded, pollRest, missed, lastMod, changed,
                   armed, tick, compileCh>>
    /\ WatchLoopOnly

\* A Chmod that left the modification time alone is ignored.
EventBenign ==
    /\ Stat("event")
    /\ wlOp = "chmod" /\ file[wlPath] = lastMod[wlPath]
    /\ ToSelect
    /\ UNCHANGED <<fwVars, lastMod, changed, armed, tick, compileCh>>
    /\ WatchLoopOnly

\* Mutant: a timer whose Reset leaves an old tick in the channel, as before
\* Go 1.23.
EventChangedStaleTick ==
    /\ Stat("event")
    /\ wlOp # "chmod" \/ file[wlPath] # lastMod[wlPath]
    /\ lastMod' = IF wlOp = "chmod"
                  THEN [lastMod EXCEPT ![wlPath] = file[wlPath]] ELSE lastMod
    /\ changed' = changed \cup {wlPath}
    /\ armed' = TRUE
    /\ ToSelect
    /\ UNCHANGED <<fwVars, compileCh, tick>>
    /\ WatchLoopOnly

\* Any other event marks the path changed and restarts the burst timer; Reset
\* discards a tick that has not been received.
EventChanged ==
    /\ Stat("event")
    /\ wlOp # "chmod" \/ file[wlPath] # lastMod[wlPath]
    /\ lastMod' = IF wlOp = "chmod"
                  THEN [lastMod EXCEPT ![wlPath] = file[wlPath]] ELSE lastMod
    /\ changed' = changed \cup {wlPath}
    /\ armed' = TRUE /\ tick' = FALSE
    /\ ToSelect
    /\ UNCHANGED <<fwVars, compileCh>>
    /\ WatchLoopOnly

\* The 16 milliseconds are over.
BurstExpire ==
    /\ armed
    /\ armed' = FALSE /\ tick' = TRUE
    /\ UNCHANGED <<fwVars, wlAt, wlPath, wlOp, wlAdded, pollRest, missed,
                   lastMod, changed, compileCh>>
    /\ WatchLoopOnly

\* The select receives the tick: the burst becomes one compile request.
BurstDone ==
    /\ wlAt = "select" /\ tick
    /\ tick' = FALSE
    /\ changed' = {}
    /\ compileCh' = TRUE
    /\ UNCHANGED <<fwVars, wlAt, wlPath, wlOp, wlAdded, pollRest, missed,
                   lastMod, armed>>
    /\ WatchLoopOnly

\* The select receives from pollTicker: visit every path of the watch list.
PollBegin ==
    /\ wlAt = "select"
    /\ wlAt' = "poll"
    /\ \E f \in watchList : wlPath' = f /\ pollRest' = watchList \ {f}
    /\ UNCHANGED <<fwVars, wlOp, wlAdded, missed, lastMod, changed, armed, tick,
                   compileCh>>
    /\ WatchLoopOnly

\* The poll missed a change of wlPath when its time is new to lastModified.
PollMissed == missed \/ file[wlPath] # lastMod[wlPath]

PollNext ==
    /\ Stat("poll")
    /\ lastMod' = [lastMod EXCEPT ![wlPath] = file[wlPath]]
    /\ missed' = PollMissed
    /\ \E f \in pollRest : wlPath' = f /\ pollRest' = pollRest \ {f}
    /\ wlAdded' = FALSE
    /\ UNCHANGED <<fwVars, wlAt, wlOp, changed, armed, tick, compileCh>>
    /\ WatchLoopOnly

\* Mutant: the poll compares only paths it has a time for, so that a path
\* compileLoop began to watch looks unchanged.
PollDoneKnownOnly ==
    /\ Stat("poll") /\ pollRest = {}
    /\ lastMod' = [lastMod EXCEPT ![wlPath] = file[wlPath]]
    /\ compileCh' = (compileCh \/ missed \/
                     (lastMod[wlPath] # 0 /\ file[wlPath] # lastMod[wlPath]))
    /\ ToSelect
    /\ UNCHANGED <<fwVars, changed, armed, tick>>
    /\ WatchLoopOnly

PollDone ==
    /\ Stat("poll") /\ pollRest = {}
    /\ lastMod' = [lastMod EXCEPT ![wlPath] = file[wlPath]]
    /\ compileCh' = (compileCh \/ PollMissed)
    /\ ToSelect
    /\ UNCHANGED <<fwVars, changed, armed, tick>>
    /\ WatchLoopOnly

\* Mutant: ensureAddWatch sleeps without looking at ctx.
WatchLoopExitSelectOnly ==
    /\ cancelled /\ wlAt = "select"
    /\ wlAt' = "exited"
    /\ UNCHANGED <<fwVars, wlPath, wlOp, wlAdded, pollRest, missed, lastMod,
                   changed, armed, tick, compileCh>>
    /\ WatchLoopOnly

\* ctx.Done is seen in the select and in the sleep of ensureAddWatch.
WatchLoopExit ==
    /\ cancelled
    /\ \/ wlAt = "select"
       \/ wlAt \in {"start", "event", "poll"} /\ ~wlAdded /\ file[wlPath] = 0
    /\ wlAt' = "exited"
    /\ UNCHANGED <<fwVars, wlPath, wlOp, wlAdded, pollRest, missed, lastMod,
                   changed, armed, tick, compileCh>>
    /\ WatchLoopOnly

-----------------------------------------------------------------------------
(* compileLoop                                                             *)

CompileLoopOnly == UNCHANGED <<fsVars, wlVars, rootVars, cancelled>>

\* A request is taken and boardpathMu is held until every file is read.
CompileBegin ==
    /\ clAt = "idle" /\ compileCh
    /\ compileCh' = FALSE
    /\ snap' = [NothingRead EXCEPT !.board = boardPath]
    /\ opened' = {}
    /\ clAt' = "input"
    /\ UNCHANGED <<fwVars, clRest, clPath, clAdded, published>>
    /\ CompileLoopOnly

\* compile reads the input; without it nothing is imported.
ReadInput ==
    /\ clAt = "input"
    /\ snap' = [snap EXCEPT !.input = file[Input]]
    /\ clRest' = IF file[Input] = 0 THEN {} ELSE uses
    /\ clAt' = "imports"
    /\ UNCHANGED <<fwVars, compileCh, clPath, clAdded, opened, published>>
    /\ CompileLoopOnly

\* compile opens an import through trackedFS, which tracks it if it is there.
ReadImport(f) ==
    /\ clAt = "imports" /\ f \in clRest
    /\ snap' = [snap EXCEPT !.import[f] = file[f]]
    /\ opened' = IF file[f] = 0 THEN opened ELSE opened \cup {f}
    /\ clRest' = clRest \ {f}
    /\ UNCHANGED <<fwVars, compileCh, clAt, clPath, clAdded, published>>
    /\ CompileLoopOnly

\* Mutant: replaceWatchList forgets to spare the input file.
DropInputToo ==
    /\ clAt = "imports" /\ clRest = {}
    /\ watchList' = watchList \cap opened
    /\ live' = live \cap opened
    /\ clRest' = opened
    /\ clAt' = "add"
    /\ UNCHANGED <<events, compileCh, clPath, clAdded, opened, snap, published>>
    /\ CompileLoopOnly

\* The compilation is over and boardpathMu released; replaceWatchList stops
\* watching what was not opened.
DropUnused ==
    /\ clAt = "imports" /\ clRest = {}
    /\ watchList' = watchList \cap (opened \cup {Input})
    /\ live' = live \cap (opened \cup {Input})
    /\ clRest' = opened
    /\ clAt' = "add"
    /\ UNCHANGED <<events, compileCh, clPath, clAdded, opened, snap, published>>
    /\ CompileLoopOnly

\* replaceWatchList visits the next opened file; one that is already on the
\* watch list needs nothing.
AddVisit(f) ==
    /\ clAt = "add" /\ clPath = NoFile /\ f \in clRest
    /\ clRest' = clRest \ {f}
    /\ clPath' = IF f \in watchList THEN NoFile ELSE f
    /\ UNCHANGED <<fwVars, compileCh, clAt, clAdded, opened, snap, published>>
    /\ CompileLoopOnly

\* ensureAddWatch: fw.Add works on an existing file, else sleep and retry.
AddImport ==
    /\ clPath # NoFile /\ ~clAdded /\ file[clPath] # 0
    /\ watchList' = watchList \cup {clPath}
    /\ live' = live \cup {clPath}
    /\ clAdded' = TRUE
    /\ UNCHANGED <<events, compileCh, clAt, clRest, clPath, opened, snap, published>>
    /\ CompileLoopOnly

\* ensureAddWatch: os.Stat ends it, or finds the file gone again.
StatImport ==
    /\ clAdded
    /\ clAdded' = FALSE
    /\ clPath' = IF file[clPath] = 0 THEN clPath ELSE NoFile
    /\ UNCHANGED <<fwVars, compileCh, clAt, clRest, opened, snap, published>>
    /\ CompileLoopOnly

\* replaceWatchList returns and the result is broadcast.
Broadcast ==
    /\ clAt = "add" /\ clPath = NoFile /\ clRest = {}
    /\ published' = snap
    /\ clAt' = "idle"
    /\ UNCHANGED <<fwVars, compileCh, clRest, clPath, clAdded, opened, snap>>
    /\ CompileLoopOnly

CompileLoopExit ==
    /\ cancelled
    /\ \/ clAt = "idle"
       \/ clPath # NoFile /\ ~clAdded /\ file[clPath] = 0
    /\ clAt' = "exited"
    /\ clPath' = NoFile
    /\ UNCHANGED <<fwVars, compileCh, clRest, clAdded, opened, snap, published>>
    /\ CompileLoopOnly

-----------------------------------------------------------------------------
(* handleRoot and the context                                              *)

\* Mutant: handleRoot does not ask for a compilation of the new board.
HandleRootQuiet(b) ==
    /\ edits < MaxEdits /\ ~asking /\ b # boardPath
    /\ clAt \notin {"input", "imports"}
    /\ edits' = edits + 1
    /\ boardPath' = b
    /\ UNCHANGED <<file, uses, fwVars, wlVars, compileCh, clVars, asking, cancelled>>

\* A browser loads another board's page: handleRoot stores it under
\* boardpathMu, which compileLoop holds while it compiles ...
HandleRoot(b) ==
    /\ edits < MaxEdits /\ ~asking /\ b # boardPath
    /\ clAt \notin {"input", "imports"}
    /\ edits' = edits + 1
    /\ boardPath' = b
    /\ asking' = TRUE
    /\ UNCHANGED <<file, uses, fwVars, wlVars, compileCh, clVars, cancelled>>

\* ... and then requests a compilation.
HandleRootRequest ==
    /\ asking
    /\ compileCh' = TRUE
    /\ asking' = FALSE
    /\ UNCHANGED <<fsVars, fwVars, wlVars, clVars, boardPath, cancelled>>

Cancel ==
    /\ MayCancel /\ ~cancelled
    /\ cancelled' = TRUE
    /\ UNCHANGED <<fsVars, fwVars, wlVars, compileCh, clVars, rootVars>>

-----------------------------------------------------------------------------
User(f) == Save(f) \/ Replace(f) \/ Chmod(f) \/ Delete(f) \/ Create(f)

\* The steps watchLoop takes between two visits to its select.
WatchLoopBusy ==
    \/ WatchAdd \/ WatchStatFail \/ StartDone \/ EventBenign \/ EventChanged
    \/ PollNext \/ PollDone

CompileLoop ==
    \/ CompileBegin \/ ReadInput \/ DropUnused
    \/ AddImport \/ StatImport \/ Broadcast
    \/ \E f \in Imports : ReadImport(f) \/ AddVisit(f)

Next ==
    \/ \E f \in Files : User(f)
    \/ EventBegin \/ BurstExpire \/ BurstDone \/ PollBegin \/ WatchLoopBusy
    \/ WatchLoopExit
    \/ CompileLoop \/ CompileLoopExit
    \/ HandleRootRequest \/ \E b \in Boards : HandleRoot(b)
    \/ Cancel

Spec == Init /\ [][Next]_vars

\* The goroutines are scheduled and the timers expire.  Go's select picks
\* among its ready arms at random, so none is passed over for ever (SF).
Fairness ==
    /\ WF_vars(WatchLoopBusy) /\ WF_vars(BurstExpire)
    /\ SF_vars(EventBegin \/ BurstDone) /\ SF_vars(PollBegin)
    /\ WF_vars(CompileLoop)
    /\ WF_vars(HandleRootRequest)

\* The same of ctx.Done, once the context is cancelled.
ExitFairness == SF_vars(WatchLoopExit) /\ SF_vars(CompileLoopExit)

FairSpec == Spec /\ Fairness

StoppingSpec == FairSpec /\ ExitFairness

\* Users who bring back, sooner or later, every file they delete.
RecreatingSpec == FairSpec /\ \A f \in Files : WF_vars(Create(f))

-----------------------------------------------------------------------------
(* Properties                                                              *)

\* The burst timer never runs, and its tick is never received, with nothing in
\* changed: changedList[0] is there when watchLoop logs it.
BurstHasChange == armed \/ tick => changed # {}

\* Between compilations, every file the last one opened, and the input, is on
\* the watch list, or watchLoop is about to put it back there because it has
\* been told that its inode went away.
NoBlindSpot ==
    wlAt # "exited" /\ clAt = "idle" =>
        \A f \in opened \cup {Input} :
            \/ f \in watchList
            \/ <<f, "remove">> \in events
            \/ wlAt \in {"start", "event"} /\ wlPath = f

\* The version of f in the running, else in the last, compilation.
LastRead(f) == IF f = Input THEN snap.input ELSE snap.import[f]

\* No change of a file that matters is forgotten: while the newest compilation
\* shows an outdated version of it, a request, an event, a burst or a poll that
\* will notice it is on its way.
ChangeNoticed ==
    wlAt # "exited" /\ clAt # "exited" =>
        \A f \in opened \cup {Input} :
            \/ LastRead(f) = file[f]
            \/ compileCh \/ clAt = "input" \/ f \in changed
            \/ wlAt = "start" \/ (wlAt = "poll" /\ missed)
            \/ \E op \in {"write", "remove"} : <<f, op>> \in events
            \/ wlAt = "event" /\ wlPath = f /\ wlOp # "chmod"
            \/ lastMod[f] # file[f] \/ file[f] = 0

\* Once edits stop, the browsers show what is on disk, for the board they asked
\* for.
Converges == <>[](cancelled \/ published = Current)

\* ... also when files are deleted while they are watched, provided that they
\* come back, as with editors that save by deleting and creating.
ConvergesWhenRecreated == (\A f \in Files : []<>(file[f] # 0)) => Converges

\* Once edits stop, the browsers show the input as it is on disk, provided that
\* it and every file it imports are there.
InputReloads ==
    <>[](\/ cancelled
         \/ \E f \in {Input} \cup uses : file[f] = 0
         \/ published.input = file[Input])

\* Once edits stop, the browsers show the imported files as they are on disk.
ImportsReload == <>[](cancelled \/ published.import = Current.import)

\* Cancelling the context stops both loops, even those waiting for a file that
\* does not exist.
LoopsStop == cancelled ~> (wlAt = "exited" /\ clAt = "exited")

=============================================================================
