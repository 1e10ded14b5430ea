----------------------------- MODULE WatchMode -----------------------------
(***************************************************************************)
(* Watch mode as a whole (d2cli/watch.go): the file side of Watch and the  *)
(* serving side of WatchClients in one process.  They share w.ctx, which   *)
(* is cancelled, and two goroutines: the broadcast of compileLoop, which   *)
(* Watch makes one step of and WatchClients takes apart, and the ends of   *)
(* watchLoop and compileLoop, which run waits for before it closes.        *)
(***************************************************************************)
EXTENDS WatchClients

CONSTANTS Input, Imports, Boards, FirstBoard, MaxEdits, MayLose, MayCancel, Edits

VARIABLES file, uses, edits, watchList, live, events, wlAt, wlPath, wlOp, wlAdded,
          pollRest, missed, lastMod, changed, armed, tick, compileCh, clAt, clRest,
          clPath, clAdded, opened, snap, published, boardPath, asking

Disk == INSTANCE Watch

ASSUME DiskAssumption ==
    /\ Input \notin Imports /\ Disk!NoFile \notin Disk!Files
    /\ FirstBoard \in Boards
    /\ MaxEdits \in Nat

diskVars == <<file, uses, edits, watchList, live, events, wlAt, wlPath, wlOp,
              wlAdded, pollRest, missed, lastMod, changed, armed, tick, compileCh,
              clAt, clRest, clPath, clAdded, opened, snap, published, boardPath,
              asking>>
modeVars == <<vars, diskVars>>

ModeInit == Init /\ Disk!Init

-----------------------------------------------------------------------------
(* Steps of both sides                                                     *)

\* compileLoop stores what it has compiled in w.res.
Publish == BroadcastStore /\ Disk!Broadcast

WatchLoopReturns == LoopExit("watchLoop") /\ Disk!WatchLoopExit
CompileLoopReturns == CompileLoopExit /\ Disk!CompileLoopExit

-----------------------------------------------------------------------------
(* Steps of one side                                                       *)

\* compileLoop up to the broadcast; it does nothing else while it broadcasts.
Compiling ==
    /\ bc = "idle"
    /\ \/ Disk!CompileBegin \/ Disk!ReadInput \/ Disk!DropUnused
       \/ Disk!AddImport \/ Disk!StatImport
       \/ \E f \in Imports : Disk!ReadImport(f) \/ Disk!AddVisit(f)

FileStep ==
    /\ \/ \E f \in Disk!Files : Disk!User(f)
       \/ Disk!EventBegin \/ Disk!BurstExpire \/ Disk!BurstDone \/ Disk!PollBegin
       \/ Disk!WatchLoopBusy \/ Compiling
       \/ Disk!HandleRootRequest \/ \E b \in Boards : Disk!HandleRoot(b)
    /\ UNCHANGED vars

\* The user interrupts d2, or its listener fails.
Stop ==
    /\ MayCancel /\ (Interrupt \/ LoopExit("serve"))
    /\ UNCHANGED diskVars

ServeStep ==
    /\ \/ \E c \in Clients : HandleWatch(c) \/ ClientStep(c) \/ PeerGone(c)
       \/ BroadcastStep \/ CloseStep \/ Finished
       \/ cancelled /\ LoopExit("serve")
    /\ UNCHANGED diskVars

ModeNext ==
    \/ Publish \/ WatchLoopReturns \/ CompileLoopReturns
    \/ FileStep \/ Stop \/ ServeStep

ModeSpec == ModeInit /\ [][ModeNext]_modeVars

-----------------------------------------------------------------------------
(* Properties                                                              *)

\* Those of the file side hold whatever the browsers do.
BurstHasChange == Disk!BurstHasChange
NoBlindSpot == Disk!NoBlindSpot
ChangeNoticed == Disk!ChangeNoticed

\* Nothing that will make d2 compile f again is on its way.
Quiet(f) ==
    /\ wlAt = "select" /\ ~compileCh /\ f \notin changed
    /\ \A op \in Disk!Ops : <<f, op>> \notin events
    /\ lastMod[f] = file[f] /\ file[f] # 0

\* The version of f the newest result was compiled from.
ShownVersion(f) == IF f = Input THEN published.input ELSE published.import[f]

\* What a browser waits with is on disk: a client whose writeLoop sleeps without a
\* signal, while the compile loop waits too, has been sent the newest result, and that
\* was compiled from the present version of every file nobody is about to be told of.
TabsShowDisk ==
    clAt = "idle" /\ bc = "idle" =>
        \A c \in Clients : conn[c] = "select" /\ ~token[c] =>
            /\ sent[c] = res
            /\ \A f \in opened \cup {Input} : Quiet(f) => ShownVersion(f) = file[f]

\* Neither loop can use the file watcher once close has closed it, and none is left
\* in a file it waits for when run returns.
LoopsEndBeforeClose ==
    main \in {"draining", "closed"} => wlAt = "exited" /\ clAt = "exited" /\ cancelled

=============================================================================
