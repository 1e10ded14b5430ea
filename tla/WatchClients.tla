---------------------------- MODULE WatchClients ----------------------------
(***************************************************************************)
(* The serving side of `d2 --watch` (d2cli/watch.go): the compile loop     *)
(* broadcasts each result to the connected browsers, one goroutine per     *)
(* websocket writes the newest result to its peer, and close() waits until *)
(* every such goroutine has finished.                                      *)
(*                                                                         *)
(* Results are abstracted to their number, in the order broadcast stores   *)
(* them in w.res (0 is the nil result).  A client of Clients is a slot for *)
(* one connection at a time; a browser that reconnects reuses the slot.    *)
(* Each action is one critical section or one blocking operation.  The     *)
(* only section of wsclientsMu that is longer than a step is the signalling *)
(* loop of broadcast: while bc = "signal" the mutex is held.               *)
(***************************************************************************)
EXTENDS Naturals, FiniteSets

CONSTANTS
    Clients,    \* connection slots
    MaxRes      \* bound: how many results are broadcast

ASSUME ClientsAssumption == IsFiniteSet(Clients)
ASSUME MaxResAssumption == MaxRes \in Nat

VARIABLES
    res,        \* w.res
    bc,         \* compile loop: "idle", "lock", "signal", "exited"
    todo,       \* clients the running broadcast has still to signal
    conn,       \* conn[c]: where the handler, then the goroutine, of c stands
    token,      \* token[c]: cl.resultsCh (capacity 1) holds a signal
    got,        \* got[c]: the result getRes returned to writeLoop
    sent,       \* sent[c]: the last result written to the peer
    wsclients,  \* w.wsclients
    wg,         \* counter of w.wsclientsWG
    closing,    \* w.closing
    cancelled,  \* w.ctx is done
    loops,      \* the goFunc goroutines besides the compile loop still running
    main        \* run(): "running", "closing", "draining", "closed"

clientVars == <<conn, token, got, sent, wsclients, wg>>
bcVars     == <<res, bc, todo>>
mainVars   == <<closing, cancelled, loops, main>>
vars == <<clientVars, bcVars, mainVars>>

\* The goroutines run starts with goFunc, the compile loop (bc) aside.
Loops == {"watchLoop", "serve"}

\* wsclientsMu can be taken for a section of a single step.
MuFree == bc # "signal"

Registered == {"getRes", "write", "select", "deregister"}
Counted == {"counted", "accepted", "release"} \cup Registered

TypeOK ==
    /\ res \in 0..MaxRes
    /\ bc \in {"idle", "lock", "signal", "exited"}
    /\ todo \subseteq Clients
    /\ conn \in [Clients -> {"idle", "refused"} \cup Counted]
    /\ token \in [Clients -> BOOLEAN]
    /\ got \in [Clients -> 0..MaxRes]
    /\ sent \in [Clients -> 0..MaxRes]
    /\ wsclients \subseteq Clients
    /\ wg \in Nat
    /\ closing \in BOOLEAN
    /\ cancelled \in BOOLEAN
    /\ loops \subseteq Loops
    /\ main \in {"running", "closing", "draining", "closed"}

Init ==
    /\ res = 0
    /\ bc = "idle"
    /\ todo = {}
    /\ conn = [c \in Clients |-> "idle"]
    /\ token = [c \in Clients |-> FALSE]
    /\ got = [c \in Clients |-> 0]
    /\ sent = [c \in Clients |-> 0]
    /\ wsclients = {}
    /\ wg = 0
    /\ closing = FALSE
    /\ cancelled = FALSE
    /\ loops = Loops
    /\ main = "running"

-----------------------------------------------------------------------------
(* handleWatch and the goroutine it starts                                 *)

\* Mutant: the closing check is dropped.
HandleWatchUnchecked(c) ==
    /\ conn[c] = "idle" /\ MuFree
    /\ conn' = [conn EXCEPT ![c] = "counted"]
    /\ wg' = wg + 1
    /\ UNCHANGED <<token, got, sent, wsclients, bcVars, mainVars>>

\* The request is counted under wsclientsMu before the upgrade, so that close
\* waits for it; once closing is set it is refused.
HandleWatch(c) ==
    /\ conn[c] = "idle" /\ MuFree
    /\ \/ /\ closing
          /\ conn' = [conn EXCEPT ![c] = "refused"]
          /\ wg' = wg
       \/ /\ ~closing
          /\ conn' = [conn EXCEPT ![c] = "counted"]
          /\ wg' = wg + 1
    /\ UNCHANGED <<token, got, sent, wsclients, bcVars, mainVars>>

\* Mutant: the error path of Accept forgets wsclientsWG.Done.
AcceptFailLeaks(c) ==
    /\ conn[c] = "counted"
    /\ conn' = [conn EXCEPT ![c] = "idle"]
    /\ UNCHANGED <<token, got, sent, wsclients, wg, bcVars, mainVars>>

\* websocket.Accept fails: the handler gives its count back and returns.
AcceptFail(c) ==
    /\ conn[c] = "counted"
    /\ conn' = [conn EXCEPT ![c] = "idle"]
    /\ wg' = wg - 1
    /\ UNCHANGED <<token, got, sent, wsclients, bcVars, mainVars>>

\* websocket.Accept succeeds and the goroutine is started.
Accept(c) ==
    /\ conn[c] = "counted"
    /\ conn' = [conn EXCEPT ![c] = "accepted"]
    /\ UNCHANGED <<token, got, sent, wsclients, wg, bcVars, mainVars>>

\* The goroutine makes its wsclient, with an empty resultsCh, and registers it.  The
\* heartbeat it starts can only close the connection (WriteFail, PeerGone).
Register(c) ==
    /\ conn[c] = "accepted" /\ MuFree
    /\ wsclients' = wsclients \cup {c}
    /\ token' = [token EXCEPT ![c] = FALSE]
    /\ got' = [got EXCEPT ![c] = 0]
    /\ sent' = [sent EXCEPT ![c] = 0]
    /\ conn' = [conn EXCEPT ![c] = "getRes"]
    /\ UNCHANGED <<wg, bcVars, mainVars>>

\* Mutant: the read of w.res races with broadcast and may return an old value.
GetResRacy(c) ==
    /\ conn[c] = "getRes"
    /\ \E r \in 0..res : got' = [got EXCEPT ![c] = r]
    /\ conn' = [conn EXCEPT ![c] = IF got'[c] = 0 THEN "select" ELSE "write"]
    /\ UNCHANGED <<token, sent, wsclients, wg, bcVars, mainVars>>

\* Mutant: a signal that arrived before the result is read is thrown away, as
\* a writeLoop that drained resultsCh after getRes would do.
WriteDrains(c) ==
    /\ conn[c] = "write"
    /\ sent' = [sent EXCEPT ![c] = got[c]]
    /\ token' = [token EXCEPT ![c] = FALSE]
    /\ conn' = [conn EXCEPT ![c] = "select"]
    /\ UNCHANGED <<got, wsclients, wg, bcVars, mainVars>>

\* writeLoop: getRes, under resMu.
GetRes(c) ==
    /\ conn[c] = "getRes"
    /\ got' = [got EXCEPT ![c] = res]
    /\ conn' = [conn EXCEPT ![c] = IF res = 0 THEN "select" ELSE "write"]
    /\ UNCHANGED <<token, sent, wsclients, wg, bcVars, mainVars>>

\* writeLoop: the write of the result reaches the peer.
Write(c) ==
    /\ conn[c] = "write"
    /\ sent' = [sent EXCEPT ![c] = got[c]]
    /\ conn' = [conn EXCEPT ![c] = "select"]
    /\ UNCHANGED <<token, got, wsclients, wg, bcVars, mainVars>>

\* writeLoop: the write fails (peer gone, 30 second timeout, ctx done).
WriteFail(c) ==
    /\ conn[c] = "write"
    /\ conn' = [conn EXCEPT ![c] = "deregister"]
    /\ UNCHANGED <<token, got, sent, wsclients, wg, bcVars, mainVars>>

\* writeLoop: the select takes the signal.
Receive(c) ==
    /\ conn[c] = "select" /\ token[c]
    /\ token' = [token EXCEPT ![c] = FALSE]
    /\ conn' = [conn EXCEPT ![c] = "getRes"]
    /\ UNCHANGED <<got, sent, wsclients, wg, bcVars, mainVars>>

\* writeLoop: the connection's ctx is done because the peer closed (CloseRead)
\* or the hour is over.
PeerGone(c) ==
    /\ conn[c] = "select"
    /\ conn' = [conn EXCEPT ![c] = "deregister"]
    /\ UNCHANGED <<token, got, sent, wsclients, wg, bcVars, mainVars>>

\* writeLoop: the connection's ctx is done because the watcher's is.
GoingAway(c) ==
    /\ cancelled
    /\ PeerGone(c)

\* The deferred delete from wsclients.
Deregister(c) ==
    /\ conn[c] = "deregister" /\ MuFree
    /\ wsclients' = wsclients \ {c}
    /\ conn' = [conn EXCEPT ![c] = "release"]
    /\ UNCHANGED <<token, got, sent, wg, bcVars, mainVars>>

\* The deferred c.Close and wsclientsWG.Done.
Release(c) ==
    /\ conn[c] = "release"
    /\ wg' = wg - 1
    /\ conn' = [conn EXCEPT ![c] = "idle"]
    /\ UNCHANGED <<token, got, sent, wsclients, bcVars, mainVars>>

-----------------------------------------------------------------------------
(* broadcast, called by the compile loop                                   *)

\* broadcast stores the new result under resMu ...
BroadcastStore ==
    /\ bc = "idle" /\ res < MaxRes
    /\ res' = res + 1
    /\ bc' = "lock"
    /\ UNCHANGED <<todo, clientVars, mainVars>>

\* ... then takes wsclientsMu ...
BroadcastLock ==
    /\ bc = "lock"
    /\ todo' = wsclients
    /\ bc' = "signal"
    /\ UNCHANGED <<res, clientVars, mainVars>>

\* Mutant: broadcast forgets a client that has no signal pending.
BroadcastSignalLost(c) ==
    /\ bc = "signal" /\ c \in todo
    /\ todo' = todo \ {c}
    /\ UNCHANGED <<res, bc, clientVars, mainVars>>

\* ... and signals every registered client, without blocking on a full channel.
BroadcastSignal(c) ==
    /\ bc = "signal" /\ c \in todo
    /\ token' = [token EXCEPT ![c] = TRUE]
    /\ todo' = todo \ {c}
    /\ UNCHANGED <<res, bc, conn, got, sent, wsclients, wg, mainVars>>

BroadcastUnlock ==
    /\ bc = "signal" /\ todo = {}
    /\ bc' = "idle"
    /\ UNCHANGED <<res, todo, clientVars, mainVars>>

\* compileLoop returns ctx.Err() when it waits for a request and ctx is done.
CompileLoopExit ==
    /\ bc = "idle" /\ cancelled
    /\ bc' = "exited"
    /\ UNCHANGED <<res, todo, clientVars, mainVars>>

-----------------------------------------------------------------------------
(* run, goFunc and close                                                   *)

\* The parent context is cancelled (the user interrupts d2).
Interrupt ==
    /\ ~cancelled
    /\ cancelled' = TRUE
    /\ UNCHANGED <<closing, loops, main, clientVars, bcVars>>

\* Another goFunc goroutine returns: on ctx.Done, or, for the HTTP server, on a
\* listener error as well.  Its deferred w.cancel stops the others.
LoopExit(l) ==
    /\ l \in loops
    /\ cancelled \/ l = "serve"
    /\ loops' = loops \ {l}
    /\ cancelled' = TRUE
    /\ UNCHANGED <<closing, main, clientVars, bcVars>>

\* run: w.wg.Wait() has returned; close sets closing under wsclientsMu.
CloseBegin ==
    /\ main = "running"
    /\ loops = {} /\ bc = "exited"
    /\ closing' = TRUE
    /\ main' = "closing"
    /\ UNCHANGED <<cancelled, loops, clientVars, bcVars>>

\* close: cancel, then close the file watcher and the listener.
CloseResources ==
    /\ main = "closing"
    /\ cancelled' = TRUE
    /\ main' = "draining"
    /\ UNCHANGED <<closing, loops, clientVars, bcVars>>

\* Mutant: close does not wait for the websocket goroutines.
CloseReturnEarly ==
    /\ main = "draining"
    /\ main' = "closed"
    /\ UNCHANGED <<closing, cancelled, loops, clientVars, bcVars>>

\* close: wsclientsWG.Wait() returns, and so does run.
CloseReturn ==
    /\ main = "draining" /\ wg = 0
    /\ main' = "closed"
    /\ UNCHANGED <<closing, cancelled, loops, clientVars, bcVars>>

\* The watcher has returned and every slot is at rest.
Finished ==
    /\ main = "closed"
    /\ UNCHANGED vars

-----------------------------------------------------------------------------
ClientStep(c) ==
    \/ AcceptFail(c) \/ Accept(c) \/ Register(c) \/ GetRes(c) \/ Write(c)
    \/ WriteFail(c) \/ Receive(c) \/ GoingAway(c) \/ Deregister(c) \/ Release(c)

BroadcastStep ==
    \/ BroadcastLock \/ BroadcastUnlock
    \/ \E c \in Clients : BroadcastSignal(c)

CloseStep == CloseBegin \/ CloseResources \/ CloseReturn

Next ==
    \/ \E c \in Clients : HandleWatch(c) \/ ClientStep(c) \/ PeerGone(c)
    \/ BroadcastStore \/ BroadcastStep \/ CompileLoopExit
    \/ Interrupt \/ \E l \in Loops : LoopExit(l)
    \/ CloseStep
    \/ Finished

Spec == Init /\ [][Next]_vars

\* Go schedules every runnable goroutine: each client goroutine, the compile
\* loop and run() make progress.  The compile loop's select picks a ready arm
\* at random, so ctx.Done is not passed over for ever (SF).  Nothing makes a
\* browser connect or leave, a user interrupt d2 or another result appear.
Fairness ==
    /\ \A c \in Clients : WF_vars(ClientStep(c))
    /\ WF_vars(BroadcastStep)
    /\ SF_vars(CompileLoopExit)
    /\ \A l \in Loops : WF_vars(cancelled /\ LoopExit(l))
    /\ WF_vars(CloseStep)

FairSpec == Spec /\ Fairness

-----------------------------------------------------------------------------
(* Properties                                                              *)

\* wsclients holds the goroutines between their registration and its undoing.
RegisteredInv == wsclients = {c \in Clients : conn[c] \in Registered}

\* The signalling loop walks over registered clients while it holds the mutex.
TodoInv ==
    /\ todo \subseteq wsclients
    /\ bc # "signal" => todo = {}

\* The newest result is stored but its signal has not reached c yet.
SignalDue(c) == bc = "lock" \/ c \in todo

\* What each writeLoop knows of the newest result.
FreshInv ==
    \A c \in Clients :
        /\ sent[c] <= res
        /\ conn[c] = "write" =>
            /\ got[c] \in 1..res
            /\ sent[c] <= got[c]
            /\ ~token[c] /\ got[c] # res => SignalDue(c)
        /\ conn[c] = "select" /\ ~token[c] /\ sent[c] # res => SignalDue(c)

\* wsclientsWG counts the handlers and goroutines between Add and Done.
Active == {c \in Clients : conn[c] \in Counted}
CountInv == wg = Cardinality(Active)

\* run() closes only after the compile loop has gone, and returns only after
\* the count has dropped to zero.
CloseInv ==
    /\ main # "running" => closing /\ bc = "exited"
    /\ main = "closed" => wg = 0

\* The inductive invariant behind the safety properties below: each of its
\* parts relates the compile loop, a websocket goroutine and run().
Inv ==
    /\ TypeOK
    /\ RegisteredInv
    /\ TodoInv
    /\ FreshInv
    /\ CountInv
    /\ CloseInv

\* A client whose writeLoop sleeps in its select without a signal shows the
\* newest result, or the broadcast of that result has yet to signal it: the
\* capacity-1 channel and the non-blocking send of broadcast lose no wakeup.
NoLostWakeup ==
    \A c \in Clients :
        conn[c] = "select" /\ ~token[c] /\ sent[c] # res
            => bc = "lock" \/ c \in todo

\* Results reach a peer in the order the compile loop produced them: on one
\* connection a write never shows an older result than an earlier write did.
ViewNeverGoesBack ==
    [][\A c \in Clients : conn[c] # "accepted" => sent'[c] >= sent[c]]_vars

\* When run() has returned, no handler between its upgrade and its
\* registration, no goroutine in writeLoop and no entry of wsclients is left.  (The
\* heartbeats, which the wait group does not count, are not part of this.)
ClosedMeansDrained ==
    main = "closed" =>
        /\ \A c \in Clients : conn[c] \in {"idle", "refused"}
        /\ wsclients = {}

\* A connection is either brought up to date or it ends: no browser tab keeps
\* showing an outdated diagram next to a live connection.
ClientsCatchUp ==
    \A c \in Clients : []<>(conn[c] \notin Registered \/ sent[c] = res)

\* Once the context is cancelled, run() returns: the websocket goroutines do
\* not keep the process alive.
ShutdownCompletes == cancelled ~> main = "closed"

\* The watcher implements the result feed.
Feed == INSTANCE ResultFeed WITH
    latest <- res,
    view   <- sent,
    open   <- {c \in Clients : conn[c] \in Registered \cup {"release"}},
    closed <- main = "closed"

FeedSpec == Feed!Spec

=============================================================================
