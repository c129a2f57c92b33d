----------------------------- MODULE Lifecycle -----------------------------
(***************************************************************************)
(* One Serve run of the daemon (internal/daemon): what it acquires and     *)
(* releases, and everything that runs beside it: FUSE requests, heartbeat, *)
(* materializer, commit-triggered checkpoints, control connections, the    *)
(* signal handler, umount commands, and the kernel, which may refuse to    *)
(* unmount or lose the mount to somebody else.                             *)
(***************************************************************************)
EXTENDS Naturals, FiniteSets

CONSTANTS
  Requests,      \* FUSE requests that can be in flight
  Conns,         \* control connections
  MaxSignals     \* bound: SIGINT and SIGTERM sent

ASSUME BoundsAssumption == MaxSignals \in Nat /\ IsFiniteSet(Requests \cup Conns)

VARIABLES
  main,      \* where the run is
  once,      \* unmountOnce: fresh, who is inside ("main", "handler"), done
  served,    \* the flag of that name
  kernel,    \* the mount: state, busy (files open in it), inflight requests
  bg,        \* heartbeat, materializer and async checkpoint; cancelled
  ctl,       \* the control server: listener and connections
  handler,   \* the signal handler: notify, its buffered signal, quit, goroutine
  own,       \* what the run holds: pidfile, socket, lease, its token, lower fd
  cmd,       \* the umount command
  signals    \* how many were sent

vars == <<main, once, served, kernel, bg, ctl, handler, own, cmd, signals>>

Acquiring ==
  {"claim", "mount", "pidfile", "control", "handler", "ready"}
Serving == {"wait", "served", "abort", "abortWait"}
Releasing ==
  {"stopSig", "sigExit", "stopCtl", "ctlExit", "ctlDrain", "bgCancel",
   "bgWait", "drain", "close", "rmPid", "rmLease", "leave"}
Ended == {"exited", "dead"}

\* Where a checkpoint is: waiting for ckptMu, or holding it.
Checkpointing == {"lock", "save"}

Alive == main \notin Ended

Init ==
  /\ main = "claim" /\ once = "fresh" /\ served = FALSE
  /\ kernel = [state |-> "none", busy |-> FALSE, inflight |-> {}]
  /\ bg = [beat |-> "off", mat |-> "off", async |-> "off", cancelled |-> FALSE]
  /\ ctl = [listener |-> "off", conns |-> [c \in Conns |-> "off"]]
  /\ handler = [notify |-> FALSE, buffered |-> FALSE, quit |-> FALSE,
                goroutine |-> "off"]
  \* What an earlier daemon left, a stale pidfile or socket, counts as none;
  \* its lease, or that of a writer elsewhere, may still be there.
  /\ \E l \in {"none", "other"} :
       own = [pidfile |-> "none", socket |-> "none", lease |-> l,
              token |-> FALSE, fd |-> FALSE]
  /\ cmd = "idle" /\ signals = 0
----------------------------------------------------------------------------
(* run: acquisition *)

Goto(l) == main' = l

\* A failed claim is not released although its put may have landed: the lease
\* is then nobody's, and as foreign to this run as to any other.
ClaimLease ==
  /\ main = "claim"
  /\ \/ /\ own.lease = "none" /\ Goto("mount")
        /\ own' = [own EXCEPT !.lease = "mine", !.token = TRUE]
        /\ bg' = [bg EXCEPT !.beat = "idle", !.mat = "idle"]
     \/ /\ Goto("stopSig")
        /\ own' \in {own, [own EXCEPT !.lease = "other"]}
        /\ UNCHANGED bg
  /\ UNCHANGED <<once, served, kernel, ctl, handler, cmd, signals>>

\* Mount opens the lower fd and closes it again when the mount fails.
MountFS ==
  /\ main = "mount"
  /\ \/ /\ Goto("pidfile")
        /\ kernel' = [kernel EXCEPT !.state = "live"]
        /\ own' = [own EXCEPT !.fd = TRUE]
     \/ Goto("stopSig") /\ UNCHANGED <<kernel, own>>
  /\ UNCHANGED <<once, served, bg, ctl, handler, cmd, signals>>

WritePidFile ==
  /\ main = "pidfile"
  /\ \/ Goto("control") /\ own' = [own EXCEPT !.pidfile = "mine"]
     \/ Goto("abort") /\ UNCHANGED own
  /\ UNCHANGED <<once, served, kernel, bg, ctl, handler, cmd, signals>>

\* A stale socket is removed first; without a control server the run goes on.
StartControlServer ==
  /\ main = "control" /\ Goto("handler")
  /\ \/ /\ own' = [own EXCEPT !.socket = "mine"]
        /\ ctl' = [ctl EXCEPT !.listener = "open"]
     \/ own' \in {own, [own EXCEPT !.socket = "none"]} /\ UNCHANGED ctl
  /\ UNCHANGED <<once, served, kernel, bg, handler, cmd, signals>>

installSignalUnmount ==
  /\ main = "handler" /\ Goto("ready")
  /\ handler' = [handler EXCEPT !.notify = TRUE, !.goroutine = "select"]
  /\ UNCHANGED <<once, served, kernel, bg, ctl, own, cmd, signals>>

OnReady ==
  /\ main = "ready" /\ (Goto("wait") \/ Goto("abort"))
  /\ UNCHANGED <<once, served, kernel, bg, ctl, handler, own, cmd, signals>>
----------------------------------------------------------------------------
(* Serving, unmount and abort *)

\* Wait returns once serving has stopped and every request is answered.
Stopped == kernel.state # "live" /\ kernel.inflight = {}

Wait ==
  /\ Stopped
  /\ \/ main = "wait" /\ Goto("served")
     \/ main = "abortWait" /\ Goto("stopSig")
  /\ UNCHANGED <<once, served, kernel, bg, ctl, handler, own, cmd, signals>>

StoreServed ==
  /\ main = "served" /\ Goto("stopSig")
  /\ served' = TRUE
  /\ UNCHANGED <<once, kernel, bg, ctl, handler, own, cmd, signals>>

InUnmount(who) ==
  \/ who = "main" /\ main = "abort"
  \/ who = "handler" /\ Alive /\ handler.goroutine = "unmount"

\* Mutant of EnterUnmount: the test of served is inverted.
EnterUnmountServed(who) ==
  /\ InUnmount(who) /\ once = "fresh"
  /\ once' = IF served THEN who ELSE "done"
  /\ UNCHANGED <<main, served, kernel, bg, ctl, handler, own, cmd, signals>>

\* unmountOnce.Do: the first caller runs the body, others wait for its end.
EnterUnmount(who) ==
  /\ InUnmount(who) /\ once = "fresh"
  /\ once' = IF served THEN "done" ELSE who
  /\ UNCHANGED <<main, served, kernel, bg, ctl, handler, own, cmd, signals>>

\* The kernel detaches a mount nobody uses; failure is only logged.
CallUnmount(who) ==
  /\ InUnmount(who) /\ once = who
  /\ once' = "done"
  /\ \/ /\ kernel.state = "live" /\ ~kernel.busy /\ kernel.inflight = {}
        /\ kernel' = [kernel EXCEPT !.state = "gone"]
     \/ /\ kernel.state # "live" \/ kernel.busy \/ kernel.inflight # {}
        /\ UNCHANGED kernel
  /\ UNCHANGED <<main, served, bg, ctl, handler, own, cmd, signals>>

AbortWaits ==
  /\ main = "abort" /\ once = "done" /\ Goto("abortWait")
  /\ UNCHANGED <<once, served, kernel, bg, ctl, handler, own, cmd, signals>>

\* The handler's goroutine takes one signal, or leaves when told to.
HandlerSelects ==
  /\ Alive /\ handler.goroutine = "select"
  /\ \/ /\ handler.buffered
        /\ handler' = [handler EXCEPT !.buffered = FALSE,
                                      !.goroutine = "unmount"]
     \/ /\ handler.quit \/ bg.cancelled
        /\ handler' = [handler EXCEPT !.goroutine = "done"]
  /\ UNCHANGED <<main, once, served, kernel, bg, ctl, own, cmd, signals>>

HandlerEnds ==
  /\ Alive /\ handler.goroutine = "unmount" /\ once = "done"
  /\ handler' = [handler EXCEPT !.goroutine = "done"]
  /\ UNCHANGED <<main, once, served, kernel, bg, ctl, own, cmd, signals>>
----------------------------------------------------------------------------
(* release, in its order *)

Step(from, to) == main = from /\ Goto(to)

\* stop of installSignalUnmount: detach, close quit, wait for the goroutine.
StopSig ==
  /\ Step("stopSig", "sigExit")
  /\ handler' = [handler EXCEPT !.notify = FALSE, !.quit = TRUE]
  /\ UNCHANGED <<once, served, kernel, bg, ctl, own, cmd, signals>>

\* Mutant of StopCtl: the listener is not closed before the wait.
StopCtlOpen ==
  /\ Step("stopCtl", "ctlExit")
  /\ UNCHANGED <<once, served, kernel, bg, ctl, handler, own, cmd, signals>>

\* stop of StartControlServer: close, wait for the accept loop, then for the
\* connections' handlers.
StopCtl ==
  /\ Step("stopCtl", "ctlExit")
  /\ ctl' = [ctl EXCEPT !.listener = IF @ = "open" THEN "closed" ELSE @]
  /\ UNCHANGED <<once, served, kernel, bg, handler, own, cmd, signals>>

BgCancel ==
  /\ Step("bgCancel", "bgWait")
  /\ bg' = [bg EXCEPT !.cancelled = TRUE]
  /\ UNCHANGED <<once, served, kernel, ctl, handler, own, cmd, signals>>

\* Mutant of Joined: stop returns while control handlers run.
JoinedNoHandlers(l) ==
  CASE l = "sigExit" -> handler.goroutine \in {"off", "done"}
    [] l = "ctlExit" -> ctl.listener \in {"off", "done"}
    [] l = "ctlDrain" -> TRUE
    [] l = "bgWait" -> bg.beat = "off" /\ bg.mat = "off"
    [] l = "drain" -> bg.async = "off"

\* Mutant of Joined: the heartbeat is cancelled and not waited for.
JoinedNoBeat(l) ==
  CASE l = "sigExit" -> handler.goroutine \in {"off", "done"}
    [] l = "ctlExit" -> ctl.listener \in {"off", "done"}
    [] l = "ctlDrain" -> \A c \in Conns : ctl.conns[c] = "off"
    [] l = "bgWait" -> bg.mat = "off"
    [] l = "drain" -> bg.async = "off"

\* The joins of release: each waits for what the step before it stopped.
Joined(l) ==
  CASE l = "sigExit" -> handler.goroutine \in {"off", "done"}
    [] l = "ctlExit" -> ctl.listener \in {"off", "done"}
    [] l = "ctlDrain" -> \A c \in Conns : ctl.conns[c] = "off"
    [] l = "bgWait" -> bg.beat = "off" /\ bg.mat = "off"
    [] l = "drain" -> bg.async = "off"

Join ==
  /\ \/ Step("sigExit", "stopCtl") \/ Step("ctlExit", "ctlDrain")
     \/ Step("ctlDrain", "bgCancel") \/ Step("bgWait", "drain")
     \/ Step("drain", "close")
  /\ Joined(main)
  /\ UNCHANGED <<once, served, kernel, bg, ctl, handler, own, cmd, signals>>

CloseMounter ==
  /\ Step("close", "rmPid")
  /\ own' = [own EXCEPT !.fd = FALSE]
  /\ UNCHANGED <<once, served, kernel, bg, ctl, handler, cmd, signals>>

\* A failure is logged, and the file stays.
RemovePidFile ==
  /\ Step("rmPid", "rmLease")
  /\ \/ own' = [own EXCEPT !.pidfile = "none"]
     \/ own.pidfile = "mine" /\ own' = [own EXCEPT !.pidfile = "stuck"]
  /\ UNCHANGED <<once, served, kernel, bg, ctl, handler, cmd, signals>>

\* Only a run with a token releases, and leaves another's lease alone; the
\* token stays when the call fails.
ReleaseLease ==
  /\ Step("rmLease", "leave")
  /\ own' \in {own, [own EXCEPT !.token = FALSE,
                                !.lease = IF own.token /\ @ = "mine"
                                          THEN "none" ELSE @]}
  /\ UNCHANGED <<once, served, kernel, bg, ctl, handler, cmd, signals>>

\* run returns, and the command with it.
Exit ==
  /\ Step("leave", "exited")
  /\ UNCHANGED <<once, served, kernel, bg, ctl, handler, own, cmd, signals>>
----------------------------------------------------------------------------
(* The background goroutines *)

\* ckptMu: one checkpoint at a time.
MutexFree ==
  /\ bg.mat # "save" /\ bg.async # "save"
  /\ \A c \in Conns : ctl.conns[c] # "save"

SetBg(field, value) ==
  /\ Alive
  /\ bg' = [bg EXCEPT ![field] = value]
  /\ UNCHANGED <<main, once, served, kernel, ctl, handler, own, cmd, signals>>

\* Both loops select between their ticker and the context.  A tick taken once
\* the context is cancelled is as one taken just before.
Tick ==
  /\ ~bg.cancelled
  /\ \/ bg.beat = "idle" /\ SetBg("beat", "renew")
     \/ bg.mat = "idle" /\ SetBg("mat", "lock")

BeatReturns == bg.beat = "idle" /\ bg.cancelled /\ SetBg("beat", "off")
MatReturns == bg.mat = "idle" /\ bg.cancelled /\ SetBg("mat", "off")

\* A renewal leaves another's lease alone (the session is then fenced, see
\* Session); one that fails may still have put its own.
RenewLease ==
  /\ Alive /\ bg.beat = "renew"
  /\ bg' \in {[bg EXCEPT !.beat = "idle"],
             [bg EXCEPT !.beat = IF bg.cancelled THEN "off" ELSE "idle"]}
  /\ own' \in {own, [own EXCEPT !.lease = IF @ = "other" THEN @ ELSE "mine"]}
  /\ UNCHANGED <<main, once, served, kernel, ctl, handler, cmd, signals>>

MatCheckpoint ==
  \/ bg.mat = "lock" /\ MutexFree /\ SetBg("mat", "save")
  \/ bg.mat = "save" /\ SetBg("mat", "idle")

checkpointAsync ==
  \/ bg.async = "lock" /\ MutexFree /\ SetBg("async", "save")
  \/ bg.async = "save" /\ SetBg("async", "off")
----------------------------------------------------------------------------
(* The control server *)

SetConn(c, value) ==
  /\ Alive
  /\ ctl' = [ctl EXCEPT !.conns[c] = value]
  /\ UNCHANGED <<main, once, served, kernel, bg, handler, own, cmd, signals>>

Accept(c) == ctl.listener = "open" /\ ctl.conns[c] = "off" /\ SetConn(c, "read")

\* "status", a bad line and a deadline are answered at once.
handleControl(c) ==
  \/ ctl.conns[c] = "read" /\ (SetConn(c, "lock") \/ SetConn(c, "off"))
  \/ ctl.conns[c] = "lock" /\ MutexFree /\ SetConn(c, "save")
  \/ ctl.conns[c] = "save" /\ SetConn(c, "off")

\* Closing the listener, or a failing accept, ends the loop.
AcceptLoopEnds ==
  /\ Alive /\ ctl.listener \in {"open", "closed"}
  /\ ctl' = [ctl EXCEPT !.listener = "done"]
  /\ own' = [own EXCEPT !.socket = "none"]
  /\ UNCHANGED <<main, once, served, kernel, bg, handler, cmd, signals>>
----------------------------------------------------------------------------
(* The kernel and the users of the mount *)

SetKernel(k) ==
  /\ kernel.state = "live" /\ kernel' = k
  /\ UNCHANGED <<main, once, served, bg, ctl, handler, own, cmd, signals>>

BeginRequest(r) == SetKernel([kernel EXCEPT !.inflight = @ \cup {r}])

\* A commit may start an async checkpoint, one at a time.
EndRequest(r) ==
  /\ r \in kernel.inflight
  /\ kernel' = [kernel EXCEPT !.inflight = @ \ {r}]
  /\ bg' \in {bg, [bg EXCEPT !.async = IF @ = "off" THEN "lock" ELSE @]}
  /\ UNCHANGED <<main, once, served, ctl, handler, own, cmd, signals>>

\* Files are opened and shells enter the mount, and leave it.
UseMount == \E b \in BOOLEAN : SetKernel([kernel EXCEPT !.busy = b])

\* fusermount -u, or an aborted connection.
ExternalUnmount == SetKernel([kernel EXCEPT !.state = "gone", !.busy = FALSE])

\* The lease lapsed and another writer took it; that one leaves.
OtherWriter ==
  /\ \/ own.lease = "mine" /\ own' = [own EXCEPT !.lease = "other"]
     \/ own.lease = "other" /\ own' = [own EXCEPT !.lease = "none"]
  /\ UNCHANGED <<main, once, served, kernel, bg, ctl, handler, cmd, signals>>
----------------------------------------------------------------------------
(* Signals, process death and the umount command *)

\* The process is gone: its mount is left disconnected, its files stay.
Die ==
  /\ main' = "dead" /\ once' = "fresh" /\ served' = FALSE
  /\ kernel' = [state |-> IF kernel.state = "live" THEN "dead" ELSE kernel.state,
                busy |-> FALSE, inflight |-> {}]
  /\ bg' = [beat |-> "off", mat |-> "off", async |-> "off", cancelled |-> FALSE]
  /\ ctl' = [listener |-> "off", conns |-> [c \in Conns |-> "off"]]
  /\ handler' = [notify |-> FALSE, buffered |-> FALSE, quit |-> FALSE,
                 goroutine |-> "off"]
  /\ own' = [own EXCEPT !.token = FALSE, !.fd = FALSE]

Crash == Alive /\ Die /\ UNCHANGED <<cmd, signals>>

\* The channel holds one signal, a second is dropped; without a handler the
\* signal's default action ends the process.
Signal ==
  /\ Alive /\ signals < MaxSignals
  /\ signals' = signals + 1
  /\ \/ /\ handler.notify
        /\ handler' = [handler EXCEPT !.buffered = TRUE]
        /\ UNCHANGED <<main, once, served, kernel, bg, ctl, own>>
     \/ ~handler.notify /\ Die

\* umount finds the daemon through a pidfile whose process is alive, signals
\* it, and polls until the process is gone or 30 s are over.  (An interrupt
\* from a terminal does what this signal does or, earlier, what Crash does.)
umount ==
  \/ cmd = "idle" /\ own.pidfile # "none" /\ Signal /\ cmd' = "polling"
  \/ /\ cmd = "polling"
     /\ cmd' = IF Alive THEN "idle" ELSE "unmounted"
     /\ UNCHANGED <<main, once, served, kernel, bg, ctl, handler, own, signals>>
----------------------------------------------------------------------------
Main ==
  \/ ClaimLease \/ MountFS \/ WritePidFile \/ StartControlServer
  \/ installSignalUnmount \/ OnReady \/ Wait \/ StoreServed
  \/ EnterUnmount("main") \/ CallUnmount("main") \/ AbortWaits
  \/ StopSig \/ StopCtl \/ BgCancel \/ Join \/ CloseMounter
  \/ RemovePidFile \/ ReleaseLease \/ Exit

Handler ==
  \/ HandlerSelects \/ EnterUnmount("handler") \/ CallUnmount("handler")
  \/ HandlerEnds

Next ==
  \/ Main \/ Handler
  \/ Tick \/ BeatReturns \/ MatReturns \/ RenewLease \/ MatCheckpoint
  \/ checkpointAsync
  \/ \E c \in Conns : Accept(c) \/ handleControl(c)
  \/ AcceptLoopEnds
  \/ \E r \in Requests : BeginRequest(r) \/ EndRequest(r)
  \/ UseMount \/ ExternalUnmount \/ OtherWriter
  \/ Crash \/ umount

\* Goroutines that can run do run, and remote calls return, with an answer or
\* an error.  A mutex hands over to a waiter that starves (Go's sync.Mutex),
\* hence strong fairness of what waits for one while the materializer ticks.
\* Nothing is assumed of users, signals, connections or the ticker.
Fairness ==
  /\ WF_vars(Main) /\ WF_vars(Handler)
  /\ WF_vars(RenewLease \/ BeatReturns) /\ WF_vars(MatCheckpoint \/ MatReturns)
  /\ SF_vars(checkpointAsync)
  /\ \A c \in Conns : SF_vars(handleControl(c))
  /\ WF_vars(ctl.listener = "closed" /\ AcceptLoopEnds)
  /\ \A r \in Requests : WF_vars(EndRequest(r))

Spec == Init /\ [][Next]_vars /\ Fairness
----------------------------------------------------------------------------
(* Properties *)

Kernel ==
  [state: {"none", "live", "gone", "dead"}, busy: BOOLEAN,
   inflight: SUBSET Requests]
Background ==
  [beat: {"off", "idle", "renew"}, mat: {"off", "idle"} \cup Checkpointing,
   async: {"off"} \cup Checkpointing, cancelled: BOOLEAN]
Control ==
  [listener: {"off", "open", "closed", "done"},
   conns: [Conns -> {"off", "read"} \cup Checkpointing]]
SignalHandler ==
  [notify: BOOLEAN, buffered: BOOLEAN, quit: BOOLEAN,
   goroutine: {"off", "select", "unmount", "done"}]
Owned ==
  [pidfile: {"none", "mine", "stuck"}, socket: {"none", "mine"},
   lease: {"none", "mine", "other"}, token: BOOLEAN, fd: BOOLEAN]

TypeOK ==
  /\ main \in Acquiring \cup Serving \cup Releasing \cup Ended
  /\ once \in {"fresh", "main", "handler", "done"} /\ served \in BOOLEAN
  /\ kernel \in Kernel /\ bg \in Background /\ ctl \in Control
  /\ handler \in SignalHandler /\ own \in Owned
  /\ cmd \in {"idle", "polling", "unmounted"} /\ signals \in 0 .. MaxSignals

\* Where release is past a join: the drain of checkpoints, the background
\* loops, the control connections, the signal handler.
PastDrain == {"close", "rmPid", "rmLease", "leave", "exited"}
PastBg == {"drain"} \cup PastDrain
PastCtl == {"bgCancel", "bgWait"} \cup PastBg
PastSig == {"stopCtl", "ctlExit", "ctlDrain"} \cup PastCtl

\* Nothing uses what is already gone (Serve's contract): while a request is in
\* flight nothing is released; the lower fd, pidfile and lease outlive every
\* checkpoint, whoever started it, and every renewal; the signal handler does
\* not touch the mount once its stop returned.
NothingUsedAfterRelease ==
  /\ kernel.inflight # {} => own.fd /\ main \notin Releasing \cup Ended
  /\ bg.async \in Checkpointing => main \notin PastDrain
  /\ bg.mat \in Checkpointing \/ bg.beat = "renew" => main \notin PastBg
  /\ \A c \in Conns : ctl.conns[c] # "off" => main \notin PastCtl
  /\ handler.goroutine = "unmount" => main \notin PastSig

\* A run that released leaves nothing behind: no renewal in flight puts the
\* lease back, no accept loop leaves a socket, and the mount is not live.
\* (A pidfile stays when its removal fails.)
CleanExit ==
  main = "exited" /\ ~own.token =>
    /\ own.lease # "mine" /\ own.socket = "none" /\ own.pidfile # "mine"
    /\ ~own.fd /\ kernel.state # "live"

\* Where the mount is, or may be, live.
Mounted ==
  {"pidfile", "control", "handler", "ready", "wait", "abort", "abortWait"}

\* The strengthening that makes the two inductive: what each place of the run
\* already holds, and has already stopped.
LInv ==
  /\ TypeOK
  /\ kernel.state = "live" \/ kernel.inflight # {} => main \in Mounted
  /\ main \in Mounted => own.fd
  /\ main \in {"rmPid", "rmLease", "leave", "exited"} => ~own.fd
  /\ main \in {"rmLease", "leave", "exited"} => own.pidfile # "mine"
  /\ main \in {"ctlDrain"} \cup PastCtl => ctl.listener \in {"off", "done"}
  /\ main # "dead" /\ ctl.listener \in {"off", "done"} => own.socket = "none"
  /\ main \in PastSig => handler.goroutine \in {"off", "done"}
  /\ main \in PastCtl => \A c \in Conns : ctl.conns[c] = "off"
  /\ main \in PastBg => bg.beat = "off" /\ bg.mat = "off"
  /\ main \in PastDrain => bg.async = "off"
  /\ main # "dead" /\ ~own.token => bg.beat = "off" /\ own.lease # "mine"

\* Nobody uses the mount, so the kernel would detach it.
Unused == ~kernel.busy /\ kernel.inflight = {}

\* Once the mount is gone, however it went, the run releases and ends: no
\* join of release waits for something that waits for release.
GoneEnds == kernel.state = "gone" ~> main \in Ended

\* The first signal, or an OnReady error, ends the run of an unused mount: it
\* is unmounted, released and left (unmount, abort, installSignalUnmount).
SignalEnds ==
  /\ once = "fresh"
  /\ main = "abort" \/ (handler.buffered /\ handler.goroutine = "select")
  /\ []Unused
  ~> main \in Ended

\* Every signal that arrives while an unused mount is live takes it down
\* (installSignalUnmount).
SignalUnmounts ==
  handler.buffered /\ []Unused ~> kernel.state # "live"
=============================================================================
