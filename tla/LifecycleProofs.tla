-------------------------- MODULE LifecycleProofs --------------------------
(***************************************************************************)
(* The safety properties of Lifecycle for any number of requests, control  *)
(* connections and signals.  LInv of Lifecycle is the invariant.           *)
(***************************************************************************)
EXTENDS Lifecycle, TLAPS

(* What the assignments to the records give *)

\* Every value the run gives to what it owns is of its type.
LEMMA OwnedType ==
  ASSUME TypeOK
  PROVE  /\ [own EXCEPT !.lease = "mine", !.token = TRUE] \in Owned
         /\ [own EXCEPT !.lease = "other"] \in Owned
         /\ [own EXCEPT !.lease = "none"] \in Owned
         /\ [own EXCEPT !.fd = TRUE] \in Owned
         /\ [own EXCEPT !.fd = FALSE] \in Owned
         /\ [own EXCEPT !.token = FALSE, !.fd = FALSE] \in Owned
         /\ \A l \in {"none", "mine", "other"} :
              [own EXCEPT !.token = FALSE, !.lease = l] \in Owned
         /\ [own EXCEPT !.lease = "mine", !.token = TRUE].token
  BY Zenon DEF TypeOK, Owned

\* So is every value of the signal handler's state.
LEMMA HandlerType ==
  ASSUME TypeOK
  PROVE  /\ [handler EXCEPT !.notify = TRUE, !.goroutine = "select"]
              \in SignalHandler
         /\ [handler EXCEPT !.buffered = FALSE, !.goroutine = "unmount"]
              \in SignalHandler
         /\ [handler EXCEPT !.goroutine = "done"] \in SignalHandler
         /\ [handler EXCEPT !.notify = FALSE, !.quit = TRUE] \in SignalHandler
         /\ [handler EXCEPT !.buffered = TRUE] \in SignalHandler
         /\ [notify |-> FALSE, buffered |-> FALSE, quit |-> FALSE,
             goroutine |-> "off"] \in SignalHandler
  BY Zenon DEF TypeOK, SignalHandler

\* So is every value of the background goroutines' and the kernel's state
\* that sets a flag.
LEMMA FlagType ==
  ASSUME TypeOK
  PROVE  /\ [bg EXCEPT !.cancelled = TRUE] \in Background
         /\ [beat |-> "off", mat |-> "off", async |-> "off", cancelled |-> FALSE]
              \in Background
         /\ [kernel EXCEPT !.state = "gone", !.busy = FALSE] \in Kernel
         /\ \A s \in {"none", "live", "gone", "dead"} :
              [state |-> s, busy |-> FALSE, inflight |-> {}] \in Kernel
  BY Zenon DEF TypeOK, Background, Kernel
----------------------------------------------------------------------------
(* LInv is inductive: a step per action *)

\* Acquiring.
LEMMA LInvAcquires ==
  ASSUME LInv,
         \/ ClaimLease \/ MountFS \/ WritePidFile \/ StartControlServer
         \/ installSignalUnmount \/ OnReady
  PROVE  LInv'
<1> USE DEF Goto, LInv, Mounted, PastDrain, PastBg, PastCtl, PastSig,
            Acquiring, Serving, Releasing, Ended
<1>1. CASE ClaimLease
  <2>1. bg' \in Background /\ bg'.async = bg.async
    BY Zenon, <1>1 DEF ClaimLease, TypeOK, Background
  <2>2. own' \in Owned
    BY Zenon, <1>1, OwnedType DEF ClaimLease, TypeOK
  <2>3. /\ own'.fd = own.fd /\ own'.pidfile = own.pidfile
        /\ own'.socket = own.socket
    BY <1>1, ZenonT(30) DEF ClaimLease, TypeOK, Owned
  <2>4. own'.token \/ (own'.lease # "mine" /\ bg'.beat = "off")
    <3>1. CASE main' = "mount"
      <4>1. own' = [own EXCEPT !.lease = "mine", !.token = TRUE]
        BY Zenon, <1>1, <3>1 DEF ClaimLease
      <4> QED BY <4>1, OwnedType, Zenon
    <3>2. CASE main' # "mount"
      <4>1. own' \in {own, [own EXCEPT !.lease = "other"]} /\ bg' = bg
        BY Zenon, <1>1, <3>2 DEF ClaimLease
      <4>2. own'.token = own.token /\ own'.lease \in {own.lease, "other"}
        BY Zenon, <4>1 DEF TypeOK, Owned
      <4>3. own.token \/ (bg.beat = "off" /\ own.lease # "mine")
        BY <1>1, Zenon DEF ClaimLease
      <4> QED BY Zenon, <4>1, <4>2, <4>3
    <3> QED BY Zenon, <3>1, <3>2
  <2>5. /\ main = "claim" /\ main' \in {"mount", "stopSig"}
        /\ UNCHANGED <<once, served, kernel, ctl, handler, cmd, signals>>
    BY Zenon, <1>1 DEF ClaimLease
  <2> QED BY <2>1, <2>2, <2>3, <2>4, <2>5 DEF TypeOK
<1>2. CASE MountFS
  <2>1. kernel' \in Kernel /\ kernel'.inflight = kernel.inflight
    BY Zenon, <1>2 DEF MountFS, TypeOK, Kernel
  <2>2. own' \in Owned
    BY Zenon, <1>2, OwnedType DEF MountFS, TypeOK
  <2>3. TypeOK'
    BY Zenon, <1>2, <2>1, <2>2 DEF MountFS, TypeOK
  <2> QED BY <1>2, <2>3 DEF MountFS, TypeOK, Kernel, Owned
<1>3. CASE WritePidFile
  BY <1>3 DEF WritePidFile, TypeOK, Owned
<1>4. CASE StartControlServer
  BY <1>4 DEF StartControlServer, TypeOK, Owned, Control
<1>5. CASE installSignalUnmount
  <2>1. TypeOK'
    BY Zenon, <1>5, HandlerType DEF installSignalUnmount, TypeOK
  <2> QED BY Zenon, <1>5, <2>1 DEF installSignalUnmount
<1>6. CASE OnReady
  BY <1>6 DEF OnReady, TypeOK
<1> QED BY Zenon, <1>1, <1>2, <1>3, <1>4, <1>5, <1>6

\* Serving, unmounting and aborting.
LEMMA LInvServes ==
  ASSUME LInv,
         \/ Wait \/ StoreServed \/ AbortWaits \/ HandlerSelects \/ HandlerEnds
         \/ \E who \in {"main", "handler"} : EnterUnmount(who) \/ CallUnmount(who)
  PROVE  LInv'
<1> USE DEF Goto, LInv, Mounted, PastDrain, PastBg, PastCtl, PastSig,
            Acquiring, Serving, Releasing, Ended
<1>1. CASE Wait
  BY <1>1 DEF Wait, Stopped, TypeOK
<1>2. CASE StoreServed
  BY Zenon, <1>2 DEF StoreServed, TypeOK
<1>3. CASE AbortWaits
  BY Zenon, <1>3 DEF AbortWaits, TypeOK
<1>4. CASE HandlerSelects
  <2>1. TypeOK'
    BY <1>4, HandlerType DEF HandlerSelects, TypeOK
  <2> QED BY Zenon, <1>4, <2>1 DEF HandlerSelects
<1>5. CASE HandlerEnds
  <2>1. TypeOK'
    BY Zenon, <1>5, HandlerType DEF HandlerEnds, TypeOK
  <2> QED BY <1>5, <2>1 DEF HandlerEnds, TypeOK, SignalHandler
<1>6. ASSUME NEW who \in {"main", "handler"}, EnterUnmount(who) PROVE LInv'
  BY <1>6 DEF EnterUnmount, InUnmount, TypeOK
<1>7. ASSUME NEW who \in {"main", "handler"}, CallUnmount(who) PROVE LInv'
  BY <1>7 DEF CallUnmount, InUnmount, TypeOK, Kernel
<1> QED BY Zenon, <1>1, <1>2, <1>3, <1>4, <1>5, <1>6, <1>7

\* Releasing.
LEMMA LInvReleases ==
  ASSUME LInv,
         \/ StopSig \/ StopCtl \/ BgCancel \/ Join \/ CloseMounter
         \/ RemovePidFile \/ ReleaseLease \/ Exit
  PROVE  LInv'
<1> USE DEF Step, Goto, LInv, Mounted, PastDrain, PastBg, PastCtl, PastSig,
            Acquiring, Serving, Releasing, Ended
<1>1. CASE StopSig
  <2>1. TypeOK'
    BY Zenon, <1>1, HandlerType DEF StopSig, TypeOK
  <2> QED BY Zenon, <1>1, <2>1 DEF StopSig
<1>2. CASE StopCtl
  BY <1>2 DEF StopCtl, TypeOK, Control
<1>3. CASE BgCancel
  <2>1. TypeOK'
    BY Zenon, <1>3, FlagType DEF BgCancel, TypeOK
  <2>2. bg'.beat = bg.beat /\ bg'.mat = bg.mat /\ bg'.async = bg.async
    BY Zenon, <1>3 DEF BgCancel, TypeOK, Background
  <2> QED BY Zenon, <1>3, <2>1, <2>2 DEF BgCancel
<1>4. CASE Join
  <2>1. /\ UNCHANGED <<once, served, kernel, bg, ctl, handler, own, cmd, signals>>
        /\ Joined(main)
        /\ \/ main = "sigExit" /\ main' = "stopCtl"
           \/ main = "ctlExit" /\ main' = "ctlDrain"
           \/ main = "ctlDrain" /\ main' = "bgCancel"
           \/ main = "bgWait" /\ main' = "drain"
           \/ main = "drain" /\ main' = "close"
    BY Zenon, <1>4 DEF Join
  <2>2. CASE main = "sigExit"
    <3>1. handler.goroutine \in {"off", "done"}
      BY Zenon, <2>1, <2>2 DEF Joined
    <3> QED BY <2>1, <2>2, <3>1 DEF TypeOK
  <2>3. CASE main = "ctlExit"
    <3>1. ctl.listener \in {"off", "done"}
      BY Zenon, <2>1, <2>3 DEF Joined
    <3> QED BY <2>1, <2>3, <3>1 DEF TypeOK
  <2>4. CASE main = "ctlDrain"
    <3>1. \A c \in Conns : ctl.conns[c] = "off"
      BY Zenon, <2>1, <2>4 DEF Joined
    <3> QED BY <2>1, <2>4, <3>1 DEF TypeOK
  <2>5. CASE main = "bgWait"
    <3>1. bg.beat = "off" /\ bg.mat = "off"
      BY Zenon, <2>1, <2>5 DEF Joined
    <3> QED BY <2>1, <2>5, <3>1 DEF TypeOK
  <2>6. CASE main = "drain"
    <3>1. bg.async = "off"
      BY Zenon, <2>1, <2>6 DEF Joined
    <3> QED BY <2>1, <2>6, <3>1 DEF TypeOK
  <2> QED BY Zenon, <2>1, <2>2, <2>3, <2>4, <2>5, <2>6
<1>5. CASE CloseMounter
  <2>1. TypeOK'
    BY Zenon, <1>5, OwnedType DEF CloseMounter, TypeOK
  <2> QED BY <1>5, <2>1 DEF CloseMounter, TypeOK, Owned
<1>6. CASE RemovePidFile
  BY <1>6 DEF RemovePidFile, TypeOK, Owned
<1>7. CASE ReleaseLease
  <2>1. PICK l \in {"none", "mine", "other"} :
          /\ l = IF own.token /\ own.lease = "mine" THEN "none" ELSE own.lease
          /\ own' \in {own, [own EXCEPT !.token = FALSE, !.lease = l]}
    <3>1. own.lease \in {"none", "mine", "other"}
      BY Zenon DEF TypeOK, Owned
    <3>2. own' \in {own, [own EXCEPT !.token = FALSE,
                                    !.lease = IF own.token /\ own.lease = "mine"
                                              THEN "none" ELSE own.lease]}
      BY Zenon, <1>7 DEF ReleaseLease
    <3> QED BY <3>1, <3>2, Zenon
  <2>2. own' \in Owned
    <3>1. own \in Owned /\ [own EXCEPT !.token = FALSE, !.lease = l] \in Owned
      BY OwnedType, Zenon DEF TypeOK
    <3> QED BY Zenon, <2>1, <3>1
  <2>3. /\ own'.fd = own.fd /\ own'.pidfile = own.pidfile
        /\ own'.socket = own.socket
        /\ own' = own \/ own'.lease = l
    BY Zenon, <2>1 DEF TypeOK, Owned
  <2>4. l # "mine" /\ bg.beat = "off"
    BY Zenon, <1>7, <2>1 DEF ReleaseLease
  <2> QED BY <1>7, <2>2, <2>3, <2>4 DEF ReleaseLease, TypeOK
<1>8. CASE Exit
  BY <1>8 DEF Exit, TypeOK
<1> QED BY Zenon, <1>1, <1>2, <1>3, <1>4, <1>5, <1>6, <1>7, <1>8

\* The background goroutines and the control server.
LEMMA LInvWorks ==
  ASSUME LInv,
         \/ Tick \/ BeatReturns \/ MatReturns \/ RenewLease \/ MatCheckpoint
         \/ checkpointAsync \/ AcceptLoopEnds
         \/ \E c \in Conns : Accept(c) \/ handleControl(c)
  PROVE  LInv'
<1> USE DEF SetBg, SetConn, LInv, Mounted, PastDrain, PastBg, PastCtl, PastSig,
            Ended, Checkpointing
<1>1. CASE Tick
  BY <1>1 DEF Tick, TypeOK, Background
<1>2. CASE BeatReturns
  BY <1>2 DEF BeatReturns, TypeOK, Background
<1>3. CASE MatReturns
  BY <1>3 DEF MatReturns, TypeOK, Background
<1>4. CASE RenewLease
  BY <1>4 DEF RenewLease, TypeOK, Background, Owned
<1>5. CASE MatCheckpoint
  BY <1>5 DEF MatCheckpoint, TypeOK, Background
<1>6. CASE checkpointAsync
  BY <1>6 DEF checkpointAsync, TypeOK, Background
<1>7. CASE AcceptLoopEnds
  BY <1>7 DEF AcceptLoopEnds, Alive, TypeOK, Control, Owned
<1>8. ASSUME NEW c \in Conns, Accept(c) PROVE LInv'
  BY <1>8 DEF Accept, TypeOK, Control
<1>9. ASSUME NEW c \in Conns, handleControl(c) PROVE LInv'
  BY <1>9 DEF handleControl, TypeOK, Control
<1> QED BY Zenon, <1>1, <1>2, <1>3, <1>4, <1>5, <1>6, <1>7, <1>8, <1>9

\* The kernel, the users of the mount and other writers.
LEMMA LInvOutside ==
  ASSUME LInv,
         \/ UseMount \/ ExternalUnmount \/ OtherWriter
         \/ \E r \in Requests : BeginRequest(r) \/ EndRequest(r)
  PROVE  LInv'
<1> USE DEF SetKernel, LInv, Mounted, PastDrain, PastBg, PastCtl, PastSig
<1>1. CASE UseMount
  BY <1>1 DEF UseMount, TypeOK, Kernel
<1>2. CASE ExternalUnmount
  <2>1. TypeOK'
    BY Zenon, <1>2, FlagType DEF ExternalUnmount, TypeOK
  <2> QED BY Zenon, <1>2, <2>1 DEF ExternalUnmount
<1>3. CASE OtherWriter
  BY <1>3 DEF OtherWriter, TypeOK, Owned
<1>4. ASSUME NEW r \in Requests, BeginRequest(r) PROVE LInv'
  BY <1>4 DEF BeginRequest, TypeOK, Kernel
<1>5. ASSUME NEW r \in Requests, EndRequest(r) PROVE LInv'
  BY <1>5 DEF EndRequest, TypeOK, Kernel, Background, Checkpointing
<1> QED BY Zenon, <1>1, <1>2, <1>3, <1>4, <1>5

\* The death of the process, whatever it was doing.
LEMMA LInvDies ==
  ASSUME LInv, Die,
         cmd' \in {"idle", "polling", "unmounted"}, signals' \in 0 .. MaxSignals
  PROVE  LInv'
<1>1. kernel' \in Kernel /\ kernel'.state # "live" /\ kernel'.inflight = {}
  <2>1. PICK s \in {"none", "gone", "dead"} :
          kernel' = [state |-> s, busy |-> FALSE, inflight |-> {}]
    BY Zenon DEF Die, LInv, TypeOK, Kernel
  <2>2. kernel' \in Kernel
    BY <2>1, FlagType, Zenon DEF LInv
  <2> QED BY Zenon, <2>1, <2>2
<1>2. /\ bg' \in Background /\ handler' \in SignalHandler /\ own' \in Owned
      /\ ctl' \in Control
  <2>1. bg' \in Background
    BY FlagType, Zenon DEF Die, LInv
  <2>2. handler' \in SignalHandler
    BY HandlerType, Zenon DEF Die, LInv
  <2>3. own' \in Owned
    BY OwnedType, Zenon DEF Die, LInv
  <2>4. ctl' \in Control
    BY Zenon DEF Die, Control
  <2> QED BY Zenon, <2>1, <2>2, <2>3, <2>4
<1>3. main' = "dead" /\ once' = "fresh" /\ served' \in BOOLEAN
  BY Zenon DEF Die
<1> QED BY Zenon, <1>1, <1>2, <1>3 DEF LInv, TypeOK, Ended, Mounted, PastDrain, PastBg,
           PastCtl, PastSig

\* Signals, and the command that sends one.
LEMMA LInvUmount ==
  ASSUME LInv, umount
  PROVE  LInv'
<1>1. CASE /\ cmd' \in {"idle", "polling", "unmounted"}
           /\ signals' \in 0 .. MaxSignals /\ Die
  BY Zenon, <1>1, LInvDies
<1>2. CASE /\ cmd' \in {"idle", "polling", "unmounted"}
           /\ signals' \in 0 .. MaxSignals
           /\ handler' \in {handler, [handler EXCEPT !.buffered = TRUE]}
           /\ UNCHANGED <<main, once, served, kernel, bg, ctl, own>>
  <2>1. handler' \in SignalHandler
    BY Zenon, <1>2, HandlerType DEF LInv, TypeOK
  <2>2. handler'.goroutine = handler.goroutine
    BY Zenon, <1>2 DEF LInv, TypeOK, SignalHandler
  <2> QED BY <1>2, <2>1, <2>2 DEF LInv, TypeOK
<1>3. cmd' \in {"idle", "polling", "unmounted"} /\ signals' \in 0 .. MaxSignals
  BY BoundsAssumption DEF umount, Signal, LInv, TypeOK
<1>4. \/ Die
      \/ /\ handler' \in {handler, [handler EXCEPT !.buffered = TRUE]}
         /\ UNCHANGED <<main, once, served, kernel, bg, ctl, own>>
  BY Zenon DEF umount, Signal
<1> QED BY Zenon, <1>1, <1>2, <1>3, <1>4
----------------------------------------------------------------------------
(* The theorems *)

\* LInv holds of every state of every run.
THEOREM LifecycleInvariant == Spec => []LInv
<1>1. Init => LInv
  <2> SUFFICES ASSUME Init PROVE LInv
    BY Zenon
  <2>1. /\ kernel \in Kernel /\ bg \in Background /\ handler \in SignalHandler
        /\ ctl \in Control
    BY Zenon DEF Init, Kernel, Background, SignalHandler, Control, Checkpointing
  <2>2. PICK l \in {"none", "other"} :
          own = [pidfile |-> "none", socket |-> "none", lease |-> l,
                 token |-> FALSE, fd |-> FALSE]
    BY Zenon DEF Init
  <2>3. TypeOK
    <3>1. own \in Owned
      BY <2>2, Zenon DEF Owned
    <3>2. /\ main = "claim" /\ once = "fresh" /\ served \in BOOLEAN
          /\ cmd = "idle" /\ signals = 0
      BY Zenon DEF Init
    <3> QED BY <2>1, <3>1, <3>2, BoundsAssumption DEF TypeOK, Acquiring
  <2>4. own.socket = "none" /\ own.lease # "mine"
    BY Zenon, <2>2
  <2> QED BY Zenon, <2>3, <2>4 DEF Init, LInv, Mounted, PastDrain, PastBg, PastCtl, PastSig
<1>2. LInv /\ [Next]_vars => LInv'
  <2> SUFFICES ASSUME LInv, [Next]_vars PROVE LInv'
    BY Zenon
  <2>1. CASE Crash
    BY Zenon, <2>1, LInvDies DEF Crash, LInv, TypeOK
  <2>2. CASE UNCHANGED vars
    BY <2>2 DEF vars, LInv, TypeOK
  <2>3. CASE Main
    BY Zenon, <2>3, LInvAcquires, LInvServes, LInvReleases DEF Main
  <2>4. CASE Handler
    BY Zenon, <2>4, LInvServes DEF Handler
  <2> QED BY Zenon, <2>1, <2>2, <2>3, <2>4, LInvWorks, LInvOutside, LInvUmount DEF Next
<1> QED BY <1>1, <1>2, PTL DEF Spec

\* For any requests, connections and signals: what release has given up, no
\* request, checkpoint, renewal, connection or signal handler uses any more.
THEOREM LifecycleReleases == Spec => []NothingUsedAfterRelease
<1>1. LInv => NothingUsedAfterRelease
  BY Zenon DEF LInv, TypeOK, NothingUsedAfterRelease, Mounted, PastDrain, PastBg, PastCtl,
         PastSig, Releasing, Ended, Checkpointing
<1> QED BY <1>1, LifecycleInvariant, PTL

\* And a run that returned with its lease released left nothing behind.
THEOREM LifecycleCleans == Spec => []CleanExit
<1>1. LInv => CleanExit
  BY Zenon DEF LInv, CleanExit, Mounted, PastDrain, PastBg, PastCtl
<1> QED BY <1>1, LifecycleInvariant, PTL
============================================================================
