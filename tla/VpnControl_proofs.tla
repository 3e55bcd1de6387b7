-------------------------- MODULE VpnControl_proofs --------------------------
(***************************************************************************)
(* Theorems about VpnControl, for any number of commands and of starts by  *)
(* serial command, and any order of the steps of its threads.              *)
(***************************************************************************)
EXTENDS VpnControl, TLAPS

USE DEF history

(***************************************************************************)
(* Types.                                                                  *)
(***************************************************************************)
\* The history speaks of tunnels there are.
LEMMA NewTunnelType ==
    ASSUME TypeOK, NewTunnel
    PROVE  /\ tunnels' \in Seq(TunnelStates)
           /\ DOMAIN tunnels' = DOMAIN tunnels \cup {Len(tunnels) + 1}
           /\ overlooked' \subseteq DOMAIN tunnels' /\ UNCHANGED failed
<1>1. /\ tunnels \in Seq(TunnelStates) /\ tunnels' = Append(tunnels, "created")
      /\ overlooked \subseteq DOMAIN tunnels
  BY DEF TypeOK, NewTunnel
<1>2. tunnels' \in Seq(TunnelStates) /\ Len(tunnels') = Len(tunnels) + 1
  BY <1>1 DEF TunnelStates
<1>3. DOMAIN tunnels' = 1 .. Len(tunnels) + 1 /\ DOMAIN tunnels = 1 .. Len(tunnels)
      /\ Len(tunnels) \in Nat
  BY <1>1, <1>2
<1>. QED  BY <1>1, <1>2, <1>3 DEF NewTunnel, LiveTunnels

\* A step of a tunnel keeps the list of tunnels.
LEMMA TunnelType ==
    ASSUME TypeOK, NEW t, NEW from, NEW to \in TunnelStates, Tunnel(t, from, to),
           benable' \in BOOLEAN, sig' \in {"NULL", "none", "SIGHUP"}
    PROVE  TypeOK'
<1>1. tunnels' \in Seq(TunnelStates) /\ DOMAIN tunnels' = DOMAIN tunnels
  BY DEF TypeOK, Tunnel
<1>. QED  BY <1>1 DEF TypeOK, Tunnel, client

\* A step of a checker keeps the list of checkers.
LEMMA CheckerType ==
    ASSUME TypeOK, NEW c, NEW from, NEW to, NEW lost, Checker(c, from, to, lost),
           [at |-> to, lost |-> lost] \in CheckerStates,
           sig' \in {"NULL", "none", "SIGHUP"}
    PROVE  TypeOK'
<1>1. checkers' \in Seq(CheckerStates)
  BY DEF TypeOK, Checker
<1>. QED  BY <1>1 DEF TypeOK, Checker, client

LEMMA DaemonType ==
    ASSUME TypeOK, Daemon \/ Failure
    PROVE  TypeOK'
<1>1. CASE Accept
  <2>1. com' \in Conns /\ backlog' \in Seq(Conns)
    BY <1>1 DEF Accept, TypeOK
  <2>. QED  BY <1>1, <2>1 DEF Accept, TypeOK
<1>2. CASE Read
  <2>1. com \in Commands \cup {"pending", "eof"}
    BY <1>2 DEF Read, TypeOK, Conns
  <2>2. recv_buf' \in Commands \cup {"0"}
    BY <1>2, <2>1 DEF Read, TypeOK
  <2>. QED  BY <1>2, <2>2 DEF Read, TypeOK, client
<1>3. ASSUME Ignore PROVE TypeOK'
  BY <1>3 DEF Ignore, TypeOK, client
<1>4. CASE UnknownCommand \/ CheckStatus \/ StartRefused \/ StopRefused
  BY <1>3, <1>4 DEF UnknownCommand, CheckStatus, StartRefused, StopRefused
<1>5. CASE Start \/ Stop
  BY <1>5 DEF Start, Stop, TypeOK, client
<1>6. CASE CreateTunnel
  BY <1>6, NewTunnelType DEF CreateTunnel, TypeOK, client
<1>7. CASE CreateChecker
  <2>1. [at |-> "test", lost |-> 0] \in CheckerStates
    BY DEF CheckerStates, MaxLost
  <2>2. checkers' \in Seq(CheckerStates)
    BY <1>7, <2>1 DEF CreateChecker, TypeOK
  <2>. QED  BY <1>7, <2>2 DEF CreateChecker, TypeOK, client
<1>8. CASE StopSignal \/ Restart
  BY <1>8 DEF StopSignal, Restart, RaiseHangup, TypeOK, client
<1>9. CASE Close \/ AcceptFails \/ CheckStatusSigPipe \/ CreateFails
  BY <1>9 DEF Close, AcceptFails, CheckStatusSigPipe, CreateFails, TypeOK, client
<1>10. CASE CannotOpenHome
  BY <1>10 DEF CannotOpenHome, TypeOK, client
<1>. QED  BY <1>1, <1>2, <1>4, <1>5, <1>6, <1>7, <1>8, <1>9, <1>10
          DEF Daemon, Failure, ExitInRestart, ExitInChecker

LEMMA TunnelStepType ==
    ASSUME TypeOK, NEW t, TunnelStep(t) \/ GiveUp(t)
    PROVE  TypeOK'
<1>1. benable \in BOOLEAN /\ sig \in {"NULL", "none", "SIGHUP"}
  BY DEF TypeOK
<1>2. {"running", "returned", "done"} \subseteq TunnelStates
  BY DEF TunnelStates
<1>3. CASE Enter(t)
  BY <1>1, <1>2, <1>3, TunnelType DEF Enter
<1>4. CASE Hangup(t)
  <2> DEFINE to == IF benable THEN "running" ELSE "returned"
  <2>1. to \in TunnelStates
    BY <1>2
  <2>. QED  BY <1>1, <1>4, <2>1, TunnelType DEF Hangup
<1>5. CASE GiveUp(t)
  BY <1>1, <1>2, <1>5, TunnelType DEF GiveUp
<1>6. CASE Finish(t)
  BY <1>1, <1>2, <1>6, TunnelType DEF Finish
<1>. QED  BY <1>3, <1>4, <1>5, <1>6 DEF TunnelStep

LEMMA CheckerStepType ==
    ASSUME TypeOK, NEW c \in DOMAIN checkers, CheckerStep(c)
    PROVE  TypeOK'
<1>1. sig \in {"NULL", "none", "SIGHUP"}
  BY DEF TypeOK
<1>2. checkers[c] \in CheckerStates
  BY DEF TypeOK
<1> DEFINE lost == checkers[c].lost
<1>3. checkers[c].at # "restart" => lost \in 0 .. MaxLost - 1
  BY <1>2 DEF CheckerStates
<1>4. \A to \in {"test", "probe", "sleep", "done"}, n \in 0 .. MaxLost - 1 :
        [at |-> to, lost |-> n] \in CheckerStates
  BY DEF CheckerStates
<1>5. CASE CheckFlag(c)
  <2> DEFINE to == IF benable THEN "probe" ELSE "done"
  <2>1. lost \in 0 .. MaxLost - 1
    BY <1>3, <1>5 DEF CheckFlag, Checker
  <2>2. [at |-> to, lost |-> lost] \in CheckerStates
    BY <1>4, <2>1
  <2>. QED  BY <1>1, <1>5, <2>2, CheckerType DEF CheckFlag
<1>6. CASE CannotPing(c)
  <2>1. lost \in 0 .. MaxLost - 1
    BY <1>3, <1>6 DEF CannotPing, Checker
  <2>. QED  BY <1>1, <1>4, <1>6, <2>1, CheckerType DEF CannotPing
<1>7. CASE PingAnswered(c) \/ RestartTunnel(c)
  <2>1. [at |-> "sleep", lost |-> 0] \in CheckerStates
    BY <1>4 DEF MaxLost
  <2>2. sig' \in {"NULL", "none", "SIGHUP"}
    BY <1>1, <1>7 DEF PingAnswered, RestartTunnel, RaiseHangup
  <2>. QED  BY <1>7, <2>1, <2>2, CheckerType DEF PingAnswered, RestartTunnel
<1>8. CASE PingLost(c)
  <2> DEFINE to == IF lost + 1 >= MaxLost THEN "restart" ELSE "sleep"
  <2>1. lost \in 0 .. MaxLost - 1
    BY <1>3, <1>8 DEF PingLost, Checker
  <2>2. [at |-> to, lost |-> lost + 1] \in CheckerStates
    <3> HIDE DEF lost
    <3>. QED  BY <2>1 DEF CheckerStates, MaxLost
  <2>. QED  BY <1>1, <1>8, <2>2, CheckerType DEF PingLost
<1>9. CASE Wake(c)
  <2>1. lost \in 0 .. MaxLost - 1
    BY <1>3, <1>9 DEF Wake, Checker
  <2>. QED  BY <1>1, <1>4, <1>9, <2>1, CheckerType DEF Wake
<1>. QED  BY <1>5, <1>6, <1>7, <1>8, <1>9 DEF CheckerStep

LEMMA ClientType ==
    ASSUME TypeOK, Connect \/ ClientStep \/ LinkChanges \/ StartBySerial
    PROVE  TypeOK'
<1>1. CASE Connect
  <2>1. backlog' \in Seq(Conns)
    BY <1>1 DEF Connect, TypeOK, Conns
  <2>. QED  BY <1>1, <2>1 DEF Connect, TypeOK
<1>2. ASSUME NEW conn \in Conns, Deliver(conn) PROVE TypeOK'
  <2>1. com' \in Conns \cup {"none"} /\ backlog' \in Seq(Conns)
    BY <1>2 DEF Deliver, TypeOK, Conns
  <2>. QED  BY <1>2, <2>1 DEF Deliver, TypeOK
<1>3. CASE ClientStep
  BY <1>2, <1>3 DEF ClientStep, Vanish, Write, Conns
<1>4. CASE LinkChanges
  BY <1>4 DEF LinkChanges, TypeOK, client
<1>5. CASE StartBySerial
  BY <1>5, NewTunnelType DEF StartBySerial, TypeOK, client
<1>. QED  BY <1>1, <1>3, <1>4, <1>5

LEMMA NextType ==
    ASSUME TypeOK, [Next]_vars
    PROVE  TypeOK'
<1>1. CASE UNCHANGED vars
  BY <1>1 DEF TypeOK, vars, client
<1>. QED  BY <1>1, DaemonType, TunnelStepType, CheckerStepType, ClientType DEF Next

LEMMA InitType == Init => TypeOK
<1>. SUFFICES ASSUME Init PROVE TypeOK
  OBVIOUS
<1>1. tunnels \in Seq(TunnelStates) /\ checkers \in Seq(CheckerStates)
      /\ backlog \in Seq(Conns)
  BY DEF Init
<1>. QED  BY <1>1 DEF Init, TypeOK, Links

\* The variables keep their types in every run of the daemon; among them is that
\* the watchdog's count of lost pings stays at or below the threshold, and
\* reaches it only on the way to a restart.
THEOREM TypeCorrect == Spec => []TypeOK
BY InitType, NextType, PTL DEF Spec

(***************************************************************************)
(* benable has threads behind it.  The two properties are inductive, given *)
(* the types: benable is set only on the way to the creation of both       *)
(* threads, a tunnel clears it when it ends, and a checker ends only in a  *)
(* step that finds it clear.                                               *)
(***************************************************************************)
EnabledIsLive == StillRunningIsTrue /\ WatchedWhileEnabled

\* Appending a thread that lives makes the set of live ones non-empty.
LEMMA NewTunnelLives ==
    ASSUME TypeOK, tunnels' = Append(tunnels, "created")
    PROVE  LiveTunnels' # {}
<1>1. tunnels \in Seq(TunnelStates) /\ Len(tunnels) \in Nat
  BY DEF TypeOK
<1>2. Len(tunnels) + 1 \in DOMAIN tunnels' /\ tunnels'[Len(tunnels) + 1] = "created"
  BY <1>1
<1>. QED  BY <1>2 DEF LiveTunnels

LEMMA NewCheckerLives ==
    ASSUME TypeOK, NEW r, r.at # "done", checkers' = Append(checkers, r)
    PROVE  LiveCheckers' # {}
<1>1. checkers \in Seq(CheckerStates) /\ Len(checkers) \in Nat
  BY DEF TypeOK
<1>2. Len(checkers) + 1 \in DOMAIN checkers' /\ checkers'[Len(checkers) + 1] = r
  BY <1>1
<1>. QED  BY <1>2 DEF LiveCheckers

LEMMA DaemonLive ==
    ASSUME TypeOK, EnabledIsLive, Daemon \/ Failure
    PROVE  EnabledIsLive'
<1>. USE DEF EnabledIsLive, StillRunningIsTrue, WatchedWhileEnabled
<1>1. ASSUME UNCHANGED <<benable, tunnels, checkers, failed>>,
             pc \notin {"create_tunnel", "create_checker", "dead"}
      PROVE  EnabledIsLive'
  BY <1>1 DEF LiveTunnels, LiveCheckers
<1>. USE DEF ExitInRestart, ExitInChecker, CannotOpenHome
<1>2. CASE \/ Accept \/ Read \/ StopSignal \/ Restart \/ Close
          \/ AcceptFails \/ CheckStatusSigPipe
  BY <1>1, <1>2 DEF Accept, Read, StopSignal, Restart, Close, AcceptFails,
                    CheckStatusSigPipe, Processing
<1>3. CASE UnknownCommand \/ CheckStatus \/ StartRefused \/ StopRefused
  BY <1>1, <1>3 DEF UnknownCommand, CheckStatus, StartRefused, StopRefused, Ignore,
                    Processing
<1>4. CASE CreateFails \/ pc' = "dead"
  BY <1>4 DEF CreateFails
<1>5. CASE Start
  BY <1>5 DEF Start
<1>6. CASE Stop
  BY <1>6 DEF Stop
<1>7. CASE CreateTunnel
  BY <1>7, NewTunnelLives DEF CreateTunnel, NewTunnel
<1>8. CASE CreateChecker
  <2>1. LiveCheckers' # {}
    BY <1>8, NewCheckerLives DEF CreateChecker
  <2>. QED  BY <1>8, <2>1 DEF CreateChecker, LiveTunnels
<1>. QED  BY <1>2, <1>3, <1>4, <1>5, <1>6, <1>7, <1>8 DEF Daemon, Failure

\* A step of a tunnel other than its end leaves the live tunnels.
LEMMA TunnelLive ==
    ASSUME TypeOK, EnabledIsLive, NEW t, TunnelStep(t) \/ GiveUp(t)
    PROVE  EnabledIsLive'
<1>. USE DEF EnabledIsLive, StillRunningIsTrue, WatchedWhileEnabled
<1>1. CASE Finish(t)
  BY <1>1 DEF Finish
<1>2. ASSUME NEW from, NEW to, to # "done", Tunnel(t, from, to), benable' = benable
      PROVE  EnabledIsLive'
  <2>1. tunnels \in Seq(TunnelStates) /\ t \in DOMAIN tunnels
    BY <1>2 DEF TypeOK, Tunnel
  <2>2. DOMAIN tunnels' = DOMAIN tunnels /\ tunnels'[t] = to
    BY <1>2, <2>1 DEF Tunnel
  <2>3. LiveTunnels' # {}
    BY <1>2, <2>1, <2>2 DEF LiveTunnels
  <2>. QED  BY <1>2, <2>3 DEF Tunnel, LiveCheckers
<1>3. CASE Enter(t)
  BY <1>2, <1>3 DEF Enter
<1>4. CASE Hangup(t)
  BY <1>2, <1>4 DEF Hangup
<1>5. CASE GiveUp(t)
  BY <1>2, <1>5 DEF GiveUp
<1>. QED  BY <1>1, <1>3, <1>4, <1>5 DEF TunnelStep

\* A checker that finds benable set stays.
LEMMA CheckerLive ==
    ASSUME TypeOK, EnabledIsLive, NEW c \in DOMAIN checkers, CheckerStep(c)
    PROVE  EnabledIsLive'
<1>. USE DEF EnabledIsLive, StillRunningIsTrue, WatchedWhileEnabled
<1>1. ASSUME NEW from, NEW to, NEW lost, benable => to # "done", Checker(c, from, to, lost)
      PROVE  EnabledIsLive'
  <2>1. checkers \in Seq(CheckerStates)
    BY DEF TypeOK
  <2>2. c \in DOMAIN checkers' /\ checkers'[c] = [at |-> to, lost |-> lost]
    BY <1>1, <2>1 DEF Checker
  <2>3. benable => LiveCheckers' # {}
    BY <1>1, <2>2 DEF LiveCheckers
  <2>. QED  BY <1>1, <2>3 DEF Checker, LiveTunnels
<1>2. CASE CheckFlag(c)
  BY <1>1, <1>2 DEF CheckFlag
<1>3. CASE CannotPing(c) \/ PingAnswered(c) \/ RestartTunnel(c) \/ Wake(c)
  BY <1>1, <1>3 DEF CannotPing, PingAnswered, RestartTunnel, Wake
<1>4. CASE PingLost(c)
  BY <1>1, <1>4 DEF PingLost
<1>. QED  BY <1>2, <1>3, <1>4 DEF CheckerStep

LEMMA ClientLive ==
    ASSUME TypeOK, EnabledIsLive, Connect \/ ClientStep \/ LinkChanges \/ StartBySerial
    PROVE  EnabledIsLive'
<1>. USE DEF EnabledIsLive, StillRunningIsTrue, WatchedWhileEnabled
<1>1. CASE StartBySerial
  BY <1>1, NewTunnelLives DEF StartBySerial, NewTunnel, LiveCheckers
<1>2. CASE Connect \/ ClientStep \/ LinkChanges
  BY <1>2 DEF Connect, ClientStep, Vanish, Write, Deliver, LinkChanges, LiveTunnels,
              LiveCheckers
<1>. QED  BY <1>1, <1>2

\* As long as pthread_create() has not failed, an enabled VPN has a live tunnel
\* thread and a live checker, whatever commands and serial starts there are and
\* however the threads interleave: a refused start is never wrong.
THEOREM EnabledHasThreads == Spec => [](StillRunningIsTrue /\ WatchedWhileEnabled)
<1>1. Init => EnabledIsLive
  BY DEF Init, EnabledIsLive, StillRunningIsTrue, WatchedWhileEnabled
<1>2. ASSUME TypeOK, EnabledIsLive, [Next]_vars
      PROVE  EnabledIsLive'
  <2>1. CASE UNCHANGED vars
    BY <1>2, <2>1 DEF EnabledIsLive, StillRunningIsTrue, WatchedWhileEnabled, LiveTunnels,
                LiveCheckers, vars
  <2>. QED  BY <1>2, <2>1, DaemonLive, TunnelLive, CheckerLive, ClientLive DEF Next
<1>3. TypeOK /\ EnabledIsLive /\ [Next]_vars => EnabledIsLive'
  BY <1>2
<1>. QED  BY <1>1, <1>3, TypeCorrect, PTL DEF Spec, EnabledIsLive

(***************************************************************************)
(* What a stop can count on.  The strengthening: a tunnel that runs has a  *)
(* signal slot; one that is not overlooked lives alone, and, while the VPN *)
(* is disabled, has left the state in which a signal would miss it.        *)
(***************************************************************************)
SlotInUse == \A t \in DOMAIN tunnels : tunnels[t] = "running" => sig # "NULL"
Alone     == \A t \in LiveTunnels \ overlooked : LiveTunnels = {t}
CreatedEnabled ==
    ~benable /\ pc \notin {"stop_signal", "dead"} =>
        \A t \in DOMAIN tunnels : tunnels[t] = "created" => t \in overlooked

StopInv == SlotInUse /\ Alone /\ CreatedEnabled /\ DisabledGoesDown

\* Steps that leave the tunnels, the flag and the slot, and do not come from the
\* point between the flag and the signal.
LEMMA TunnelsKept ==
    ASSUME StopInv, UNCHANGED <<tunnels, overlooked>>, benable' = benable \/ benable',
           sig' = sig \/ RaiseHangup,
           pc = "stop_signal" => pc' \in {"stop_signal", "dead"},
           pc = "dead" => pc' = "dead"
    PROVE  StopInv'
<1>1. SlotInUse' /\ Alone'
  BY DEF StopInv, SlotInUse, Alone, LiveTunnels, RaiseHangup
<1>2. CreatedEnabled' /\ DisabledGoesDown'
  BY DEF StopInv, CreatedEnabled, DisabledGoesDown, RaiseHangup
<1>. QED  BY <1>1, <1>2 DEF StopInv

\* A new tunnel is overlooked, or it is alone and the VPN is enabled.
LEMMA NewTunnelStop ==
    ASSUME TypeOK, StopInv, NewTunnel, UNCHANGED <<benable, sig>>, pc # "dead",
           pc' = pc \/ pc \notin {"stop_signal", "dead"}
    PROVE  StopInv'
<1> DEFINE new == Len(tunnels) + 1
<1>1. /\ tunnels \in Seq(TunnelStates) /\ DOMAIN tunnels' = DOMAIN tunnels \cup {new}
      /\ new \notin DOMAIN tunnels /\ tunnels'[new] = "created"
      /\ \A t \in DOMAIN tunnels : tunnels'[t] = tunnels[t]
  BY DEF TypeOK, NewTunnel
<1>2. LiveTunnels' = LiveTunnels \cup {new}
  BY <1>1 DEF LiveTunnels
<1>3. /\ LiveTunnels # {} => overlooked' = overlooked \cup LiveTunnels \cup {new}
      /\ ~benable => new \in overlooked' /\ overlooked \subseteq overlooked'
      /\ overlooked \subseteq overlooked'
  BY DEF NewTunnel
<1>. HIDE DEF new
<1>4. SlotInUse'
  BY <1>1 DEF StopInv, SlotInUse
<1>5. Alone'
  BY <1>2, <1>3 DEF StopInv, Alone
<1>6. CreatedEnabled' /\ DisabledGoesDown'
  BY <1>1, <1>3 DEF StopInv, CreatedEnabled, DisabledGoesDown
<1>. QED  BY <1>4, <1>5, <1>6 DEF StopInv

LEMMA DaemonStop ==
    ASSUME TypeOK, StopInv, Daemon \/ Failure
    PROVE  StopInv'
<1>1. CASE \/ Accept \/ Read \/ StartRefused \/ StopRefused \/ Start \/ Close
          \/ UnknownCommand \/ CheckStatus
  BY <1>1, TunnelsKept DEF Accept, Read, StartRefused, StopRefused, Start, Close,
           UnknownCommand, CheckStatus, Ignore, Processing
<1>2. CASE Restart \/ CreateChecker
  BY <1>2, TunnelsKept DEF Restart, CreateChecker, Processing
<1>3. CASE AcceptFails \/ CreateFails \/ CheckStatusSigPipe \/ CannotOpenHome
  BY <1>3, TunnelsKept DEF AcceptFails, CreateFails, CheckStatusSigPipe, CannotOpenHome,
                           Processing
<1>4. CASE CreateTunnel
  BY <1>4, NewTunnelStop DEF CreateTunnel
<1>5. CASE Stop
  BY <1>5 DEF Stop, StopInv, SlotInUse, Alone, CreatedEnabled, DisabledGoesDown,
              LiveTunnels
<1>6. CASE StopSignal
  <2>1. SlotInUse' /\ Alone'
    BY <1>6 DEF StopSignal, StopInv, SlotInUse, Alone, LiveTunnels, RaiseHangup
  <2>2. CreatedEnabled'
    BY <1>6 DEF StopSignal, CreatedEnabled
  <2>3. DisabledGoesDown'
    BY <1>6 DEF StopSignal, StopInv, SlotInUse, DisabledGoesDown, RaiseHangup
  <2>. QED  BY <2>1, <2>2, <2>3 DEF StopInv
<1>. QED  BY <1>1, <1>2, <1>3, <1>4, <1>5, <1>6
          DEF Daemon, Failure, ExitInRestart, ExitInChecker

\* What takes the signal or clears the flag is a live tunnel: a tunnel that is not
\* overlooked does it itself.
LEMMA TunnelStepStop ==
    ASSUME TypeOK, StopInv, NEW t \in DOMAIN tunnels, TunnelStep(t) \/ GiveUp(t)
    PROVE  StopInv'
<1>1. PICK from \in {"created", "running", "returned"},
           to \in {"running", "returned", "done"} :
           Tunnel(t, from, to)
  BY DEF TunnelStep, GiveUp, Enter, Hangup, Finish
<1>2. /\ DOMAIN tunnels' = DOMAIN tunnels /\ tunnels[t] = from /\ tunnels'[t] = to
      /\ \A u \in DOMAIN tunnels \ {t} : tunnels'[u] = tunnels[u]
      /\ UNCHANGED <<pc, overlooked>> /\ pc # "dead"
  <2>1. tunnels \in Seq(TunnelStates)
    BY DEF TypeOK
  <2>. QED  BY <1>1, <2>1 DEF Tunnel
<1>3. t \in LiveTunnels /\ LiveTunnels' \subseteq LiveTunnels
  BY <1>2 DEF LiveTunnels
<1>4. \A u \in DOMAIN tunnels \ {t} : tunnels[u] # "done" => u \in overlooked
  BY <1>3 DEF StopInv, Alone, LiveTunnels
<1>5. Alone'
  BY <1>2, <1>3 DEF StopInv, Alone
<1>6. CASE Enter(t)
  <2>1. sig' = "none" /\ UNCHANGED benable /\ from = "created" /\ to = "running"
    BY <1>2, <1>6 DEF Enter, Tunnel, TypeOK
  <2>. QED  BY <1>2, <1>4, <1>5, <2>1
            DEF StopInv, SlotInUse, CreatedEnabled, DisabledGoesDown
<1>7. CASE Hangup(t)
  <2>1. /\ sig' = "none" /\ UNCHANGED benable /\ from = "running"
        /\ ~benable => to = "returned"
        /\ to # "created"
    BY <1>1, <1>2, <1>7 DEF Hangup, Tunnel, TypeOK
  <2>. QED  BY <1>2, <1>4, <1>5, <2>1
            DEF StopInv, SlotInUse, CreatedEnabled, DisabledGoesDown
<1>8. CASE GiveUp(t)
  <2>1. UNCHANGED <<benable, sig>> /\ to = "returned"
    BY <1>2, <1>8 DEF GiveUp, Tunnel, TypeOK
  <2>. QED  BY <1>2, <1>5, <2>1 DEF StopInv, SlotInUse, CreatedEnabled, DisabledGoesDown
<1>9. CASE Finish(t)
  <2>1. UNCHANGED sig /\ to = "done"
    BY <1>2, <1>9 DEF Finish, Tunnel, TypeOK
  <2>. QED  BY <1>2, <1>4, <1>5, <2>1
            DEF StopInv, SlotInUse, CreatedEnabled, DisabledGoesDown
<1>. QED  BY <1>6, <1>7, <1>8, <1>9 DEF TunnelStep

LEMMA OthersStop ==
    ASSUME TypeOK, StopInv, \/ StartBySerial \/ Connect \/ ClientStep \/ LinkChanges
                            \/ \E c \in DOMAIN checkers : CheckerStep(c)
    PROVE  StopInv'
<1>1. CASE StartBySerial
  BY <1>1, NewTunnelStop DEF StartBySerial
<1>2. CASE Connect \/ LinkChanges
  BY <1>2, TunnelsKept DEF Connect, LinkChanges
<1>3. CASE ClientStep
  BY <1>3, TunnelsKept DEF ClientStep, Vanish, Write, Deliver
<1>4. CASE \E c \in DOMAIN checkers : CheckerStep(c)
  BY <1>4, TunnelsKept DEF CheckerStep, CheckFlag, CannotPing, PingAnswered, PingLost,
                           RestartTunnel, Wake, Checker
<1>. QED  BY <1>1, <1>2, <1>3, <1>4

\* For any number of commands and of starts by serial command, in any order: while
\* the VPN is disabled a tunnel that runs has a SIGHUP to see, unless it was created
\* while the VPN was disabled, had not entered the library when the stop came, or
\* lived at the same time as another one.
THEOREM DisabledVpnGoesDown == Spec => []DisabledGoesDown
<1>1. Init => StopInv
  BY DEF Init, StopInv, SlotInUse, Alone, CreatedEnabled, LiveTunnels, DisabledGoesDown
<1>2. ASSUME TypeOK, StopInv, [Next]_vars
      PROVE  StopInv'
  <2>1. CASE UNCHANGED vars
    BY <1>2, <2>1 DEF StopInv, SlotInUse, Alone, CreatedEnabled, LiveTunnels,
                      DisabledGoesDown, vars
  <2>. QED  BY <1>2, <2>1, DaemonStop, TunnelStepStop, OthersStop DEF Next
<1>3. TypeOK /\ StopInv /\ [Next]_vars => StopInv'
  BY <1>2
<1>4. StopInv => DisabledGoesDown
  BY DEF StopInv
<1>. QED  BY <1>1, <1>3, <1>4, TypeCorrect, PTL DEF Spec

(***************************************************************************)
(* The daemon does what CmdChannel promises its clients: the initial       *)
(* states map to initial states, and every step of a thread to a step of   *)
(* the promise or to none.                                                 *)
(***************************************************************************)
(***************************************************************************)
(* What the map needs to know of the command thread: it has a connection   *)
(* from accept() to close(), and it is in the middle of the command that   *)
(* recv_buf holds.                                                         *)
(***************************************************************************)
Executing == {"create_tunnel", "create_checker", "stop_signal"}
HasConnection ==
    /\ pc \in {"accept", "ended"} => com = "none"
    /\ pc \in {"read", "process", "close"} \cup Executing => com # "none"
InCommand ==
    /\ pc \in {"create_tunnel", "create_checker"} => recv_buf = "VPN_START"
    /\ pc = "stop_signal" => recv_buf = "VPN_STOP"
Placed == HasConnection /\ InCommand

LEMMA PlacedInit == Init => Placed
BY DEF Init, Placed, HasConnection, InCommand, Executing

LEMMA PlacedNext ==
    ASSUME TypeOK, Placed, [Next]_vars
    PROVE  Placed'
<1>. USE DEF Placed, HasConnection, InCommand, Executing
<1>1. CASE Daemon
  <2>1. CASE Accept
    BY <2>1 DEF Accept, TypeOK, Conns, Commands
  <2>2. CASE Read
    BY <2>2 DEF Read
  <2>3. CASE UnknownCommand \/ CheckStatus \/ StartRefused \/ StopRefused
    BY <2>3 DEF UnknownCommand, CheckStatus, StartRefused, StopRefused, Ignore, Processing
  <2>4. CASE Start \/ Stop \/ StopSignal \/ Restart
    BY <2>4 DEF Start, Stop, StopSignal, Restart, Processing
  <2>5. CASE CreateTunnel \/ CreateChecker \/ Close
    BY <2>5 DEF CreateTunnel, CreateChecker, Close
  <2>. QED  BY <1>1, <2>1, <2>2, <2>3, <2>4, <2>5 DEF Daemon
<1>2. CASE Failure
  BY <1>2 DEF Failure, AcceptFails, CreateFails, CheckStatusSigPipe, ExitInRestart,
              ExitInChecker, CannotOpenHome, Processing
<1>3. CASE StartBySerial \/ Connect \/ LinkChanges \/ UNCHANGED vars
  BY <1>3 DEF StartBySerial, Connect, LinkChanges, vars
<1>4. CASE \E t \in DOMAIN tunnels : TunnelStep(t) \/ GiveUp(t)
  BY <1>4 DEF TunnelStep, GiveUp, Enter, Hangup, Finish, Tunnel
<1>5. CASE \E c \in DOMAIN checkers : CheckerStep(c)
  BY <1>5 DEF CheckerStep, CheckFlag, CannotPing, PingAnswered, PingLost, RestartTunnel,
              Wake, Checker
<1>6. CASE ClientStep
  BY <1>6 DEF ClientStep, Vanish, Write, Deliver, Commands
<1>. QED  BY <1>1, <1>2, <1>3, <1>4, <1>5, <1>6 DEF Next

(***************************************************************************)
(* The queue a client sees.                                                *)
(***************************************************************************)
LEMMA WaitingServed ==
    ASSUME TypeOK, com # "none"
    PROVE  Waiting # <<>> /\ Head(Waiting) = com /\ Tail(Waiting) = backlog
BY DEF TypeOK, Waiting

LEMMA AcceptKeepsWaiting ==
    ASSUME TypeOK, Placed, Accept
    PROVE  Waiting' = Waiting
<1>1. com = "none" /\ backlog \in Seq(Conns) /\ backlog # <<>>
  BY DEF Accept, TypeOK, Placed, HasConnection
<1>2. com' = Head(backlog) /\ backlog' = Tail(backlog) /\ com' # "none"
  BY <1>1 DEF Accept, Conns, Commands
<1>3. <<Head(backlog)>> \o Tail(backlog) = backlog
  BY <1>1
<1>. QED  BY <1>1, <1>2, <1>3 DEF Waiting

LEMMA ConnectMaps ==
    ASSUME TypeOK, Placed, Connect
    PROVE  Channel!Connect
<1>1. Waiting' = Append(Waiting, "pending")
  <2>1. backlog \in Seq(Conns) /\ backlog' = Append(backlog, "pending") /\ com' = com
    BY DEF Connect, TypeOK
  <2>2. <<com>> \o Append(backlog, "pending") = Append(<<com>> \o backlog, "pending")
    BY <2>1
  <2>. QED  BY <2>1, <2>2 DEF Waiting
<1>2. Phase' = Phase /\ Phase # "gone"
  BY DEF Connect, Phase, TypeOK
<1>. QED  BY <1>1, <1>2 DEF Connect, Channel!Connect

\* Changing an element of a queue that has a connection in front of it.
LEMMA InFront ==
    ASSUME NEW S, NEW s \in Seq(S), NEW x \in S
    PROVE  /\ <<x>> \o s \in Seq(S) /\ Len(<<x>> \o s) = Len(s) + 1
           /\ (<<x>> \o s)[1] = x
           /\ \A k \in 2 .. Len(s) + 1 : (<<x>> \o s)[k] = s[k - 1]
OBVIOUS

LEMMA SameQueue ==
    ASSUME NEW S, NEW s \in Seq(S), NEW t \in Seq(S), Len(s) = Len(t),
           \A k \in 1 .. Len(s) : s[k] = t[k]
    PROVE  s = t
OBVIOUS

LEMMA ChangeFirst ==
    ASSUME NEW S, NEW s \in Seq(S), NEW x \in S, NEW y \in S
    PROVE  <<y>> \o s = [<<x>> \o s EXCEPT ![1] = y]
<1> DEFINE u == <<y>> \o s
           w == <<x>> \o s
           v == [w EXCEPT ![1] = y]
<1>1. /\ u \in Seq(S) /\ Len(u) = Len(s) + 1 /\ u[1] = y
      /\ \A k \in 2 .. Len(s) + 1 : u[k] = s[k - 1]
  BY InFront
<1>2. /\ w \in Seq(S) /\ Len(w) = Len(s) + 1
      /\ \A k \in 2 .. Len(s) + 1 : w[k] = s[k - 1]
  BY InFront
<1>. HIDE DEF u, w
<1>3. /\ v \in Seq(S) /\ Len(v) = Len(s) + 1 /\ v[1] = y
      /\ \A k \in 2 .. Len(s) + 1 : v[k] = s[k - 1]
  BY <1>2
<1>. HIDE DEF v
<1>4. ASSUME NEW k \in 1 .. Len(u) PROVE u[k] = v[k]
  <2>1. k = 1 \/ k \in 2 .. Len(s) + 1
    BY <1>1
  <2>. QED  BY <1>1, <1>3, <2>1
<1>5. u = v
  BY <1>1, <1>3, <1>4, SameQueue
<1>. QED  BY <1>5 DEF u, v, w

LEMMA ChangeLater ==
    ASSUME NEW S, NEW s \in Seq(S), NEW x \in S, NEW y \in S, NEW i \in DOMAIN s
    PROVE  <<x>> \o [s EXCEPT ![i] = y] = [<<x>> \o s EXCEPT ![i + 1] = y]
<1> DEFINE t == [s EXCEPT ![i] = y]
           u == <<x>> \o t
           w == <<x>> \o s
           v == [w EXCEPT ![i + 1] = y]
<1>1. /\ t \in Seq(S) /\ Len(t) = Len(s)
      /\ \A k \in 1 .. Len(s) : t[k] = IF k = i THEN y ELSE s[k]
  OBVIOUS
<1>. HIDE DEF t
<1>2. /\ u \in Seq(S) /\ Len(u) = Len(s) + 1 /\ u[1] = x
      /\ \A k \in 2 .. Len(s) + 1 : u[k] = t[k - 1]
  <2>1. t \in Seq(S)
    BY <1>1
  <2>2. /\ u \in Seq(S) /\ Len(u) = Len(t) + 1 /\ u[1] = x
        /\ \A k \in 2 .. Len(t) + 1 : u[k] = t[k - 1]
    BY <2>1, InFront
  <2>. HIDE DEF u
  <2>. QED  BY <1>1, <2>2
<1>3. /\ w \in Seq(S) /\ Len(w) = Len(s) + 1 /\ w[1] = x
      /\ \A k \in 2 .. Len(s) + 1 : w[k] = s[k - 1]
  BY InFront
<1>. HIDE DEF u, w
<1>4. /\ v \in Seq(S) /\ Len(v) = Len(s) + 1
      /\ \A k \in 1 .. Len(s) + 1 : v[k] = IF k = i + 1 THEN y ELSE w[k]
  BY <1>3
<1>. HIDE DEF v
<1>5. i \in 1 .. Len(s) /\ Len(s) \in Nat
  OBVIOUS
<1>6. ASSUME NEW k \in 1 .. Len(u) PROVE u[k] = v[k]
  <2>1. CASE k = 1
    BY <1>2, <1>3, <1>4, <1>5, <2>1
  <2>2. CASE k # 1
    <3>1. k \in 2 .. Len(s) + 1 /\ k - 1 \in 1 .. Len(s)
      BY <1>2, <1>5, <2>2
    <3>2. u[k] = t[k - 1] /\ w[k] = s[k - 1] /\ (k = i + 1 <=> k - 1 = i)
      BY <1>2, <1>3, <1>5, <3>1
    <3>3. t[k - 1] = IF k - 1 = i THEN y ELSE s[k - 1]
      BY <1>1, <3>1
    <3>4. v[k] = IF k = i + 1 THEN y ELSE w[k]
      BY <1>4, <3>1
    <3>5. CASE k = i + 1
      BY <3>2, <3>3, <3>4, <3>5
    <3>6. CASE k # i + 1
      BY <3>2, <3>3, <3>4, <3>6
    <3>. QED  BY <3>5, <3>6
  <2>. QED  BY <2>1, <2>2
<1>7. u = v
  BY <1>2, <1>4, <1>6, SameQueue
<1>. QED  BY <1>7 DEF u, v, w, t

LEMMA DeliverMaps ==
    ASSUME TypeOK, Placed, NEW conn \in Commands \cup {"eof"}, Deliver(conn)
    PROVE  \E i \in DOMAIN Waiting : Channel!Send(i, conn)
<1>1. backlog \in Seq(Conns) /\ com \in Conns \cup {"none"} /\ conn # "none"
  BY DEF TypeOK, Commands
<1>2. Phase' = Phase /\ UNCHANGED <<recv_buf, benable, sig>>
  BY DEF Deliver, Phase
<1>3. CASE com = "pending" /\ com' = conn /\ UNCHANGED backlog
  <2>1. Waiting = <<com>> \o backlog /\ Waiting' = <<conn>> \o backlog
    BY <1>1, <1>3 DEF Waiting
  <2>2. Waiting \in Seq(Conns) /\ 1 \in DOMAIN Waiting /\ Waiting[1] = "pending"
    BY <1>1, <1>3, <2>1 DEF Conns
  <2>3. <<conn>> \o backlog = [<<com>> \o backlog EXCEPT ![1] = conn]
    BY <1>1, <1>3, ChangeFirst DEF Conns
  <2>4. Channel!Send(1, conn)
    BY <1>2, <2>1, <2>2, <2>3 DEF Channel!Send
  <2>. QED  BY <2>2, <2>4
<1>4. ASSUME NEW i \in DOMAIN backlog, backlog[i] = "pending",
             backlog' = [backlog EXCEPT ![i] = conn], UNCHANGED com
      PROVE  \E k \in DOMAIN Waiting : Channel!Send(k, conn)
  <2>1. CASE com = "none"
    <3>1. Waiting = backlog /\ Waiting' = backlog'
      BY <1>4, <2>1 DEF Waiting
    <3>2. Channel!Send(i, conn)
      BY <1>2, <1>4, <3>1 DEF Channel!Send
    <3>. QED  BY <1>4, <3>1, <3>2
  <2>2. CASE com # "none"
    <3>1. Waiting = <<com>> \o backlog /\ Waiting' = <<com>> \o backlog'
      BY <1>4, <2>2 DEF Waiting
    <3>2. i + 1 \in DOMAIN Waiting /\ Waiting[i + 1] = "pending"
      BY <1>1, <1>4, <3>1
    <3>3. <<com>> \o [backlog EXCEPT ![i] = conn]
            = [<<com>> \o backlog EXCEPT ![i + 1] = conn]
      BY <1>1, <2>2, ChangeLater DEF Conns
    <3>4. Channel!Send(i + 1, conn)
      BY <1>2, <1>4, <3>1, <3>2, <3>3 DEF Channel!Send
    <3>. QED  BY <3>2, <3>4
  <2>. QED  BY <2>1, <2>2
<1>. QED  BY <1>3, <1>4 DEF Deliver

(***************************************************************************)
(* The steps of the command thread.                                        *)
(***************************************************************************)
LEMMA DaemonMaps ==
    ASSUME TypeOK, Placed, Daemon \/ Failure
    PROVE  [Channel!Next]_(Channel!vars)
<1>. USE DEF Placed, HasConnection, InCommand, Executing
<1>1. CASE Accept
  <2>1. Phase' = Phase /\ UNCHANGED <<recv_buf, benable, sig>>
    BY <1>1 DEF Accept, Phase
  <2>. QED  BY <1>1, <2>1, AcceptKeepsWaiting DEF Channel!vars
<1>2. ASSUME UNCHANGED <<com, backlog>> PROVE Waiting' = Waiting
  BY <1>2 DEF Waiting
<1>3. CASE Read
  <2>1. Waiting' = Waiting /\ Phase = "idle" /\ Phase' = "received"
    BY <1>2, <1>3 DEF Read, Phase, client
  <2>2. Waiting # <<>> /\ Head(Waiting) = com
    BY <1>3, WaitingServed DEF Read
  <2>3. Channel!Receive
    BY <1>3, <2>1, <2>2 DEF Read, Channel!Receive
  <2>. QED  BY <2>3 DEF Channel!Next, Channel!Serve
<1>4. CASE UnknownCommand \/ CheckStatus \/ StartRefused \/ StopRefused
  <2>1. Waiting' = Waiting /\ Phase = "received" /\ Phase' = "executed"
    BY <1>2, <1>4 DEF UnknownCommand, CheckStatus, StartRefused, StopRefused, Ignore,
                      Processing, Phase, client
  <2>2. Channel!Refuse
    BY <1>4, <2>1 DEF UnknownCommand, CheckStatus, StartRefused, StopRefused, Ignore,
                      Processing, Channel!Refuse
  <2>. QED  BY <2>2 DEF Channel!Next, Channel!Serve
<1>5. CASE Start \/ Stop
  <2>1. Waiting' = Waiting /\ Phase = "received" /\ Phase' = "executing"
    BY <1>2, <1>5 DEF Start, Stop, Processing, Phase, client
  <2>2. Channel!Switch
    BY <1>5, <2>1 DEF Start, Stop, Processing, Channel!Switch
  <2>. QED  BY <2>2 DEF Channel!Next, Channel!Serve
<1>6. CASE CreateTunnel
  BY <1>2, <1>6 DEF CreateTunnel, Phase, client, Channel!vars
<1>7. CASE CreateChecker \/ CreateFails
  <2>1. Waiting' = Waiting /\ Phase = "executing" /\ Phase' = "executed"
    BY <1>2, <1>7 DEF CreateChecker, CreateFails, Phase, client
  <2>2. Channel!Started
    BY <1>7, <2>1 DEF CreateChecker, CreateFails, Channel!Started
  <2>. QED  BY <2>2 DEF Channel!Next, Channel!Serve
<1>8. CASE StopSignal \/ Restart
  <2>1. Waiting' = Waiting /\ Phase' = "executed"
    BY <1>2, <1>8 DEF StopSignal, Restart, Phase, client
  <2>2. \/ recv_buf = "VPN_STOP" /\ Phase = "executing"
        \/ recv_buf = "VPN_RESTART" /\ Phase = "received"
    BY <1>8 DEF StopSignal, Restart, Processing, Phase
  <2>3. (sig = "SIGHUP")' \in {sig = "SIGHUP", TRUE}
    BY <1>8 DEF StopSignal, Restart, RaiseHangup
  <2>4. Channel!Signal
    BY <1>8, <2>1, <2>2, <2>3 DEF StopSignal, Restart, Channel!Signal
  <2>. QED  BY <2>4 DEF Channel!Next, Channel!Serve
<1>9. CASE Close
  <2>1. Waiting' = Tail(Waiting)
    BY <1>9, WaitingServed DEF Close, Waiting, client
  <2>2. Phase = "executed" /\ Phase' = "idle"
    BY <1>9 DEF Close, Phase
  <2>3. Channel!Finish
    BY <1>9, <2>1, <2>2 DEF Close, Channel!Finish
  <2>. QED  BY <2>3 DEF Channel!Next, Channel!Serve
<1>10. CASE AcceptFails \/ CheckStatusSigPipe \/ CannotOpenHome
  <2>1. Waiting' = Waiting /\ Phase' = "gone"
    BY <1>2, <1>10 DEF AcceptFails, CheckStatusSigPipe, CannotOpenHome, Phase, client
  <2>2. Channel!Die
    BY <1>10, <2>1 DEF AcceptFails, CheckStatusSigPipe, CannotOpenHome, Channel!Die
  <2>. QED  BY <2>2 DEF Channel!Next
<1>. QED  BY <1>1, <1>3, <1>4, <1>5, <1>6, <1>7, <1>8, <1>9, <1>10
          DEF Daemon, Failure, ExitInRestart, ExitInChecker

(***************************************************************************)
(* The steps of the other threads show in the flag and the signal only.    *)
(***************************************************************************)
LEMMA ThreadMaps ==
    ASSUME UNCHANGED <<pc, recv_buf, com, backlog>>,
           \/ UNCHANGED benable /\ sig' = "none"
           \/ UNCHANGED <<benable, sig>>
           \/ UNCHANGED sig /\ benable' = FALSE
           \/ UNCHANGED benable /\ RaiseHangup
    PROVE  [Channel!Next]_(Channel!vars)
<1>1. Waiting' = Waiting /\ Phase' = Phase
  BY DEF Waiting, Phase
<1>2. CASE UNCHANGED benable /\ sig' = "none"
  <2>1. Channel!HangupSeen
    BY <1>1, <1>2 DEF Channel!HangupSeen
  <2>. QED  BY <2>1 DEF Channel!Next
<1>3. CASE UNCHANGED <<benable, sig>>
  BY <1>1, <1>3 DEF Channel!vars
<1>4. CASE UNCHANGED sig /\ benable' = FALSE
  <2>1. Channel!TunnelEnds
    BY <1>1, <1>4 DEF Channel!TunnelEnds
  <2>. QED  BY <2>1 DEF Channel!Next
<1>5. CASE UNCHANGED benable /\ RaiseHangup
  <2>1. CASE sig = "NULL"
    BY <1>3, <1>5, <2>1 DEF RaiseHangup
  <2>2. CASE sig # "NULL"
    <3>1. Channel!Watchdog
      BY <1>1, <1>5, <2>2 DEF RaiseHangup, Channel!Watchdog
    <3>. QED  BY <3>1 DEF Channel!Next
  <2>. QED  BY <2>1, <2>2
<1>. QED  BY <1>2, <1>3, <1>4, <1>5

LEMMA NextMaps ==
    ASSUME TypeOK, Placed, [Next]_vars
    PROVE  [Channel!Next]_(Channel!vars)
<1>1. CASE Daemon \/ Failure
  BY <1>1, DaemonMaps
<1>2. CASE StartBySerial \/ LinkChanges \/ UNCHANGED vars
  BY <1>2, ThreadMaps DEF StartBySerial, LinkChanges, vars, client
<1>3. CASE \E t \in DOMAIN tunnels : TunnelStep(t) \/ GiveUp(t)
  BY <1>3, ThreadMaps DEF TunnelStep, GiveUp, Enter, Hangup, Finish, Tunnel, client
<1>4. CASE \E c \in DOMAIN checkers : CheckerStep(c)
  BY <1>4, ThreadMaps DEF CheckerStep, CheckFlag, CannotPing, PingAnswered, PingLost,
                          RestartTunnel, Wake, Checker, client
<1>5. CASE Connect
  BY <1>5, ConnectMaps DEF Channel!Next
<1>6. CASE ClientStep
  <2>1. PICK conn \in Commands \cup {"eof"} : Deliver(conn)
    BY <1>6 DEF ClientStep, Vanish, Write
  <2>. QED  BY <2>1, DeliverMaps DEF Channel!Next, Channel!Commands, Commands
<1>. QED  BY <1>1, <1>2, <1>3, <1>4, <1>5, <1>6 DEF Next

LEMMA InitMaps == Init => Channel!Init
BY DEF Init, Channel!Init, Waiting, Phase

\* The daemon implements the channel for any number of commands, threads and
\* waiting connections: to a client, the locks that are not there, the threads
\* that cannot be created and the signals of the watchdog show only in the flag
\* and the signal, as CmdChannel says.
THEOREM DaemonImplementsChannel == Spec => ImplementsChannel
<1>1. Init => Placed
  BY PlacedInit
<1>2. TypeOK /\ Placed /\ [Next]_vars => Placed'
  BY PlacedNext
<1>3. TypeOK /\ Placed /\ [Next]_vars => [Channel!Next]_(Channel!vars)
  BY NextMaps
<1>. QED  BY <1>1, <1>2, <1>3, InitMaps, TypeCorrect, PTL
          DEF Spec, ImplementsChannel, Channel!Spec
=============================================================================
