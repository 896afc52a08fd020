-------------------------------- MODULE Daemon --------------------------------
(***************************************************************************)
(* The command line tool and the background daemon that keeps an emulator  *)
(* between its calls (src/rp2-emu-cli).  Every command and every daemon is *)
(* a process of its own; they share two files, the socket that a daemon    *)
(* listens on and the state file with its process number, and any of them  *)
(* may be killed between two of its steps.                                 *)
(*                                                                         *)
(* In the mode "sequential" a command is given when the one before has     *)
(* ended and no daemon is starting, and a wait ends only with what is      *)
(* awaited or when that has become impossible; in "overlapping" commands   *)
(* run side by side and any wait may time out.  Process numbers are not    *)
(* used again.                                                             *)
(***************************************************************************)
EXTENDS Integers

CONSTANTS Pid, Command,     \* initial segments of the naturals from 1
          Kinds,            \* what a command may be
          MaxOverlap,       \* commands given while others run
          MaxCrashes        \* bound on the crashes

None == 0

VARIABLE cli
\* mode; sock, state: the process the socket and the state file belong to; proc:
\* where each daemon is; inbox: the requests it has received; cmd: for each command
\* what it is, where it is, the process it deals with, whether a crash met it and
\* how often its request was executed.
Start == {"spawned", "stale", "fresh", "booting", "ready", "listening", "stated"}

Init == \E m \in {"sequential", "overlapping"} :
  cli = [mode |-> m, sock |-> None, state |-> None, crashes |-> 0,
         proc |-> [p \in Pid |-> "unborn"], good |-> [p \in Pid |-> TRUE],
         inbox |-> [p \in Pid |-> {}],
         cmd |-> [c \in Command |-> [kind |-> "none", at |-> "unborn", pid |-> None,
                                     met |-> FALSE, ran |-> 0]]]

Overlap == cli.mode = "overlapping"

pidAlive(s, p) == p # None /\ s.proc[p] \notin {"unborn", "gone"}

\* The kernel accepts connections from listen to close.
Accepting(s, p) == s.proc[p] \in {"listening", "stated", "up", "signalled"}

probeSocket(s) == s.sock # None /\ Accepting(s, s.sock)

\* A process ends; its files stay, and what it was asked is lost.
Exit(s, p) == [s EXCEPT !.proc[p] = "gone", !.inbox[p] = {}]

At(s, c, at) == [s EXCEPT !.cmd[c].at = at]

-----------------------------------------------------------------------------
(* The daemon: start --foreground *)

\* Mutant: a state file is believed although its process is gone.
ReadStateFile(s) == IF s.state # None THEN "running" ELSE "fresh"

\* What the state file says to a process that would start a daemon.
readState(s) == IF pidAlive(s, s.state) THEN "running" ELSE IF s.state # None THEN "stale" ELSE "fresh"

cmdStart(p) ==
  /\ cli.proc[p] = "spawned"
  /\ cli' = IF readState(cli) = "running" THEN Exit(cli, p)
            ELSE [cli EXCEPT !.proc[p] = readState(cli)]

RemoveState(p) == /\ cli.proc[p] = "stale"
                  /\ cli' = [cli EXCEPT !.state = None, !.proc[p] = "fresh"]

\* startDaemon: the socket is unlinked, whoever listens on it ...
UnlinkSocket(s, p) == [s EXCEPT !.sock = None, !.proc[p] = "booting"]
RemoveSocket(p) == cli.proc[p] = "fresh" /\ cli' = UnlinkSocket(cli, p)

\* ... the firmware is loaded, which may fail ...
Boot(p) == /\ cli.proc[p] = "booting"
           /\ cli' = IF cli.good[p] THEN [cli EXCEPT !.proc[p] = "ready"] ELSE Exit(cli, p)

\* ... a file in the place of the socket is an error ...
Listen(p) == /\ cli.proc[p] = "ready"
             /\ cli' = IF cli.sock # None THEN Exit(cli, p)
                       ELSE [cli EXCEPT !.sock = p, !.proc[p] = "listening"]

\* ... and the signals are handled only after the state file is written.
WriteState(p) == /\ cli.proc[p] = "listening"
                 /\ cli' = [cli EXCEPT !.state = p, !.proc[p] = "stated"]
InstallHandlers(p) == cli.proc[p] = "stated" /\ cli' = [cli EXCEPT !.proc[p] = "up"]

\* SIGTERM: the default action, the handler, or the handler again while the server
\* closes, which does not wait for it.
Signal(s, p) == CASE s.proc[p] \in Start -> Exit(s, p)
                  [] s.proc[p] = "up" -> [s EXCEPT !.proc[p] = "signalled"]
                  [] s.proc[p] = "closing" -> [s EXCEPT !.proc[p] = "closed", !.inbox[p] = {}]
                  [] OTHER -> s

\* handleConnection: one request, one answer, if the command still waits for it.
Executed(o) == [o EXCEPT !.ran = @ + 1, !.at = IF @ = "sent" THEN "ok" ELSE @]
Answer(s, p, c) == [s EXCEPT !.inbox[p] = @ \ {c}, !.cmd[c] = Executed(@)]
handleConnection(p, c) ==
  /\ cli.proc[p] \in {"up", "signalled", "closing"} /\ c \in cli.inbox[p]
  /\ cli' = Answer(cli, p, c)

UnlinkFirst(s) == [s EXCEPT !.sock = None]
UnlinkSecond(s) == [s EXCEPT !.state = None]

\* cleanup: the server is closed, for which the runtime unlinks the socket and waits
\* for the open connections; then the socket and the state file are unlinked.  None
\* of the three looks whose file it is.
Close(p) == cli.proc[p] = "signalled" /\ cli' = [UnlinkFirst(cli) EXCEPT !.proc[p] = "closing"]
Closed(p) == cli.proc[p] = "closing" /\ cli.inbox[p] = {} /\ cli' = [cli EXCEPT !.proc[p] = "closed"]

CleanSocket(p) == cli.proc[p] = "closed" /\ cli' = [UnlinkFirst(cli) EXCEPT !.proc[p] = "cleaned"]
CleanState(p) == cli.proc[p] = "cleaned" /\ cli' = Exit(UnlinkSecond(cli), p)

\* A crash meets every command that is under way.
Met(o) == [o EXCEPT !.met = @ \/ o.at \notin {"unborn", "ok", "failed"}]

\* The process is killed, or the machine's temporary files outlive it.
Crash(p) ==
  /\ pidAlive(cli, p) /\ cli.crashes < MaxCrashes
  /\ cli' = [Exit(cli, p) EXCEPT !.crashes = @ + 1, !.cmd = [c \in Command |-> Met(@[c])]]

-----------------------------------------------------------------------------
(* Commands: a tool, with and without auto-start, status, start, stop and restart *)

Ended(c) == cli.cmd[c].at \in {"ok", "failed"}
Settled == \A p \in Pid : cli.proc[p] \notin Start

Give(c, kind) ==
  /\ cli.cmd[c].at = "unborn" /\ IF Overlap THEN c <= MaxOverlap ELSE Settled
  /\ \A d \in Command : d < c => IF Overlap THEN cli.cmd[d].at # "unborn" ELSE Ended(d)
  /\ cli' = [cli EXCEPT !.cmd[c].kind = kind, !.cmd[c].at = "begin"]

\* A detached child; there is a process number for it.
Unborn(s) == {p \in Pid : s.proc[p] = "unborn"}
spawn(s, c) ==
  LET p == CHOOSE q \in Unborn(s) : \A r \in Unborn(s) : q <= r
  IN  [s EXCEPT !.proc[p] = "spawned", !.good[p] = s.cmd[c].kind # "start bad",
                !.cmd[c].pid = p, !.cmd[c].at = "awaiting"]

\* ensureDaemon
ensureDaemon(c) ==
  /\ cli.cmd[c].at = "begin" /\ cli.cmd[c].kind \in {"tool", "tool only"}
  /\ IF probeSocket(cli) THEN cli' = At(cli, c, "connect")
     ELSE IF cli.cmd[c].kind = "tool only" THEN cli' = At(cli, c, "failed")
     ELSE Unborn(cli) # {} /\ cli' = spawn(cli, c)

\* cmdStatus asks no socket first.
cmdStatus(c) == /\ cli.cmd[c].at = "begin" /\ cli.cmd[c].kind = "status"
                /\ cli' = At(cli, c, IF readState(cli) = "running" THEN "connect" ELSE "failed")

\* cmdStart of a command that does not stay in the foreground
StartDetached(c) ==
  /\ \/ cli.cmd[c].at = "begin" /\ cli.cmd[c].kind \in {"start", "start bad"}
     \/ cli.cmd[c].at = "again"
  /\ CASE readState(cli) = "running" -> cli' = At(cli, c, "ok")
       [] readState(cli) = "stale" -> cli' = At(cli, c, "stale")
       [] OTHER -> Unborn(cli) # {} /\ cli' = spawn(cli, c)

\* cmdStop; a restart goes on with a start, however the stop ended.
Stopped(s, c, at) == At(s, c, IF s.cmd[c].kind = "restart" THEN "again" ELSE at)
cmdStop(c) ==
  /\ cli.cmd[c].at = "begin" /\ cli.cmd[c].kind \in {"stop", "restart"}
  /\ cli' = CASE readState(cli) = "running" ->
                   [Signal(cli, cli.state) EXCEPT !.cmd[c].at = "stopping", !.cmd[c].pid = cli.state]
              [] readState(cli) = "stale" -> At(cli, c, "nothing to stop")
              [] OTHER -> Stopped(cli, c, "failed")

\* A start and a stop remove a stale state file.
DropStale(c) ==
  LET s == [cli EXCEPT !.state = None]
  IN  \/ cli.cmd[c].at = "stale" /\ Unborn(cli) # {} /\ cli' = spawn(s, c)
      \/ cli.cmd[c].at = "nothing to stop" /\ cli' = Stopped(s, c, "failed")

\* What a command waits for cannot come any more.
Hopeless(c) == ~pidAlive(cli, cli.cmd[c].pid)

waitForSocket(c) ==
  /\ cli.cmd[c].at = "awaiting"
  /\ \/ probeSocket(cli) /\ cli' = At(cli, c, IF cli.cmd[c].kind = "tool" THEN "connect" ELSE "ok")
     \/ ~probeSocket(cli) /\ (Overlap \/ Hopeless(c)) /\ cli' = At(cli, c, "failed")

\* sendRequest: one request, and no second try.
Connect(c) ==
  /\ cli.cmd[c].at = "connect"
  /\ cli' = IF probeSocket(cli)
            THEN [cli EXCEPT !.inbox[cli.sock] = @ \union {c}, !.cmd[c].at = "sent", !.cmd[c].pid = cli.sock]
            ELSE At(cli, c, "failed")
AfterTimeout(s, c) == At(s, c, "failed")
NoAnswer(c) == cli.cmd[c].at = "sent" /\ (Overlap \/ Hopeless(c)) /\ cli' = AfterTimeout(cli, c)

waitForStop(c) ==
  /\ cli.cmd[c].at = "stopping"
  /\ \/ cli.state = None /\ cli' = Stopped(cli, c, "ok")
     \/ cli.state # None /\ (Overlap \/ Hopeless(c)) /\ cli' = Stopped(cli, c, "failed")

DaemonStep(p) ==
  \/ cmdStart(p) \/ RemoveState(p) \/ RemoveSocket(p) \/ Boot(p) \/ Listen(p) \/ WriteState(p)
  \/ InstallHandlers(p) \/ Close(p) \/ Closed(p) \/ CleanSocket(p) \/ CleanState(p)
  \/ \E c \in Command : handleConnection(p, c)

CommandStep(c) == ensureDaemon(c) \/ cmdStatus(c) \/ StartDetached(c) \/ cmdStop(c) \/ DropStale(c)
                  \/ waitForSocket(c) \/ Connect(c) \/ NoAnswer(c) \/ waitForStop(c)

Next == \/ \E p \in Pid : DaemonStep(p) \/ Crash(p)
        \/ \E c \in Command : CommandStep(c) \/ \E kind \in Kinds : Give(c, kind)

Spec == Init /\ [][Next]_cli

-----------------------------------------------------------------------------
(* Correctness *)

\* However commands, crashes, time-outs and stops interleave, no request is executed
\* twice, one that is reported as answered was executed, and one that was never
\* sent was not (sendRequest, handleConnection).
RequestsOnce ==
  \A c \in Command :
    /\ cli.cmd[c].ran <= 1
    /\ cli.cmd[c].kind \in {"tool", "tool only", "status"} /\ cli.cmd[c].at = "ok" => cli.cmd[c].ran = 1
    /\ cli.cmd[c].at \in {"begin", "awaiting", "connect"} => cli.cmd[c].ran = 0

\* Commands given one after the other find one daemon: nobody else listens, and the
\* socket and the state file are its own from the time they are written until it is
\* told to stop, whatever crashed daemons have left and stopped ones remove.
OneDaemon ==
  ~Overlap => /\ \A p, q \in Pid : Accepting(cli, p) /\ Accepting(cli, q) => p = q
              /\ \A p \in Pid : cli.proc[p] \in {"stated", "up", "signalled"} => cli.sock = p /\ cli.state = p

\* What a crash leaves, at any step of a start, a stop or a request, never keeps a
\* later command from being served: a tool or a start fails only if a daemon
\* crashed while it ran (cmdStart, startDaemon, ensureDaemon), and a stop that
\* reports success leaves no daemon.
CommandsServed ==
  ~Overlap => \A c \in Command :
    /\ cli.cmd[c].kind \in {"tool", "start", "restart"} /\ cli.cmd[c].at = "failed" => cli.cmd[c].met
    /\ cli.cmd[c].kind = "stop" /\ cli.cmd[c].at = "ok" => ~pidAlive(cli, cli.cmd[c].pid)
=============================================================================
