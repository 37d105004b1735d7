---------------------------- MODULE ConsoleTunnel ----------------------------
(***************************************************************************)
(* How console sessions reach display servers (Ws::index and               *)
(* Ws::createSshTunnel).  A display server that listens on all addresses   *)
(* is connected to directly.  One that listens on the loopback address of  *)
(* a host reached over ssh is reached through an ssh process of the        *)
(* session that forwards the same port number of the web server's own      *)
(* loopback address; if the host is reached otherwise, that address is     *)
(* dialled although nobody forwards it.  Sessions of all workers share     *)
(* those port numbers, and hosts number their displays alike.              *)
(*                                                                         *)
(* createSshTunnel blocks the worker's thread until ssh says that it       *)
(* forwards, stays silent too long or exits.  ssh says so before it binds  *)
(* the port, so the code goes on whether or not the tunnel works.          *)
(*                                                                         *)
(* A definition named X_Something next to X is X with a fault: it is not   *)
(* part of the specification, it serves to see that the properties notice. *)
(***************************************************************************)
CONSTANTS
    Sessions,    \* the console sessions, one context each
    Workers,     \* the worker threads
    Hosts,       \* the hosts domains run on
    Here,        \* the host the web server runs on
    Ports,       \* port numbers of display servers
    Consoles,    \* the displays that exist: <<host, port>>
    NoOne        \* no host, no session, no worker

ASSUME TunnelAssumption ==
    /\ Here \in Hosts
    /\ Consoles \subseteq Hosts \X Ports
    /\ NoOne \notin Hosts \cup Sessions \cup Workers \cup Ports

VARIABLES
    phase,    \* how far each session is
    worker,   \* the worker that serves it
    host,     \* the host of its domain
    port,     \* its domain's consolePort()
    route,    \* how its display server is dialled
    ssh,      \* its ssh process
    via,      \* the session whose ssh process carries its TCP connection
    peer      \* the host its TCP connection reached

tunnelVars == <<phase, worker, host, port, route, ssh, via, peer>>
domain == <<worker, host, port, route>>

Phases == {"idle",       \* no such session yet
           "starting",   \* in QProcess::waitForStarted
           "reading",    \* in QProcess::waitForReadyRead
           "dialing",    \* connectToHost was called, the handler is over
           "connected",
           "ended",      \* the TCP connection failed or is over
           "gone"}       \* the context is destroyed
Blocking == {"starting", "reading"}

Routes == {"direct",     \* at the address of its host
           "tunnel",     \* at the web server's loopback address, with an ssh process
           "loopback"}   \* at the web server's loopback address, without one

SshStates == {"none", "silent",
              "announced",   \* printed that it forwards, about to bind the port
              "listening",
              "deaf",        \* runs, but could not bind the port
              "exited"}
RunsSsh(s) == ssh[s] \in {"silent", "announced", "listening", "deaf"}

(* Who accepts connections to a port of the web server's loopback address.  *)
LocalPort_Fixed(s) == CHOOSE p \in Ports : TRUE
LocalPort(s) == port[s]
Forwarders(p) == {s \in Sessions : ssh[s] = "listening" /\ LocalPort(s) = p}
TakenLocally(p) == <<Here, p>> \in Consoles

(* A worker that waits for ssh takes up no event: no request and no signal. *)
Dispatching(w) == \A t \in Sessions : worker[t] = w => phase[t] \notin Blocking

Goto(s, p) == phase' = [phase EXCEPT ![s] = p]
SetSsh(s, state) == ssh' = [ssh EXCEPT ![s] = state]
(* QProcess::terminate, or the destructor, of a process that may be running *)
EndSsh(s) == SetSsh(s, IF RunsSsh(s) THEN "exited" ELSE ssh[s])
-----------------------------------------------------------------------------
TunnelInit ==
    /\ phase = [s \in Sessions |-> "idle"]
    /\ worker = [s \in Sessions |-> NoOne]
    /\ host = [s \in Sessions |-> NoOne]
    /\ port = [s \in Sessions |-> NoOne]
    /\ route = [s \in Sessions |-> "direct"]
    /\ ssh = [s \in Sessions |-> "none"]
    /\ via = [s \in Sessions |-> NoOne]
    /\ peer = [s \in Sessions |-> NoOne]

(* Ws::index of a domain's console. Any display can be dialled in any way:  *)
(* that depends on how it listens and how its host is reached, even for the *)
(* displays of the web server's own host.                                   *)
Open(s, w, c) ==
    /\ phase[s] = "idle"
    /\ Dispatching(w)
    /\ \E r \in Routes :
        /\ route' = [route EXCEPT ![s] = r]
        /\ Goto(s, IF r = "tunnel" THEN "starting" ELSE "dialing")
    /\ worker' = [worker EXCEPT ![s] = w]
    /\ host' = [host EXCEPT ![s] = c[1]]
    /\ port' = [port EXCEPT ![s] = c[2]]
    /\ UNCHANGED <<ssh, via, peer>>

(* createSshTunnel: process->start(), waitForStarted()                      *)
SshStarts(s) ==
    /\ phase[s] = "starting"
    /\ Goto(s, "reading") /\ SetSsh(s, "silent")
    /\ UNCHANGED <<domain, via, peer>>

SshCannotStart(s) ==
    /\ phase[s] = "starting"
    /\ Goto(s, "dialing")
    /\ UNCHANGED <<domain, ssh, via, peer>>

(* createSshTunnel returns when it reads "Local forwarding listening on".   *)
ReadAnnouncement(s) ==
    /\ phase[s] = "reading"
    /\ ssh[s] \in {"announced", "listening", "deaf"}
    /\ Goto(s, "dialing")
    /\ UNCHANGED <<domain, ssh, via, peer>>

GiveUp_WhenExited(s) ==
    /\ phase[s] = "reading"
    /\ ssh[s] = "exited"
    /\ Goto(s, "dialing") /\ EndSsh(s)
    /\ UNCHANGED <<domain, via, peer>>

(* waitForReadyRead times out or ssh has exited: the process is terminated  *)
(* and the session goes on without it.                                      *)
GiveUp(s) ==
    /\ phase[s] = "reading"
    /\ ssh[s] \in {"silent", "exited"}
    /\ Goto(s, "dialing") /\ EndSsh(s)
    /\ UNCHANGED <<domain, via, peer>>

(* The ssh process.                                                         *)
SshAnnounces(s) ==
    /\ ssh[s] = "silent"
    /\ SetSsh(s, "announced")
    /\ UNCHANGED <<phase, domain, via, peer>>

SshBinds(s) ==
    /\ ssh[s] = "announced"
    /\ SetSsh(s, IF Forwarders(LocalPort(s)) = {} /\ ~TakenLocally(LocalPort(s))
                 THEN "listening" ELSE "deaf")
    /\ UNCHANGED <<phase, domain, via, peer>>

SshExits(s) ==
    /\ RunsSsh(s)
    /\ SetSsh(s, "exited")
    /\ UNCHANGED <<phase, domain, via, peer>>

(* The outcome of connectToHost.                                            *)
ConnectDirectly(s) ==
    /\ phase[s] = "dialing" /\ route[s] = "direct" /\ Dispatching(worker[s])
    /\ Goto(s, "connected")
    /\ peer' = [peer EXCEPT ![s] = host[s]]
    /\ UNCHANGED <<domain, ssh, via>>

ConnectLocally(s) ==
    /\ phase[s] = "dialing" /\ route[s] # "direct" /\ Dispatching(worker[s])
    /\ Goto(s, "connected")
    /\ \/ /\ TakenLocally(port[s])
          /\ peer' = [peer EXCEPT ![s] = Here]
          /\ UNCHANGED via
       \/ \E t \in Forwarders(port[s]) :
            /\ peer' = [peer EXCEPT ![s] = host[t]]
            /\ via' = [via EXCEPT ![s] = t]
    /\ UNCHANGED <<domain, ssh>>

ConnectFails(s) ==
    /\ phase[s] = "dialing" /\ Dispatching(worker[s])
    /\ route[s] # "direct" => Forwarders(port[s]) = {} /\ ~TakenLocally(port[s])
    /\ Goto(s, "ended")
    /\ UNCHANGED <<domain, ssh, via, peer>>

(* QAbstractSocket::disconnected: the session's own ssh is terminated, and  *)
(* waited for, whoever's ssh the connection went through.                   *)
Disconnected(s) ==
    /\ Goto(s, "ended")
    /\ EndSsh(s)

(* The display server or the network ends the connection, or the ssh that   *)
(* carries it is gone.                                                      *)
Cut(s) == via[s] # NoOne /\ ssh[via[s]] # "listening"

ConnectionEnds_OwnTunnelOnly(s) ==
    /\ phase[s] = "connected" /\ Dispatching(worker[s]) /\ via[s] \in {s, NoOne}
    /\ Disconnected(s)
    /\ UNCHANGED <<domain, via, peer>>

ConnectionEnds(s) ==
    /\ phase[s] = "connected" /\ Dispatching(worker[s])
    /\ Disconnected(s)
    /\ UNCHANGED <<domain, via, peer>>

(* The context is destroyed with the socket, and the process, a child of    *)
(* the socket, with it.                                                     *)
BrowserLeaves(s) ==
    /\ phase[s] \in {"dialing", "connected", "ended"} /\ Dispatching(worker[s])
    /\ Goto(s, "gone")
    /\ EndSsh(s)
    /\ UNCHANGED <<domain, via, peer>>

SessionStep(s) ==
    \/ \E w \in Workers, c \in Consoles : Open(s, w, c)
    \/ SshStarts(s) \/ SshCannotStart(s)
    \/ ReadAnnouncement(s) \/ GiveUp(s)
    \/ ConnectDirectly(s) \/ ConnectLocally(s) \/ ConnectFails(s)
    \/ ConnectionEnds(s) \/ BrowserLeaves(s)

SshStep(s) == SshAnnounces(s) \/ SshBinds(s) \/ SshExits(s)

TunnelNext == \E s \in Sessions : SessionStep(s) \/ SshStep(s)

TunnelSpec == TunnelInit /\ [][TunnelNext]_tunnelVars

(* waitForStarted and waitForReadyRead return, a timeout at the latest, and *)
(* the event loop delivers the end of a connection that is cut.             *)
TunnelFairness ==
    \A s \in Sessions :
        /\ WF_tunnelVars(SshStarts(s) \/ SshCannotStart(s))
        /\ WF_tunnelVars(ReadAnnouncement(s) \/ GiveUp(s))
        /\ WF_tunnelVars(Cut(s) /\ ConnectionEnds(s))

FairTunnelSpec == TunnelSpec /\ TunnelFairness
-----------------------------------------------------------------------------
TunnelTypeOK ==
    /\ phase \in [Sessions -> Phases]
    /\ worker \in [Sessions -> Workers \cup {NoOne}]
    /\ host \in [Sessions -> Hosts \cup {NoOne}]
    /\ port \in [Sessions -> Ports \cup {NoOne}]
    /\ route \in [Sessions -> Routes]
    /\ ssh \in [Sessions -> SshStates]
    /\ via \in [Sessions -> Sessions \cup {NoOne}]
    /\ peer \in [Sessions -> Hosts \cup {NoOne}]

(* No ssh process outlives the session it was started for, nor the TCP      *)
(* connection of that session once there was one: neither a refused or      *)
(* interrupted connection nor a browser that leaves at any moment leaks it. *)
NoTunnelLeaks ==
    \A s \in Sessions :
        RunsSsh(s) => /\ phase[s] \notin {"idle", "gone"}
                      /\ phase[s] = "ended" => peer[s] = NoOne

(* A session shows another host than its domain's only if it dialled the    *)
(* web server's loopback address and the port number clashes: with a        *)
(* session that tunnels to a display of the same number on another host, or *)
(* with a display of the web server's own host.                             *)
ReachesOwnHost ==
    \A s \in Sessions :
        phase[s] = "connected" /\ peer[s] # host[s] =>
            /\ route[s] # "direct"
            /\ \/ TakenLocally(port[s])
               \/ \E t \in Sessions : /\ route[t] = "tunnel"
                                      /\ port[t] = port[s]
                                      /\ host[t] # host[s]

(* Two viewers of displays with the same port number share one tunnel, and  *)
(* the session that owns it takes the other down when it ends: a connection *)
(* that is cut is noticed and its session ends too.                         *)
CutConnectionsEnd ==
    \A s \in Sessions : phase[s] = "connected" /\ Cut(s) ~> phase[s] # "connected"

(* A worker that waits for ssh takes requests again.                        *)
WorkersComeBack ==
    \A s \in Sessions : phase[s] \in Blocking ~> phase[s] \notin Blocking
=============================================================================
