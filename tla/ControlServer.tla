----------------------------- MODULE ControlServer -----------------------------
(***************************************************************************)
(* The control server of a logger (Control.cpp, ControlDiscovery.cpp): a     *)
(* listener thread accepts connections and starts a handler thread for each, *)
(* the discovery thread answers local clients, and the application starts    *)
(* and stops all of them while clients come, send and go.                    *)
(*                                                                         *)
(* What is open is kept as the process has it: a table of descriptors, the    *)
(* lowest free one being the next, which the rest of the process uses too.   *)
(* A connection is a number; its handler thread has the same.  What a command *)
(* says and does is left out: each is received, executed and replied to.      *)
(* Sockets that wake a thread, and those of the discovery endpoint, need a    *)
(* free descriptor and are not in the table.  Sections under DataLock are one *)
(* step.  The application calls from one thread.                              *)
(***************************************************************************)
EXTENDS Integers, Sequences, FiniteSets, SequencesExt

CONSTANTS
  Descriptors,         \* 1..n: the descriptors there are
  Ports,               \* ports the server is configured with; 0 is any
  MaxConnections,      \* bound on the connections the clients make
  MaxCommands,         \* bound on the commands a client sends
  MaxStarts,           \* bound on the calls of StartControlServer
  MaxFiles             \* bound on the files the rest of the process opens

ASSUME ControlAssumption ==
  /\ IsFiniteSet(Descriptors) /\ Descriptors = 1..Cardinality(Descriptors)
  /\ Ports \subseteq Int
  /\ {MaxConnections, MaxCommands, MaxStarts, MaxFiles} \subseteq Nat

VARIABLES
  file,                \* what a descriptor is of
  backlog,             \* connections that wait to be accepted
  client,              \* of each connection: "none", "open", "gone"
  inbox,               \* commands sent and not received
  shut,                \* connections shut down by the listener
  ControlSocket,       \* the descriptor, Nil for -1
  Port,                \* of ControlCfg
  listener,            \* where the listener thread is
  listenSocket,        \* its argument
  accepted,            \* the descriptor it has accepted
  toJoin,              \* handlers it waits for
  ControlThreads,      \* at each descriptor: the handler's connection, Nil if no entry
  Stopped,             \* of the entry at each descriptor
  handler,             \* where the handler thread of a connection is
  socket,              \* its argument
  app,                 \* where StopControlServer is
  restart,             \* it has been called by StartControlServer
  toClose,             \* the descriptor it closes in the end
  discovery,           \* where the discovery thread is
  discoveryStopped,
  discoveryWaits,      \* clients in its backlog
  starts, connections, files \* history: how many there have been

descriptors == <<file, files>>
network     == <<backlog, client, inbox, shut, connections>>
server      == <<ControlSocket, Port, starts>>
listening   == <<listener, listenSocket, accepted, toJoin>>
entries     == <<ControlThreads, Stopped>>
handling    == <<handler, socket>>
application == <<app, restart, toClose>>
discovering == <<discovery, discoveryStopped, discoveryWaits>>
controlVars == <<descriptors, network, server, listening, entries, handling, application,
                 discovering>>

Nil == 0
Listening == -1
Foreign == -2
Unbound == -3                               \* a control socket that does not listen
Waking == MaxConnections + 1                \* the one that wakes the listener
Connections == 1..Waking

Free == {d \in Descriptors : file[d] = Nil}
Lowest(S) == CHOOSE d \in S : \A e \in S : d <= e

HandlerAt(c, label) == handler' = [handler EXCEPT ![c] = label]

----------------------------------------------------------------------------
(* The clients and the rest of the process                                   *)

Accepting == \E d \in Descriptors : file[d] = Listening

Connect ==
  /\ Accepting
  /\ connections < MaxConnections
  /\ connections' = connections + 1
  /\ backlog' = Append(backlog, connections')
  /\ client' = [client EXCEPT ![connections'] = "open"]
  /\ UNCHANGED <<descriptors, inbox, shut, server, listening, entries, handling, application,
                 discovering>>

Send(c) ==
  /\ client[c] = "open"
  /\ inbox[c] < MaxCommands
  /\ inbox' = [inbox EXCEPT ![c] = @ + 1]
  /\ UNCHANGED <<descriptors, backlog, client, shut, connections, server, listening, entries,
                 handling, application, discovering>>

Disconnect(c) ==
  /\ client[c] = "open"
  /\ client' = [client EXCEPT ![c] = "gone"]
  /\ UNCHANGED <<descriptors, backlog, inbox, shut, connections, server, listening, entries,
                 handling, application, discovering>>

OpenFile ==
  /\ files < MaxFiles /\ Free # {}
  /\ file' = [file EXCEPT ![Lowest(Free)] = Foreign]
  /\ files' = files + 1
  /\ UNCHANGED <<network, server, listening, entries, handling, application, discovering>>

----------------------------------------------------------------------------
(* ControlListener                                                           *)

(* accept fails when there is no descriptor, and the listener ends.          *)
Accept ==
  /\ listener = "accept"
  /\ backlog # <<>>
  /\ IF Free = {}
     THEN listener' = "shut" /\ UNCHANGED <<accepted, file, backlog>>
     ELSE /\ accepted' = Lowest(Free)
          /\ file' = [file EXCEPT ![accepted'] = Head(backlog)]
          /\ backlog' = Tail(backlog)
          /\ listener' = "test"
  /\ UNCHANGED <<files, client, inbox, shut, connections, server, listenSocket, toJoin, entries,
                 handling, application, discovering>>

TestSocket ==
  /\ listener = "test"
  /\ IF ControlSocket = listenSocket
     THEN listener' = "start" /\ UNCHANGED <<accepted, file>>
     ELSE /\ file' = [file EXCEPT ![accepted] = Nil]
          /\ accepted' = Nil
          /\ listener' = "shut"
  /\ UNCHANGED <<files, network, server, listenSocket, toJoin, entries, handling, application,
                 discovering>>

(* The handler that cannot make an SSL session ends at once.                 *)
StartHandler ==
  LET c == file[accepted] IN
    /\ listener = "start"
    /\ ControlThreads' = [ControlThreads EXCEPT ![accepted] = c]
    /\ Stopped' = [Stopped EXCEPT ![accepted] = FALSE]
    /\ \E session \in BOOLEAN : HandlerAt(c, IF session THEN "recv" ELSE "end")
    /\ socket' = [socket EXCEPT ![c] = accepted]
    /\ accepted' = Nil
    /\ listener' = "sweep"
    /\ UNCHANGED <<descriptors, network, server, listenSocket, toJoin, application,
                   discovering>>

(* Deviant: the entry goes and its socket stays open.                       *)
RemoveEntriesOpen(S, label) ==
  /\ file' = file
  /\ toJoin' = {ControlThreads[d] : d \in S}
  /\ ControlThreads' = [d \in Descriptors |-> IF d \in S THEN Nil ELSE ControlThreads[d]]
  /\ listener' = label
  /\ UNCHANGED <<files, listenSocket, accepted, Stopped, server, handling, application, discovering,
                 backlog, client, inbox, connections>>

(* Entries of closed connections are removed, and their sockets closed.      *)
RemoveEntries(S, label) ==
  /\ file' = [d \in Descriptors |-> IF d \in S THEN Nil ELSE file[d]]
  /\ toJoin' = {ControlThreads[d] : d \in S}
  /\ ControlThreads' = [d \in Descriptors |-> IF d \in S THEN Nil ELSE ControlThreads[d]]
  /\ listener' = label
  /\ UNCHANGED <<files, listenSocket, accepted, Stopped, server, handling, application, discovering,
                 backlog, client, inbox, connections>>

Entries == {d \in Descriptors : ControlThreads[d] # Nil}

(* Deviant: Stopped is not tested.                                         *)
SweepAll ==
  /\ listener = "sweep"
  /\ RemoveEntries(Entries, "join")
  /\ UNCHANGED shut

Sweep ==
  /\ listener = "sweep"
  /\ RemoveEntries({d \in Entries : Stopped[d]}, "join")
  /\ UNCHANGED shut

(* Deviant: the sockets are closed and not shut down.                       *)
ShutDownCloses ==
  /\ listener = "shut"
  /\ RemoveEntries(Entries, "join all")
  /\ shut' = shut

(* At the end all are shut down and closed, whatever their handlers do.      *)
ShutDown ==
  /\ listener = "shut"
  /\ RemoveEntries(Entries, "join all")
  /\ shut' = shut \cup {ControlThreads[d] : d \in Entries}

(* Deviant: the threads are detached.                                       *)
JoinHandlersNot ==
  /\ listener \in {"join", "join all"}
  /\ toJoin' = {}
  /\ listener' = IF listener = "join" THEN "accept" ELSE "ended"
  /\ UNCHANGED <<descriptors, network, server, listenSocket, accepted, entries, handling,
                 application, discovering>>

JoinHandlers ==
  /\ listener \in {"join", "join all"}
  /\ \A c \in toJoin : handler[c] = "ended"
  /\ toJoin' = {}
  /\ listener' = IF listener = "join" THEN "accept" ELSE "ended"
  /\ UNCHANGED <<descriptors, network, server, listenSocket, accepted, entries, handling,
                 application, discovering>>

----------------------------------------------------------------------------
(* ControlHandler                                                            *)

EntryOf(c) == IF ControlThreads[socket[c]] # Nil THEN {socket[c]} ELSE {}

(* The socket stays open until the listener sweeps.                          *)
End(c) ==
  /\ handler[c] = "end"
  /\ Stopped' = [d \in Descriptors |-> d \in EntryOf(c) \/ Stopped[d]]
  /\ HandlerAt(c, "ended")
  /\ UNCHANGED <<descriptors, network, server, listening, ControlThreads, socket, application,
                 discovering>>

(* recv of a descriptor that is closed by now fails; of one that is another's *)
(* by now it fails or reads from there.                                       *)
Recv(c) ==
  /\ handler[c] = "recv"
  /\ \/ file[socket[c]] = c /\ HandlerAt(c, "receiving")
     \/ file[socket[c]] # c /\ HandlerAt(c, "end")
     \/ file[socket[c]] \notin {c, Nil} /\ HandlerAt(c, "receiving astray")
  /\ UNCHANGED <<descriptors, network, server, listening, entries, socket, application,
                 discovering>>

(* A recv that waits is woken by the shutdown.  A read of 0 bytes, of a client *)
(* that has gone or a socket shut down, is taken for a command like any other. *)
Received(c) ==
  /\ handler[c] = "receiving"
  /\ \/ inbox[c] > 0 /\ inbox' = [inbox EXCEPT ![c] = @ - 1]
     \/ inbox[c] = 0 /\ (client[c] = "gone" \/ c \in shut) /\ UNCHANGED inbox
  /\ HandlerAt(c, "send")
  /\ UNCHANGED <<descriptors, backlog, client, shut, connections, server, listening, entries,
                 socket, application, discovering>>

(* An empty reply is not sent.  send returns at once, waits for a client that *)
(* does not read, fails when its client is known to be gone or its descriptor *)
(* is closed, or goes to whomever the descriptor is by now.                   *)
Reply(c) ==
  /\ handler[c] = "send"
  /\ \/ HandlerAt(c, "recv")
     \/ file[socket[c]] = c /\ HandlerAt(c, "sending")
     \/ file[socket[c]] = c /\ client[c] = "gone" /\ HandlerAt(c, "end")
     \/ file[socket[c]] # c /\ HandlerAt(c, "end")
     \/ file[socket[c]] \notin {c, Nil} /\ HandlerAt(c, "sending astray")
  /\ UNCHANGED <<descriptors, network, server, listening, entries, socket, application,
                 discovering>>

(* A send that waits ends when its client goes, not by a shutdown of the side *)
(* that reads nor by a close.                                                 *)
SendFails(c) ==
  /\ handler[c] = "sending"
  /\ client[c] = "gone"
  /\ HandlerAt(c, "end")
  /\ UNCHANGED <<descriptors, network, server, listening, entries, socket, application,
                 discovering>>

(* The client reads its replies.                                             *)
ClientReads(c) ==
  /\ handler[c] = "sending"
  /\ client[c] = "open"
  /\ HandlerAt(c, "recv")
  /\ UNCHANGED <<descriptors, network, server, listening, entries, socket, application,
                 discovering>>

(* The other side of another's descriptor sends, reads or goes.              *)
OtherAnswers(c) ==
  /\ \/ handler[c] = "receiving astray" /\ \E label \in {"send", "end"} : HandlerAt(c, label)
     \/ handler[c] = "sending astray" /\ \E label \in {"recv", "end"} : HandlerAt(c, label)
  /\ UNCHANGED <<descriptors, network, server, listening, entries, socket, application,
                 discovering>>

----------------------------------------------------------------------------
(* ControlDiscovery                                                          *)

DiscoveryListening == {"loop", "accept", "test", "read"}

DiscoveryListens ==
  /\ discovery = "bind"
  /\ discovery' = "loop"
  /\ UNCHANGED <<descriptors, network, server, listening, entries, handling, application,
                 discoveryStopped, discoveryWaits>>

(* The endpoint is taken, and the thread returns.                            *)
DiscoveryFails ==
  /\ discovery = "bind"
  /\ discovery' = "ended"
  /\ UNCHANGED <<descriptors, network, server, listening, entries, handling, application,
                 discoveryStopped, discoveryWaits>>

DiscoveryTests ==
  /\ discovery = "loop"
  /\ discovery' = IF discoveryStopped THEN "ended" ELSE "accept"
  /\ UNCHANGED <<descriptors, network, server, listening, entries, handling, application,
                 discoveryStopped, discoveryWaits>>

(* Without a descriptor accept fails, and is tried again.                    *)
DiscoveryAccepts ==
  /\ discovery = "accept"
  /\ discoveryWaits > 0
  /\ IF Free = {}
     THEN discovery' = "loop" /\ UNCHANGED discoveryWaits
     ELSE discovery' = "test" /\ discoveryWaits' = discoveryWaits - 1
  /\ UNCHANGED <<descriptors, network, server, listening, entries, handling, application,
                 discoveryStopped>>

(* The client is let go, or read from.                                       *)
DiscoveryTestsAgain ==
  /\ discovery = "test"
  /\ discovery' = IF discoveryStopped THEN "loop" ELSE "read"
  /\ UNCHANGED <<descriptors, network, server, listening, entries, handling, application,
                 discoveryStopped, discoveryWaits>>

(* The client asks, or goes; it is answered and the thread goes on.          *)
DiscoveryClientAsks ==
  /\ discovery = "read"
  /\ discovery' = "loop"
  /\ UNCHANGED <<descriptors, network, server, listening, entries, handling, application,
                 discoveryStopped, discoveryWaits>>

DiscoveryConnect ==
  /\ discovery \in DiscoveryListening
  /\ discoveryWaits = 0
  /\ discoveryWaits' = 1
  /\ UNCHANGED <<descriptors, network, server, listening, entries, handling, application,
                 discovery, discoveryStopped>>

----------------------------------------------------------------------------
(* StartControlServer and StopControlServer                                  *)

Call(start) ==
  /\ app = "idle"
  /\ start => starts < MaxStarts
  /\ restart' = start
  /\ app' = "stop discovery"
  /\ UNCHANGED <<descriptors, network, server, listening, entries, handling, toClose, discovering>>

At(step, next) == app = step /\ app' = next /\ UNCHANGED restart

StopDiscovery ==
  /\ At("stop discovery", IF discovery = "none" THEN "exchange" ELSE "wake discovery")
  /\ discoveryStopped' = TRUE
  /\ UNCHANGED <<descriptors, network, server, listening, entries, handling, toClose, discovery,
                 discoveryWaits>>

(* A client of its own wakes the thread, if there is a descriptor for it.    *)
WakeDiscovery ==
  /\ At("wake discovery", "join discovery")
  /\ discoveryWaits' = IF Free # {} /\ discovery \in DiscoveryListening THEN discoveryWaits + 1
                                                                      ELSE discoveryWaits
  /\ UNCHANGED <<descriptors, network, server, listening, entries, handling, toClose, discovery,
                 discoveryStopped>>

JoinDiscovery ==
  /\ At("join discovery", "exchange")
  /\ discovery = "ended"
  /\ discovery' = "none"
  /\ discoveryWaits' = 0
  /\ UNCHANGED <<descriptors, network, server, listening, entries, handling, toClose,
                 discoveryStopped>>

Exchange ==
  /\ At("exchange", IF ControlSocket = Nil THEN "join" ELSE "wake")
  /\ toClose' = ControlSocket
  /\ ControlSocket' = Nil
  /\ UNCHANGED <<descriptors, network, Port, starts, listening, entries, handling, discovering>>

(* A connection of its own wakes the listener, if the port is known and there *)
(* is a descriptor for it; a socket that does not listen refuses it.           *)
Wake ==
  /\ At("wake", "join")
  /\ IF Port <= 0 \/ Free = {} \/ file[toClose] # Listening
     THEN UNCHANGED <<backlog, client>>
     ELSE backlog' = Append(backlog, Waking) /\ client' = [client EXCEPT ![Waking] = "gone"]
  /\ UNCHANGED <<descriptors, inbox, shut, connections, server, listening, entries, handling,
                 toClose, discovering>>

Join ==
  /\ At("join", "close")
  /\ listener \in {"none", "ended"}
  /\ listener' = "none"
  /\ UNCHANGED <<descriptors, network, server, listenSocket, accepted, toJoin, entries, handling,
                 toClose, discovering>>

Close ==
  /\ At("close", IF restart THEN "start" ELSE "idle")
  /\ file' = [d \in Descriptors |-> IF d = toClose THEN Nil ELSE file[d]]
  /\ backlog' = <<>>
  /\ toClose' = Nil
  /\ UNCHANGED <<files, client, inbox, shut, connections, server, listening, entries, handling,
                 discovering>>

Start(discover, port) ==
  /\ At("start", "idle")
  /\ Free # {}
  /\ ControlSocket' = Lowest(Free)
  /\ Port' = port
  /\ file' = [file EXCEPT ![ControlSocket'] = Listening]
  /\ starts' = starts + 1
  /\ listener' = "accept"
  /\ listenSocket' = ControlSocket'
  /\ discovery' = IF discover THEN "bind" ELSE "none"
  /\ discoveryStopped' = FALSE
  /\ UNCHANGED <<files, network, accepted, toJoin, entries, handling, toClose,
                 discoveryWaits>>

(* No certificate or socket, or bind or listen fail.                         *)
StartFails(port) ==
  /\ At("start", "idle")
  /\ Port' = port
  /\ starts' = starts + 1
  /\ UNCHANGED <<descriptors, network, ControlSocket, listening, entries, handling, toClose,
                 discovering>>

(* setsockopt fails: the socket stays as it is.                              *)
StartLeavesSocket(port) ==
  /\ At("start", "idle")
  /\ Free # {}
  /\ ControlSocket' = Lowest(Free)
  /\ Port' = port
  /\ file' = [file EXCEPT ![ControlSocket'] = Unbound]
  /\ starts' = starts + 1
  /\ UNCHANGED <<files, network, listening, entries, handling, toClose, discovering>>

----------------------------------------------------------------------------
ControlInit ==
  /\ file = [d \in Descriptors |-> Nil]
  /\ backlog = <<>>
  /\ client = [c \in Connections |-> "none"]
  /\ inbox = [c \in Connections |-> 0]
  /\ shut = {}
  /\ ControlSocket = Nil
  /\ Port = 0
  /\ listener = "none"
  /\ listenSocket = Nil
  /\ accepted = Nil
  /\ toJoin = {}
  /\ ControlThreads = [d \in Descriptors |-> Nil]
  /\ Stopped = [d \in Descriptors |-> FALSE]
  /\ handler = [c \in Connections |-> "none"]
  /\ socket = [c \in Connections |-> Nil]
  /\ app = "idle"
  /\ restart = FALSE
  /\ toClose = Nil
  /\ discovery = "none"
  /\ discoveryStopped = FALSE
  /\ discoveryWaits = 0
  /\ starts = 0 /\ connections = 0 /\ files = 0

ControlListener == Accept \/ TestSocket \/ StartHandler \/ Sweep \/ ShutDown \/ JoinHandlers

ControlHandler(c) == End(c) \/ Recv(c) \/ Received(c) \/ Reply(c) \/ SendFails(c)

ControlDiscovery ==
  DiscoveryListens \/ DiscoveryFails \/ DiscoveryTests \/ DiscoveryAccepts \/ DiscoveryTestsAgain

Application ==
  \/ StopDiscovery
  \/ WakeDiscovery
  \/ JoinDiscovery
  \/ Exchange
  \/ Wake
  \/ Join
  \/ Close
  \/ \E port \in Ports : \/ \E discover \in BOOLEAN : Start(discover, port)
                         \/ StartFails(port)
                         \/ StartLeavesSocket(port)

ControlNext ==
  \/ Connect
  \/ \E c \in Connections : Disconnect(c) \/ Send(c) \/ ClientReads(c) \/ OtherAnswers(c)
  \/ OpenFile
  \/ DiscoveryConnect
  \/ DiscoveryClientAsks
  \/ \E start \in BOOLEAN : Call(start)
  \/ ControlListener
  \/ \E c \in Connections : ControlHandler(c)
  \/ ControlDiscovery
  \/ Application

(* Threads run; a client need not do anything.                               *)
ControlFairness ==
  /\ WF_controlVars(ControlListener)
  /\ WF_controlVars(ControlDiscovery)
  /\ WF_controlVars(Application)
  /\ \A c \in Connections : WF_controlVars(ControlHandler(c))

ControlSpec == ControlInit /\ [][ControlNext]_controlVars /\ ControlFairness

----------------------------------------------------------------------------
HandlerLabels == {"none", "recv", "receiving", "send", "sending", "end", "ended",
                  "receiving astray", "sending astray"}

ControlTypes ==
  /\ \A d \in Descriptors : /\ file[d] \in Connections \cup {Nil, Listening, Foreign, Unbound}
                            /\ ControlThreads[d] \in Connections \cup {Nil}
  /\ ToSet(backlog) \subseteq Connections
  /\ listener \in {"none", "accept", "test", "start", "sweep", "join", "shut", "join all", "ended"}
  /\ {ControlSocket, listenSocket, accepted, toClose} \subseteq Descriptors \cup {Nil}
  /\ \A c \in Connections :
       /\ handler[c] \in HandlerLabels
       /\ handler[c] # "none" => socket[c] \in Descriptors
  /\ app \in {"idle", "stop discovery", "wake discovery", "join discovery", "exchange", "wake",
              "join", "close", "start"}
  /\ discovery \in {"none", "bind", "ended"} \cup DiscoveryListening
  /\ discoveryWaits \in 0..2

(* The types, and: as long as the listener does not shut the server down, a   *)
(* handler's socket is its own connection; and every descriptor open for the  *)
(* server is known to it, so that it will be closed (ControlListener).        *)
OwnConnection ==
  /\ ControlTypes
  /\ listener # "join all" =>
       \A c \in Connections : handler[c] \notin {"none", "ended"} => file[socket[c]] = c
  /\ \A d \in Descriptors : file[d] \in Connections =>
       d = accepted \/ ControlThreads[d] = file[d]
  /\ \A d \in Descriptors : file[d] \in {Listening, Unbound} => d \in {ControlSocket, toClose}

(* When StopControlServer has returned, its threads have ended and nothing   *)
(* of it is open.                                                            *)
NothingLeft ==
  app = "idle" /\ ControlSocket = Nil =>
    /\ listener = "none" /\ discovery = "none"
    /\ \A c \in Connections : handler[c] \in {"none", "ended"}
    /\ \A d \in Descriptors : file[d] \in {Nil, Foreign} /\ ControlThreads[d] = Nil

(* What may keep a call of StopControlServer or a listener from coming back:  *)
(* a thread that was not woken, because the port is not known or there is no  *)
(* descriptor (WakeControlListener, ControlDiscovery::Stop); a client of the  *)
(* discovery endpoint that never asks nor goes; a client that never reads its *)
(* reply nor goes; a handler that serves another's descriptor after the       *)
(* shutdown has closed its own.                                               *)
NotWoken ==
  \/ app = "wake" /\ (Port <= 0 \/ Free = {})
  \/ app = "wake discovery" /\ Free = {}

HeldByHandler ==
  \/ \E c \in Connections : <>[](handler[c] = "sending")
  \/ <>(\E c \in Connections : handler[c] \in {"receiving astray", "sending astray"})

(* Calls of StartControlServer and StopControlServer return, though clients   *)
(* stay connected and send nothing, and clients of the discovery endpoint     *)
(* come at any moment; and a listener comes back to its backlog: it waits for *)
(* no handler that serves a client that stays (the joins in ControlListener   *)
(* and ControlDiscovery::Stop).  Otherwise one of the above has happened.     *)
CallsReturn ==
  /\ []<>(app = "idle") \/ HeldByHandler \/ <>NotWoken \/ <>[](discovery = "read")
  /\ []<>(listener \in {"none", "accept", "ended"}) \/ HeldByHandler
=============================================================================
