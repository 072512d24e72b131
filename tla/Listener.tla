------------------------------ MODULE Listener ------------------------------
(***************************************************************************)
(* Which port a board gets, and the mark it leaves for other processes:    *)
(* server/listen.js, server/trace.js and the two ends of a board's life in *)
(* server/server.js.  A board bound to all addresses also takes the        *)
(* loopback ones with sockets of their own, where the platform would let   *)
(* somebody else take them.  A board process is named by its pid, and a    *)
(* pid serves again once its process is gone.                              *)
(***************************************************************************)
EXTENDS Naturals

CONSTANTS Servers,      \* pids of board processes
          Other,        \* all other programs
          LastPort,     \* the ports are 1..LastPort, in the order of the scan
          NoPort

ASSUME ListenerAssumption == LastPort \in Nat \ {0} /\ NoPort \notin 1..LastPort /\ Other \notin Servers

VARIABLES
  platform,  \* [shadowable, ipv6, reserved, wild]: see ListenerInit
  sockets,   \* the listening sockets: [owner, addr, port]
  server,    \* the board processes
  traces     \* .briefboard/boards/: the port in the file of each pid; NoPort: no
             \*   file, or one that names no port

listenerVars == <<platform, sockets, server, traces>>

Ports == 1..LastPort
LOOPBACK_HOSTS == {"127.0.0.1", "::1"}
WILDCARDS == {"0.0.0.0", "::"}

\* What a socket bound to `addr` answers.
Covers(addr) == CASE addr = "0.0.0.0" -> {"127.0.0.1"}
                  [] addr = "::"      -> LOOPBACK_HOSTS
                  [] OTHER            -> {addr}

\* at:  "off", "binding", "holding" (the loopback addresses), "up";
\* ask: addresses not asked for yet; theirs: addresses somebody else holds.
NoServer == [at |-> "off", host |-> "::", explicit |-> FALSE, port |-> NoPort,
             ask |-> {}, theirs |-> {}, going |-> FALSE]

Gone(b) == server[b].at = "off"

ListenerInit ==
  /\ platform \in [shadowable : BOOLEAN,     \* a wildcard leaves loopback to others
                   ipv6 : BOOLEAN,           \* there is a ::1
                   reserved : {{}, {1}},     \* ports the system keeps: EACCES
                   wild : WILDCARDS]         \* the HOST of a public board
  /\ sockets = {}
  /\ server = [b \in Servers |-> NoServer]
  /\ traces = [b \in Servers |-> NoPort]

-----------------------------------------------------------------------------
(* bind(2), as the comments of listen.js report it.                         *)

Taken(addr, port) ==
  \E s \in sockets : /\ s.port = port
                     /\ \/ s.addr = addr
                        \/ ~platform.shadowable /\ Covers(s.addr) \intersect Covers(addr) # {}

Available(addr, port) == port \notin platform.reserved /\ (addr = "::1" => platform.ipv6)
CanBind(addr, port)   == Available(addr, port) /\ ~Taken(addr, port)
Socket(b, addr, port) == [owner |-> b, addr |-> addr, port |-> port]

\* Whom a connection to this loopback address reaches.
AnsweringAt(addr, port) ==
  LET own  == {s \in sockets : s.port = port /\ s.addr = addr}
      wide == {s \in sockets : s.port = port /\ addr \in Covers(s.addr)} IN
  {s.owner : s \in IF own # {} THEN own ELSE wide}

SocketsOf(b) == {s \in sockets : s.owner = b}

-----------------------------------------------------------------------------
(* listenWithFallback().                                                    *)

Launch(b) ==
  /\ Gone(b)
  /\ \E host \in {"127.0.0.1", platform.wild}, explicit \in BOOLEAN, port \in Ports :
       /\ explicit \/ port = 1
       /\ server' = [server EXCEPT ![b] = [NoServer EXCEPT
            !.at = "binding", !.host = host, !.explicit = explicit, !.port = port]]
  /\ UNCHANGED <<platform, sockets, traces>>

\* The next candidate; with none left the process exits.
NextCandidate(b) ==
  LET s == server[b] IN
  server' = [server EXCEPT ![b] =
    IF s.explicit \/ s.port = LastPort THEN NoServer
    ELSE [s EXCEPT !.at = "binding", !.port = s.port + 1, !.ask = {}, !.theirs = {}]]

\* canShadow(): only a public board, and only where it could lose localhost.
HoldsLoopback(host) == host \in WILDCARDS /\ platform.shadowable

\* The address of a main socket that a request has closed is null.
OwnPort(b) == IF server[b].going THEN NoPort ELSE server[b].port

SweepOthers(b) == [p \in Servers |-> IF p = b THEN OwnPort(b) ELSE NoPort]   \* (mutation)

\* sweepBoardTraces(), writeBoardTrace(): the living keep their files.
Traced(b) == [p \in Servers |-> IF p = b THEN OwnPort(b)
                                ELSE IF Gone(p) THEN NoPort ELSE traces[p]]

Bind(b) ==
  LET s == server[b] IN
  /\ s.at = "binding"
  /\ IF CanBind(s.host, s.port)
     THEN /\ sockets' = sockets \union {Socket(b, s.host, s.port)}
          /\ IF HoldsLoopback(s.host)
             THEN /\ server' = [server EXCEPT ![b].at = "holding", ![b].ask = LOOPBACK_HOSTS]
                  /\ UNCHANGED traces
             ELSE server' = [server EXCEPT ![b].at = "up"] /\ traces' = Traced(b)
     ELSE NextCandidate(b) /\ UNCHANGED <<sockets, traces>>
  /\ UNCHANGED platform

\* ownLoopbackAddresses(): one address after the other, each held, not asked about.
AskOnly(b, addr) == {}                                        \* (mutation)
HeldSocket(b, addr) ==
  IF CanBind(addr, server[b].port) THEN {Socket(b, addr, server[b].port)} ELSE {}

Hold(b) ==
  LET s == server[b] IN
  /\ s.at = "holding"
  /\ \E addr \in s.ask :
       /\ addr = "::1" => "127.0.0.1" \notin s.ask
       /\ sockets' = sockets \union HeldSocket(b, addr)
       /\ server' = [server EXCEPT ![b].ask = @ \ {addr}, ![b].theirs =
            IF Available(addr, s.port) /\ Taken(addr, s.port) THEN @ \union {addr} ELSE @]
  /\ UNCHANGED <<platform, traces>>

\* Somebody else has a loopback address: a scan gives the port up altogether, a
\* port that was asked for is served with a warning.
MainSocket(b) == {Socket(b, server[b].host, server[b].port)}
Closes(b) == SocketsOf(b)

Adopt(b) ==
  LET s == server[b] IN
  /\ s.at = "holding" /\ s.ask = {}
  /\ IF s.theirs # {} /\ ~s.explicit
     THEN sockets' = sockets \ Closes(b) /\ NextCandidate(b) /\ UNCHANGED traces
     ELSE /\ server' = [server EXCEPT ![b].at = "up"] /\ traces' = Traced(b)
          /\ UNCHANGED sockets
  /\ UNCHANGED platform

-----------------------------------------------------------------------------
(* Its end, and the other programs of the machine.                          *)

\* stopBoard(): by a signal at any moment, or by a request to a socket of its
\* own, and then it drains.  The main socket answers before the loopback ones
\* are held, and until they all are, stopBoard() knows of no other.
StopBySignal(b) ==
  /\ ~Gone(b) /\ ~server[b].going
  /\ traces' = [traces EXCEPT ![b] = NoPort]
  /\ sockets' = sockets \ SocketsOf(b)
  /\ server' = [server EXCEPT ![b] = NoServer]
  /\ UNCHANGED platform

StopByRequest(b) ==
  /\ server[b].at \in {"holding", "up"} /\ ~server[b].going
  /\ traces' = [traces EXCEPT ![b] = NoPort]
  /\ sockets' = sockets \ IF server[b].at = "up" THEN SocketsOf(b) ELSE MainSocket(b)
  /\ server' = [server EXCEPT ![b].going = TRUE]
  /\ UNCHANGED platform

\* The process is gone, drained or killed; its file stays if it was killed.
Dies(b) ==
  /\ ~Gone(b)
  /\ sockets' = sockets \ SocketsOf(b)
  /\ server' = [server EXCEPT ![b] = NoServer]
  /\ UNCHANGED <<platform, traces>>

OtherListens(addr, port) ==
  /\ CanBind(addr, port) /\ \A s \in sockets : s.owner # Other
  /\ sockets' = sockets \union {Socket(Other, addr, port)}
  /\ UNCHANGED <<platform, server, traces>>

OtherCloses ==
  /\ SocketsOf(Other) # {}
  /\ sockets' = sockets \ SocketsOf(Other)
  /\ UNCHANGED <<platform, server, traces>>

ListenerNext ==
  \/ \E b \in Servers : \/ Launch(b) \/ Bind(b) \/ Hold(b) \/ Adopt(b)
                        \/ StopBySignal(b) \/ StopByRequest(b) \/ Dies(b)
  \/ \E addr \in LOOPBACK_HOSTS, port \in Ports : OtherListens(addr, port)
  \/ OtherCloses

ListenerSpec == ListenerInit /\ [][ListenerNext]_listenerVars

-----------------------------------------------------------------------------
(* Properties.                                                              *)

Serving(b) == server[b].at = "up" /\ ~server[b].going
Localhost  == {addr \in LOOPBACK_HOSTS : addr = "::1" => platform.ipv6}

\* Of a public board that chose its port itself nobody else is opened at
\* http://localhost:port, now or later: the comments of listen.js:131-136 and
\* 157-163.
NobodyElseOnLocalhost ==
  \A b \in Servers : Serving(b) /\ ~server[b].explicit /\ server[b].host \in WILDCARDS =>
    \A addr \in LOOPBACK_HOSTS : AnsweringAt(addr, server[b].port) \subseteq {b}

\* A board that chose its port answers on every loopback address its HOST
\* stands for and on every one it took: no other board, starting or stepping
\* aside at the same moment, is let in between, and none comes later.
OwnAddressesAreKept ==
  \A b \in Servers : Serving(b) /\ ~server[b].explicit =>
    \A addr \in Localhost :
      addr \in Covers(server[b].host) \/ HoldsLoopback(server[b].host) =>
        AnsweringAt(addr, server[b].port) = {b}

\* The file under a serving board's pid names the port it serves on, whatever
\* other boards sweep and whoever had the pid before; and it has no socket left
\* on a port it has stepped aside from.
TraceTellsThePort ==
  \A b \in Servers :
    /\ Serving(b) => traces[b] = server[b].port
    /\ \A s \in SocketsOf(b) : s.port = server[b].port /\ server[b].at \in {"holding", "up"}

=============================================================================
