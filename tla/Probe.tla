------------------------------- MODULE Probe ---------------------------------
(***************************************************************************)
(* tools/probe_greeter.py: it lists the sockets a process listens on and   *)
(* probes them one by one, waiting for a greeting and then sending a       *)
(* nudge.  A listener is a greet_server, or an external peer that may      *)
(* speak, close or reset at any time.                                      *)
(***************************************************************************)
EXTENDS Greeter, FiniteSets

CONSTANTS
  Tables,      (* socket tables the process may have                       *)
  GreeterIp, GreeterPort, (* where greet_server listens                    *)
  Banner,      (* what an external peer says                               *)
  MaxSpoken    (* bound of the model: how often it says it                 *)

(* A row of the process's socket table.                                    *)
Conn == [ip : Nat, port : Nat, kind : {"tcp", "udp"},
         bound : BOOLEAN, listening : BOOLEAN, connected : BOOLEAN]

ASSUME ProbeAssumption ==
  /\ Tables \subseteq [conns : Seq(Conn), skip_udp : BOOLEAN, port : Nat]
  /\ Banner \in Seq(Byte) \ {<<>>} /\ MaxSpoken \in Nat

VARIABLES
  table,   (* the process's sockets, and the filters asked for             *)
  todo,    (* listeners still to probe; the first is being probed          *)
  got,     (* the bytes the probe has received                             *)
  reports, (* what it has printed: listener, tag and whether bytes came    *)
  refused  (* encountered_refused                                          *)

(* The peer wrote before the nudge was sent; no part of the program.       *)
VARIABLE spokeFirst

probeVars == <<table, todo, got, reports, refused, spokeFirst>>
vars == <<greeterVars, probeVars>>

Tag == {"greet", "silent", "post-nudge", "silent-nudged", "refused",
        "connect-failed", "send-failed"}
Listener == [ip : Nat, port : Nat, kind : {"tcp", "udp"}]

TypeOK ==
  /\ GreeterTypeOK
  /\ todo \in Seq(Listener)
  /\ got \in Seq(Byte)
  /\ reports \in Seq([at : Listener, tag : Tag, some : BOOLEAN])
  /\ refused \in BOOLEAN /\ spokeFirst \in BOOLEAN

-----------------------------------------------------------------------------
(* The listeners.                                                          *)

(* Mutant: a connected UDP socket counts as a listener.                    *)
Listens_connected(c) ==
  c.bound /\ (IF c.kind = "udp" THEN TRUE ELSE c.listening)

(* A UDP socket has no state, but a peer it is connected to.               *)
Listens(c) ==
  c.bound /\ (IF c.kind = "udp" THEN ~c.connected ELSE c.listening)

Endpoint(c) == [ip |-> c.ip, port |-> c.port, kind |-> c.kind]

(* --skip-udp and --port, which is 0 if it is not given.                   *)
Wanted(t, l) == /\ t.skip_udp => l.kind # "udp"
                /\ t.port # 0 => l.port = t.port

(* By kind, port and address.                                              *)
Before(a, b) ==
  \/ a.kind = "tcp" /\ b.kind = "udp"
  \/ a.kind = b.kind /\ a.port < b.port
  \/ a.kind = b.kind /\ a.port = b.port /\ a.ip < b.ip

(* Each endpoint once, in order; the filters are applied to the list.      *)
Found(t) == {l \in {Endpoint(c) : c \in {d \in ToSet(t.conns) : Listens(d)}} :
               Wanted(t, l)}
list_listeners(t) ==
  CHOOSE q \in [1..Cardinality(Found(t)) -> Found(t)] : IsSorted(q, Before)

ProbeInit ==
  /\ client = "probe"
  /\ \E r \in Responses : flags = Flags(Magic, r, 4096)
  /\ plan \in {Plan(nudge, <<>>, "fin") : nudge \in Payloads}
  /\ table \in Tables
  /\ todo = list_listeners(table)

NoProbe == table = [conns |-> <<>>, skip_udp |-> FALSE, port |-> 0]
             /\ todo = <<>>

Init ==
  /\ GreeterInit
  /\ \/ client = "prelauncher" /\ PrelauncherInit /\ NoProbe
     \/ client = "smoke" /\ SmokeInit /\ NoProbe
     \/ ProbeInit
  /\ client \in Clients
  /\ got = <<>> /\ reports = <<>> /\ refused = FALSE /\ spokeFirst = FALSE

-----------------------------------------------------------------------------
(* The peer that is no greet_server.  Its bytes over UDP are datagrams,    *)
(* which may be lost.                                                      *)

PeerSpeaks ==
  /\ handler = "peer" /\ closed["server"] = "open"
  /\ Len(sent["server"]) < MaxSpoken * Len(Banner)
  /\ Write("server", Banner)
  /\ spokeFirst' = (spokeFirst \/ sent["client"] = <<>>)
  /\ UNCHANGED <<handler, cpc, result, unlessClient, table, todo, got,
                 reports, refused>>

PeerCloses ==
  /\ handler = "peer" /\ closed["server"] = "open" /\ todo # <<>>
  /\ IF Head(todo).kind = "udp" THEN Close("server", "rst")
     ELSE \E how \in {"fin", "rst"} : Close("server", how)
  /\ UNCHANGED <<handler, cpc, result, unlessClient, probeVars>>

LoseDatagram ==
  /\ handler = "peer" /\ todo # <<>> /\ Head(todo).kind = "udp"
  /\ arrived["server"] < Len(sent["server"])
  /\ sent' = [sent EXCEPT !["server"] = SubSeq(@, 1, Len(@) - 1)]
  /\ UNCHANGED <<arrived, taken, closed, reset, handler, cpc, result,
                 unlessClient, probeVars>>

-----------------------------------------------------------------------------
(* The probe.                                                              *)

unlessProbe == <<unlessClient, table>>

GreeterEndpoint == [ip |-> GreeterIp, port |-> GreeterPort, kind |-> "tcp"]

AtGreeter == todo # <<>> /\ Head(todo) = GreeterEndpoint

(* A tag is printed, and the next listener is probed over a new socket.    *)
Report(tag) ==
  /\ reports' = Append(reports, [at |-> Head(todo), tag |-> tag,
                                 some |-> got # <<>>])
  /\ refused' = (refused \/ tag \in {"refused", "connect-failed"})
  /\ Close("client", "fin")
  /\ cpc' = "next"
  /\ UNCHANGED <<handler, result, unlessProbe, todo, got, spokeFirst>>

(* The peer of the next one starts afresh: one handshake per connection.   *)
(* The probe goes on at once; the model has the wire of one connection, so *)
(* it waits for the server's handler of the last one to close.  What that  *)
(* handler still does goes to a socket the probe has closed, and the next  *)
(* listener is another endpoint.                                           *)
NextListener ==
  /\ client = "probe" /\ cpc = "next"
  /\ handler \in {"none", "closed", "peer"}
  /\ todo' = Tail(todo)
  /\ sent' = [s \in Side |-> <<>>]
  /\ arrived' = [s \in Side |-> 0] /\ taken' = [s \in Side |-> 0]
  /\ closed' = [s \in Side |-> "open"] /\ reset' = [s \in Side |-> FALSE]
  /\ payload' = <<>> /\ verdict' = "none" /\ paused' = FALSE
  /\ handler' = "none" /\ cpc' = "connect"
  /\ got' = <<>> /\ spokeFirst' = FALSE
  /\ UNCHANGED <<client, flags, plan, server, result, table, reports, refused>>

ProbeConnects ==
  /\ cpc = "connect" /\ todo # <<>> /\ server # "starting"
  /\ \/ /\ IF AtGreeter THEN server = "listening" /\ handler' = "reading"
           ELSE handler' = "peer"
        /\ cpc' = "greet window"
        /\ UNCHANGED <<result, wireVars, unlessProbe, todo, got, reports,
                       refused, spokeFirst>>
     \/ AtGreeter /\ server # "listening" /\ Report("refused")
     \/ ~AtGreeter /\ Report("connect-failed")
     \/ ~AtGreeter /\ Head(todo).kind = "tcp" /\ Report("refused")

Windows == {"greet window", "nudge window"}

(* One recv: a stream's bytes, or one datagram.                            *)
DrainChunk ==
  /\ cpc \in Windows /\ Here("server") # <<>>
  /\ LET n == IF Head(todo).kind = "udp" THEN 1 ELSE Len(Here("server")) IN
     /\ got' = got \o SubSeq(Here("server"), 1, n)
     /\ Read("client", n)
  /\ UNCHANGED <<handler, cpc, result, unlessProbe, todo, reports, refused,
                 spokeFirst>>

(* Mutant: UDP is treated like TCP.                                        *)
GreetWindowEnds_alike ==
  /\ cpc = "greet window"
  /\ IF got # <<>> /\ plan.greet # <<>> THEN Report("greet")
     ELSE IF plan.greet = <<>> THEN Report("silent")
     ELSE /\ cpc' = "nudge"
          /\ UNCHANGED <<handler, result, wireVars, unlessProbe, todo, got,
                         reports, refused, spokeFirst>>

(* The deadline, the end of the stream or an error, alike: a peer that     *)
(* closes early is nudged too.  With --no-nudge the TCP probe says silent  *)
(* of a listener that spoke.                                               *)
GreetWindowEnds ==
  /\ cpc = "greet window"
  /\ IF got # <<>> /\ (plan.greet # <<>> \/ Head(todo).kind = "udp")
       THEN Report("greet")
     ELSE IF plan.greet = <<>> THEN Report("silent")
     ELSE /\ cpc' = "nudge"
          /\ UNCHANGED <<handler, result, wireVars, unlessProbe, todo, got,
                         reports, refused, spokeFirst>>

Nudge ==
  /\ cpc = "nudge"
  /\ IF reset["client"] THEN Report("send-failed")
     ELSE /\ Write("client", plan.greet)
          /\ cpc' = "nudge window"
          /\ UNCHANGED <<handler, result, unlessProbe, todo, got, reports,
                         refused, spokeFirst>>

(* The last look without waiting belongs to TCP; a later recv is covered   *)
(* by DrainChunk.                                                          *)
NudgeWindowEnds ==
  /\ cpc = "nudge window"
  /\ Report(IF got = <<>> THEN "silent-nudged" ELSE "post-nudge")

ProbeEnds ==
  /\ client = "probe" /\ cpc = "connect" /\ todo = <<>>
  /\ Finish(IF reports = <<>> \/ refused THEN "exit 1" ELSE "exit 0")
  /\ UNCHANGED <<handler, wireVars, unlessProbe, todo, got, reports, refused,
                 spokeFirst>>

ProbeStep ==
  \/ NextListener \/ ProbeEnds
  \/ /\ client = "probe"
     /\ \/ ProbeConnects \/ DrainChunk \/ GreetWindowEnds \/ Nudge
        \/ NudgeWindowEnds

Next ==
  \/ (Wire \/ ServerNext \/ Prelauncher \/ Smoke) /\ UNCHANGED probeVars
  \/ PeerSpeaks \/ PeerCloses \/ LoseDatagram
  \/ ProbeStep

(* asyncio runs the handler, whose pauses have an end, and the network     *)
(* delivers; nobody has to send, and a client may hold the connection.     *)
Fairness ==
  /\ WF_vars(Handler /\ UNCHANGED probeVars)
  /\ WF_vars(ProbeStep)

Spec == Init /\ [][Next]_vars /\ Fairness

-----------------------------------------------------------------------------
(* Each endpoint the process listens on and the filters let pass is probed *)
(* once, in order, however its sockets are duplicated (lines 106-174 and   *)
(* 591-654).                                                               *)
ListenersProbedOnce ==
  client = "probe" /\ result # "none" =>
    LET at == [i \in DOMAIN reports |-> reports[i].at]
        conns == ToSet(table.conns)
    IN /\ IsInjective(at)
       /\ ToSet(at) =
            {l \in {Endpoint(c) : c \in conns} :
               /\ Wanted(table, l)
               /\ \E c \in conns :
                    /\ c.bound /\ Endpoint(c) = l
                    /\ c.kind = "udp" => ~c.connected
                    /\ c.kind = "tcp" => c.listening}

(* A listener is tagged as greeting only if it wrote before anything was   *)
(* sent to it, and bytes are reported under greet or post-nudge, or under  *)
(* silent by a TCP probe that has no nudge (lines 290-456).  A             *)
(* greet_server, which never speaks first, is never tagged as greeting,    *)
(* and answers only a nudge its validator accepts, though either of the    *)
(* two may lose patience before the other.                                 *)
TagTellsTruth ==
  [][\A i \in DOMAIN reports' \ DOMAIN reports :
       LET r == reports'[i] IN
       /\ r.tag = "greet" =>
            spokeFirst /\ sent["client"] = <<>> /\ r.at # GreeterEndpoint
       /\ r.some =>
            \/ r.tag \in {"greet", "post-nudge"}
            \/ r.tag = "silent" /\ plan.greet = <<>> /\ r.at.kind = "tcp"
       /\ r.tag = "post-nudge" /\ r.at = GreeterEndpoint =>
            parse_handshake(plan.greet, flags.cfg) = "ACCEPTED"
              /\ flags.response # <<>>]_vars

(* Every wait has a deadline.  A connection the server has accepted is     *)
(* closed in the end, whatever the client does: no verdict, response or    *)
(* error leaves it open (greet_server.py:311-397; the docstring of         *)
(* send_response, and the line logged at 360, say it stays open).  And a   *)
(* probe comes to its end over every listener, whatever the peers say or   *)
(* keep silent about (lines 217-262).                                      *)
EveryWaitEnds ==
  /\ handler = "reading" ~> handler = "closed"
  /\ client = "probe" /\ server # "starting" ~> result # "none"
=============================================================================
