------------------------------ MODULE Greeter --------------------------------
(***************************************************************************)
(* tools/greet_server.py and one client's connection to it: the synthetic  *)
(* tools/fake_prelauncher.py, one scenario of tools/_validator_smoke.py,   *)
(* or the probe of module Probe.  A listener that is no greet_server is an *)
(* external peer, which may say anything at any time.                      *)
(*                                                                         *)
(* Each direction of the TCP connection is a stream of bytes that arrives  *)
(* in pieces of any size; the end of a stream arrives after its bytes, and *)
(* a reset may overtake them.                                              *)
(***************************************************************************)
EXTENDS Handshake

CONSTANTS
  Clients,      (* the kinds of client to consider                         *)
  Payloads,     (* what the prelauncher may be told to send                *)
  MaxHandshake, (* values of --max-handshake-bytes                         *)
  Responses     (* values of --response; the empty sequence is its absence *)

ASSUME GreeterAssumption ==
  /\ Clients \subseteq {"prelauncher", "smoke", "probe"}
  /\ Payloads \subseteq Seq(Byte) /\ Responses \subseteq Seq(Byte)
  /\ MaxHandshake \subseteq Nat \ {0}

Side == {"client", "server"}
Other(s) == IF s = "client" THEN "server" ELSE "client"

VARIABLES
  client,    (* who the client is                                          *)
  flags,     (* greet_server's command line                                *)
  plan,      (* what the client was told to do                             *)
  server,    (* the server's process                                       *)
  handler,   (* handle_client, or an external peer                         *)
  payload,   (* the bytes read_handshake has                               *)
  verdict,   (* the line parse_handshake logs                              *)
  cpc,       (* where the client is                                        *)
  result     (* how it ended                                               *)

VARIABLES
  sent,      (* side -> the bytes it has written                           *)
  arrived,   (* side -> how many of them, and of its FIN, have arrived     *)
  taken,     (* side -> how many of them the other side has read           *)
  closed,    (* side -> open, half (SHUT_WR), fin or rst                   *)
  reset      (* side -> a reset has reached it                             *)

(* The server took a pause for the end of the handshake; no part of the    *)
(* programs.                                                               *)
VARIABLE paused

wireVars == <<sent, arrived, taken, closed, reset>>
serverVars == <<server, handler, payload, verdict>>
greeterVars == <<client, flags, plan, serverVars, cpc, result, wireVars, paused>>

GreeterTypeOK ==
  /\ client \in Clients
  /\ server \in {"starting", "listening", "exit 0", "exit 1", "terminated"}
  /\ handler \in {"none", "reading", "responding", "closing", "closed", "peer"}
  /\ payload \in Seq(Byte) /\ Len(payload) <= flags.max
  /\ verdict \in {"none", "ACCEPTED", "REJECTED"}
  /\ result \in {"none", "exit 0", "exit 1", "exit 2", "pass", "fail"}
  /\ sent \in [Side -> Seq(Byte)]
  /\ closed \in [Side -> {"open", "half", "fin", "rst"}]
  /\ reset \in [Side -> BOOLEAN]
  /\ \A s \in Side :
       /\ taken[s] \in 0..Len(sent[s])
       /\ arrived[s] \in taken[s]..Len(sent[s]) + 1
       /\ arrived[s] > Len(sent[s]) => closed[s] # "open"
  /\ paused \in BOOLEAN

FreshWire ==
  /\ sent = [s \in Side |-> <<>>]
  /\ arrived = [s \in Side |-> 0] /\ taken = [s \in Side |-> 0]
  /\ closed = [s \in Side |-> "open"] /\ reset = [s \in Side |-> FALSE]

Flags(cli, response, max) == [cfg |-> build_validator_cfg(cli),
                              response |-> response, max |-> max]

Plan(greet, post, mode) == [greet |-> greet, post |-> post, mode |-> mode]

(* An empty --greet-bytes sends no second frame either.                    *)
PrelauncherInit ==
  /\ \E s \in DEFAULT_SCENARIOS, r \in Responses, max \in MaxHandshake :
       flags = Flags(s.cli, r, max)
  /\ \E g \in Payloads, p \in Payloads, mode \in {"fin", "rst"} :
       plan = Plan(g, IF g = <<>> THEN <<>> ELSE p, mode)

SmokeInit ==
  \E s \in DEFAULT_SCENARIOS :
    /\ flags = Flags(s.cli, <<>>, 4096)
    /\ plan = Plan(s.payload, <<>>, s.expect)

GreeterInit ==
  /\ FreshWire /\ paused = FALSE
  /\ server = "starting" /\ handler = "none"
  /\ payload = <<>> /\ verdict = "none"
  /\ cpc = "connect" /\ result = "none"

-----------------------------------------------------------------------------
(* The connection.                                                         *)

InFlight(s) == Len(sent[s]) - taken[s]
Here(s) == LET n == IF arrived[s] > Len(sent[s]) THEN Len(sent[s])
                    ELSE arrived[s]
           IN SubSeq(sent[s], taken[s] + 1, n)

Deliver(s) ==
  /\ \E n \in arrived[s] + 1 ..
                Len(sent[s]) + (IF closed[s] = "open" THEN 0 ELSE 1) :
       arrived' = [arrived EXCEPT ![s] = n]
  /\ closed[s] # "rst"
  /\ UNCHANGED <<sent, taken, closed, reset>>

(* A reset, or the answer to bytes that reach a socket closed before it    *)
(* has read them.                                                          *)
DeliverReset(s) ==
  /\ ~reset[s]
  /\ \/ closed[Other(s)] = "rst"
     \/ closed[Other(s)] = "fin" /\ Here(s) # <<>>
  /\ reset' = [reset EXCEPT ![s] = TRUE]
  /\ UNCHANGED <<sent, arrived, taken, closed>>

Write(s, bytes) ==
  /\ sent' = [sent EXCEPT ![s] = @ \o bytes]
  /\ UNCHANGED <<arrived, taken, closed, reset>>

(* s reads n of the bytes that have arrived.                               *)
Read(s, n) ==
  /\ taken' = [taken EXCEPT ![Other(s)] = @ + n]
  /\ UNCHANGED <<sent, arrived, closed, reset>>

Close(s, how) ==
  /\ closed' = [closed EXCEPT ![s] = how]
  /\ UNCHANGED <<sent, arrived, taken, reset>>

Wire ==
  /\ \E s \in Side : Deliver(s) \/ DeliverReset(s)
  /\ UNCHANGED <<client, flags, plan, serverVars, cpc, result, paused>>

-----------------------------------------------------------------------------
(* The server.                                                             *)

unlessServer == <<client, flags, plan, cpc, result>>

StartServer ==
  /\ server = "starting"
  /\ server' \in {"listening", "exit 1"}
  /\ UNCHANGED <<handler, payload, verdict, wireVars, paused, unlessServer>>

(* Mutant: the maximum is looked at between two reads only.                *)
ReadChunk_greedy ==
  /\ handler = "reading" /\ ~reset["server"]
  /\ Here("client") # <<>> /\ Len(payload) < flags.max
  /\ payload' = payload \o Here("client")
  /\ Read("server", Len(Here("client")))
  /\ UNCHANGED <<server, handler, verdict, paused, unlessServer>>

(* read_handshake takes what has arrived, up to its maximum.               *)
ReadChunk ==
  /\ handler = "reading" /\ ~reset["server"]
  /\ Here("client") # <<>> /\ Len(payload) < flags.max
  /\ LET room == flags.max - Len(payload)
         n == IF Len(Here("client")) < room THEN Len(Here("client")) ELSE room
     IN /\ payload' = payload \o SubSeq(Here("client"), 1, n)
        /\ Read("server", n)
  /\ UNCHANGED <<server, handler, verdict, paused, unlessServer>>

(* Mutant: the handshake is whatever the first read returned.              *)
ReadEnds_first ==
  /\ handler = "reading"
  /\ payload # <<>>
  /\ verdict' = parse_handshake(payload, flags.cfg)
  /\ handler' = IF verdict' = "ACCEPTED" /\ flags.response # <<>>
                THEN "responding" ELSE "closing"
  /\ UNCHANGED <<paused, server, payload, wireVars, unlessServer>>

(* The maximum, the end of the stream, or a pause of --handshake-idle: the *)
(* last may be taken in the middle of a handshake.                         *)
ReadEnds ==
  /\ handler = "reading"
  /\ Len(payload) = flags.max \/ Here("client") = <<>>
  /\ paused' = (Len(payload) < flags.max
                  /\ (InFlight("client") > 0 \/ closed["client"] = "open"))
  /\ verdict' = parse_handshake(payload, flags.cfg)
  /\ handler' = IF verdict' = "ACCEPTED" /\ flags.response # <<>>
                THEN "responding" ELSE "closing"
  /\ UNCHANGED <<server, payload, wireVars, unlessServer>>

(* A reset makes the read raise, with or without bytes in its buffer.      *)
ReadBreaks ==
  /\ handler = "reading" /\ reset["server"]
  /\ handler' = "closing"
  /\ UNCHANGED <<server, payload, verdict, wireVars, paused, unlessServer>>

(* Mutant: the connection is left open for further traffic.                *)
Respond_open ==
  /\ handler = "responding" /\ handler' = "none"
  /\ Write("server", flags.response)
  /\ UNCHANGED <<server, payload, verdict, paused, unlessServer>>

(* After a reset drain raises, and the bytes go nowhere.                   *)
Respond ==
  /\ handler = "responding"
  /\ IF reset["server"] THEN UNCHANGED wireVars
     ELSE Write("server", flags.response)
  /\ handler' = "closing"
  /\ UNCHANGED <<server, payload, verdict, paused, unlessServer>>

(* The finally clause closes the connection in every case.                 *)
CloseClient ==
  /\ handler = "closing"
  /\ Close("server", "fin")
  /\ handler' = "closed"
  /\ UNCHANGED <<server, payload, verdict, paused, unlessServer>>

(* SIGINT cancels the handlers, whose finally clause still runs; SIGTERM,  *)
(* which the smoke driver sends in the end, leaves closing to the kernel.  *)
StopServer(how) ==
  /\ server = "listening"
  /\ server' = how
  /\ IF handler \in {"reading", "responding", "closing"}
     THEN Close("server", "fin") /\ handler' = "closed"
     ELSE UNCHANGED <<wireVars, handler>>
  /\ UNCHANGED <<payload, verdict, paused, unlessServer>>

Handler == ReadChunk \/ ReadEnds \/ ReadBreaks \/ Respond \/ CloseClient

ServerNext == StartServer \/ Handler \/ StopServer("exit 0")

-----------------------------------------------------------------------------
(* The clients.                                                            *)

unlessClient == <<client, flags, plan, server, payload, verdict, paused>>

Connect(next) ==
  /\ cpc = "connect" /\ server = "listening"
  /\ handler' = "reading" /\ cpc' = next
  /\ UNCHANGED <<result, wireVars, unlessClient>>

Finish(r) == cpc' = "done" /\ result' = r

ConnectFails(r) ==
  /\ cpc = "connect" /\ server \notin {"starting", "listening"}
  /\ Finish(r)
  /\ UNCHANGED <<handler, wireVars, unlessClient>>

(* One frame, unless the connection is known to be broken.                 *)
SendFrame(at, bytes, next, r) ==
  /\ cpc = at
  /\ IF reset["client"] /\ bytes # <<>>
     THEN Close("client", "fin") /\ Finish(r)
     ELSE Write("client", bytes) /\ cpc' = next /\ UNCHANGED result
  /\ UNCHANGED <<handler, unlessClient>>

(* With --close-mode idle the FIN comes later, which any FIN here may.     *)
PrelauncherCloses ==
  /\ cpc = "close"
  /\ Close("client", plan.mode) /\ Finish("exit 0")
  /\ UNCHANGED <<handler, unlessClient>>

Prelauncher ==
  /\ client = "prelauncher"
  /\ \/ Connect("greet") \/ ConnectFails("exit 1")
     \/ SendFrame("greet", plan.greet, "post", "exit 2")
     \/ SendFrame("post", plan.post, "close", "exit 2")
     \/ PrelauncherCloses

SmokeHalfCloses ==
  /\ cpc = "half"
  /\ Close("client", "half") /\ cpc' = "drain"
  /\ UNCHANGED <<handler, result, unlessClient>>

(* It reads to the end of the stream, an error or its timeout.             *)
SmokeDrains ==
  /\ cpc = "drain"
  /\ Close("client", "fin") /\ cpc' = "judge"
  /\ UNCHANGED <<handler, result, unlessClient>>

(* The line is looked for until a deadline; then the server is terminated. *)
(* The deadline is tested between two reads that block: nothing is assumed *)
(* fair here, for a server that logs no verdict may hold the driver up.    *)
SmokeJudges ==
  /\ cpc = "judge"
  /\ Finish(IF verdict = plan.mode THEN "pass" ELSE "fail")
  /\ UNCHANGED <<handler, wireVars, unlessClient>>

SmokeTerminates ==
  /\ client = "smoke" /\ cpc = "done"
  /\ StopServer("terminated")

Smoke ==
  \/ /\ client = "smoke"
     /\ \/ Connect("send") \/ ConnectFails("fail")
        \/ SendFrame("send", plan.greet, "half", "fail")
        \/ SmokeHalfCloses \/ SmokeDrains \/ SmokeJudges
  \/ SmokeTerminates

-----------------------------------------------------------------------------
(* All the client will ever send.                                          *)
Whole == plan.greet \o plan.post

(* However the stream is cut into pieces, the verdict is that on the whole *)
(* handshake, up to the maximum, unless the server took a pause for its    *)
(* end (greet_server.py:248-275).                                          *)
VerdictOnWholePayload ==
  verdict # "none" /\ ~paused /\ client # "probe" =>
    verdict = parse_handshake(
                IF Len(Whole) <= flags.max THEN Whole
                ELSE SubSeq(Whole, 1, flags.max), flags.cfg)

(* Every scenario of the catalogue gets the verdict it names, unless the   *)
(* server took a pause (_validator_smoke.py:52-154).                       *)
ScenarioVerdicts ==
  client = "smoke" /\ verdict # "none" /\ ~paused => verdict = plan.mode
=============================================================================
