---------------------------- MODULE GreeterProofs -----------------------------
(***************************************************************************)
(* Proofs about Greeter and Probe under Probe's specification: the verdict *)
(* does not depend on how the handshake's stream is cut, the catalogue of  *)
(* scenarios agrees with the validator, the types are kept, every listener *)
(* is probed once, and the probe's tags tell the truth.                    *)
(***************************************************************************)
EXTENDS Probe, SequenceTheorems, FiniteSetTheorems, TLAPS

-----------------------------------------------------------------------------
(* The behaviours of the two clients that send a handshake.  What the      *)
(* server has is a prefix of what was written, what was written is nothing *)
(* yet, the first frame or both, and a client that has stopped writing     *)
(* early does so only because the server has closed its side.              *)

WireTypes ==
  /\ sent \in [Side -> Seq(Byte)]
  /\ arrived \in [Side -> Nat] /\ taken \in [Side -> Nat]
  /\ closed \in [Side -> {"open", "half", "fin", "rst"}]
  /\ reset \in [Side -> BOOLEAN]

Told ==
  /\ client \in {"prelauncher", "smoke"}
  /\ flags.max \in Nat /\ flags.response \in Seq(Byte)
  /\ plan.greet \in Seq(Byte) /\ plan.post \in Seq(Byte)
  /\ client = "smoke" => plan.post = <<>>
  /\ client = "prelauncher" => plan.mode \in {"fin", "rst"}

PayloadIsPrefix ==
  /\ payload \in Seq(Byte)
  /\ Len(payload) = taken["client"] /\ taken["client"] <= Len(sent["client"])
  /\ Len(payload) <= flags.max
  /\ \A i \in 1..Len(payload) : payload[i] = sent["client"][i]

ServerSide ==
  /\ handler \in {"none", "reading", "responding", "closing", "closed"}
  /\ handler \in {"none", "reading"} => verdict = "none"
  /\ cpc = "connect" => handler = "none"
  /\ handler # "closed" => closed["server"] = "open"
  /\ reset["client"] => closed["server"] # "open"

ClientSide ==
  /\ sent["client"] \in {<<>>, plan.greet, Whole}
  /\ cpc \in {"connect", "greet", "send"} => sent["client"] = <<>>
  /\ cpc = "post" => sent["client"] = plan.greet
  /\ cpc \in {"close", "half", "drain", "judge"} => sent["client"] = Whole
  /\ cpc \in {"connect", "greet", "send", "post", "close", "half"}
       => closed["client"] = "open"
  /\ \/ closed["client"] = "open"
     \/ sent["client"] = Whole
     \/ closed["server"] # "open"

HandshakeInv ==
  client # "probe" =>
    /\ Told /\ WireTypes /\ PayloadIsPrefix /\ ServerSide /\ ClientSide
    /\ VerdictOnWholePayload

(* The catalogue's payloads are bytes, and no scenario has a second frame. *)
LEMMA ScenarioPayloads ==
  ASSUME NEW s \in DEFAULT_SCENARIOS
  PROVE  s.payload \in Seq(Byte)
<1>1. Secret \in Seq(Byte)
  BY DEF Secret, Byte
<1>2. /\ <<170, 85>> \in Seq(Byte) /\ <<170, 85, 255, 1>> \in Seq(Byte)
      /\ <<187, 85, 255, 1>> \in Seq(Byte) /\ <<170, 85, 2>> \in Seq(Byte)
      /\ <<170, 85, 3>> \in Seq(Byte) /\ <<170, 85, 4>> \in Seq(Byte)
      /\ <<0>> \in Seq(Byte) /\ <<222, 173, 190, 239>> \in Seq(Byte)
  BY DEF Byte
<1>3. /\ <<170, 85, 1, 0, 0, 0, 7, 238>> \in Seq(Byte)
      /\ <<170, 85, 231, 3, 0, 0, 7>> \in Seq(Byte)
      /\ <<222, 173, 190, 239, 202, 254, 186, 190>> \in Seq(Byte)
  BY DEF Byte
<1>4. <<222, 173, 190, 239>> \o Secret \o <<0>> \in Seq(Byte)
  BY <1>1, <1>2, ConcatProperties
<1>5. \A cli, expect : \A p \in Seq(Byte) :
        Scenario(cli, p, expect).payload \in Seq(Byte)
  BY DEF Scenario
<1>6. CASE s = Scenario(NoFlags, <<170, 85>>, "REJECTED")
  BY <1>2, <1>3, <1>4, <1>5, <1>6, Zenon
<1>7. CASE s = Scenario(Magic, <<170, 85, 255, 1>>, "ACCEPTED")
  BY <1>2, <1>3, <1>4, <1>5, <1>7, Zenon
<1>8. CASE s = Scenario(Magic, <<187, 85, 255, 1>>, "REJECTED")
  BY <1>2, <1>3, <1>4, <1>5, <1>8, Zenon
<1>9. CASE s = Scenario(Exact(2), <<170, 85, 2>>, "ACCEPTED")
  BY <1>2, <1>3, <1>4, <1>5, <1>9, Zenon
<1>10. CASE s = Scenario(Exact(2), <<170, 85, 3>>, "REJECTED")
  BY <1>2, <1>3, <1>4, <1>5, <1>10, Zenon
<1>11. CASE s = Scenario(Between(1, 3), <<170, 85, 2>>, "ACCEPTED")
  BY <1>2, <1>3, <1>4, <1>5, <1>11, Zenon
<1>12. CASE s = Scenario(Between(1, 3), <<170, 85, 4>>, "REJECTED")
  BY <1>2, <1>3, <1>4, <1>5, <1>12, Zenon
<1>13. CASE s = Scenario(Prefixed, <<170, 85, 1, 0, 0, 0, 7, 238>>, "ACCEPTED")
  BY <1>2, <1>3, <1>4, <1>5, <1>13, Zenon
<1>14. CASE s = Scenario(Prefixed, <<170, 85, 231, 3, 0, 0, 7>>, "REJECTED")
  BY <1>2, <1>3, <1>4, <1>5, <1>14, Zenon
<1>15. CASE s = Scenario(Token, <<222, 173, 190, 239>> \o Secret \o <<0>>, "ACCEPTED")
  BY <1>2, <1>3, <1>4, <1>5, <1>15, Zenon
<1>16. CASE s = Scenario(Token, <<222, 173, 190, 239, 202, 254, 186, 190>>, "REJECTED")
  BY <1>2, <1>3, <1>4, <1>5, <1>16, Zenon
<1> QED BY <1>6, <1>7, <1>8, <1>9, <1>10, <1>11, <1>12, <1>13, <1>14, <1>15, <1>16, Zenon DEF DEFAULT_SCENARIOS

(* It holds before anything is sent.                                       *)
LEMMA HandshakeInvInit ==
  ASSUME Init
  PROVE  HandshakeInv
<1> SUFFICES ASSUME client # "probe"
             PROVE  /\ Told /\ WireTypes /\ PayloadIsPrefix /\ ServerSide
                    /\ ClientSide /\ VerdictOnWholePayload
  BY DEF HandshakeInv
<1>1. /\ <<>> \in Seq(Byte) /\ Len(<<>>) = 0
  BY EmptySeq
<1>2. Told
  <2>1. CASE client = "prelauncher" /\ PrelauncherInit
    <3>1. PICK s \in DEFAULT_SCENARIOS, r \in Responses, max \in MaxHandshake :
            flags = Flags(s.cli, r, max)
      BY <2>1 DEF PrelauncherInit
    <3>2. PICK g \in Payloads, p \in Payloads, mode \in {"fin", "rst"} :
            plan = Plan(g, IF g = <<>> THEN <<>> ELSE p, mode)
      BY <2>1 DEF PrelauncherInit
    <3> QED BY <1>1, <2>1, <3>1, <3>2, GreeterAssumption
            DEF Flags, Plan, Told
  <2>2. CASE client = "smoke" /\ SmokeInit
    <3>1. PICK s \in DEFAULT_SCENARIOS :
            /\ flags = Flags(s.cli, <<>>, 4096)
            /\ plan = Plan(s.payload, <<>>, s.expect)
      BY <2>2 DEF SmokeInit
    <3> QED BY <1>1, <2>2, <3>1, ScenarioPayloads DEF Flags, Plan, Told
  <2> QED BY <2>1, <2>2 DEF Init, ProbeInit
<1>3. /\ WireTypes /\ sent["client"] = <<>> /\ taken["client"] = 0
      /\ closed["client"] = "open" /\ closed["server"] = "open"
      /\ ~reset["client"]
  BY <1>1 DEF Init, GreeterInit, FreshWire, WireTypes, Side
<1>4. payload = <<>> /\ handler = "none" /\ verdict = "none" /\ cpc = "connect"
  BY DEF Init, GreeterInit
<1>5. PayloadIsPrefix
  BY <1>1, <1>2, <1>3, <1>4 DEF PayloadIsPrefix, Told
<1> QED BY <1>2, <1>3, <1>4, <1>5
        DEF ServerSide, ClientSide, VerdictOnWholePayload

-----------------------------------------------------------------------------
(* Reading.                                                                *)

Parts == /\ Told /\ WireTypes /\ PayloadIsPrefix /\ ServerSide /\ ClientSide
         /\ VerdictOnWholePayload

(* What has arrived and was not read is the next piece of what was sent.   *)
LEMMA HereIsNext ==
  ASSUME WireTypes, PayloadIsPrefix
  PROVE  /\ Here("client") \in Seq(Byte)
         /\ Len(Here("client")) <= Len(sent["client"]) - taken["client"]
         /\ \A i \in 1..Len(Here("client")) :
              Here("client")[i] = sent["client"][taken["client"] + i]
<1> DEFINE s == sent["client"]
           t == taken["client"]
           n == IF arrived["client"] > Len(s) THEN Len(s) ELSE arrived["client"]
<1>1. /\ s \in Seq(Byte) /\ t \in Nat /\ arrived["client"] \in Nat
      /\ Len(s) \in Nat /\ t <= Len(s)
  BY LenProperties DEF WireTypes, PayloadIsPrefix, Side
<1>2. n \in Nat /\ n <= Len(s)
  BY <1>1
<1>3. \A i \in t + 1..n : s[i] \in Byte
  BY <1>1, <1>2, LenProperties
<1>4. Here("client") = SubSeq(s, t + 1, n)
  BY DEF Here
<1> HIDE DEF s, t, n
<1>5. /\ SubSeq(s, t + 1, n) \in Seq(Byte)
      /\ Len(SubSeq(s, t + 1, n)) = IF t + 1 <= n THEN n - (t + 1) + 1 ELSE 0
      /\ \A i \in 1..n - (t + 1) + 1 :
           SubSeq(s, t + 1, n)[i] = s[t + 1 + i - 1]
  BY <1>1, <1>2, <1>3, SubSeqProperties
<1>6. \A i \in 1..n - t : SubSeq(s, t + 1, n)[i] = s[t + i]
  BY <1>1, <1>2, <1>5
<1>7. Len(SubSeq(s, t + 1, n)) <= Len(s) - t
  BY <1>1, <1>2, <1>5
<1>8. \A i \in 1..Len(SubSeq(s, t + 1, n)) :
        SubSeq(s, t + 1, n)[i] = s[t + i]
  BY <1>1, <1>2, <1>5, <1>6
<1> QED BY <1>4, <1>5, <1>7, <1>8 DEF s, t

(* A read appends the next piece of what was sent.                         *)
LEMMA ReadKeepsPrefix ==
  ASSUME WireTypes, PayloadIsPrefix, flags.max \in Nat, ReadChunk
  PROVE  PayloadIsPrefix' /\ WireTypes'
<1> DEFINE here == Here("client")
           room == flags.max - Len(payload)
           n == IF Len(here) < room THEN Len(here) ELSE room
           piece == SubSeq(here, 1, n)
<1>1. /\ here \in Seq(Byte) /\ Len(here) \in Nat
      /\ Len(here) <= Len(sent["client"]) - taken["client"]
      /\ \A i \in 1..Len(here) : here[i] = sent["client"][taken["client"] + i]
  BY HereIsNext, LenProperties
<1>2. /\ payload \in Seq(Byte) /\ Len(payload) \in Nat
      /\ Len(payload) = taken["client"] /\ flags.max \in Nat
      /\ Len(payload) < flags.max /\ Len(sent["client"]) \in Nat
      /\ sent["client"] \in Seq(Byte)
  BY LenProperties
     DEF ReadChunk, PayloadIsPrefix, WireTypes, Side
<1>3. n \in Nat /\ n <= Len(here) /\ Len(payload) + n <= flags.max
  BY <1>1, <1>2
<1>4. /\ payload' = payload \o piece /\ sent' = sent
      /\ UNCHANGED <<arrived, closed, reset, flags>>
      /\ taken' = [taken EXCEPT !["client"] = @ + n]
  BY DEF ReadChunk, Read, Other, unlessServer
<1> HIDE DEF here, room, n
<1>5. /\ piece \in Seq(Byte) /\ Len(piece) = n
      /\ \A i \in 1..n : piece[i] = here[i]
  <2>1. \A i \in 1..n : here[i] \in Byte
    BY <1>1, <1>3, LenProperties
  <2>2. /\ piece \in Seq(Byte)
        /\ Len(piece) = IF 1 <= n THEN n - 1 + 1 ELSE 0
        /\ \A i \in 1..n - 1 + 1 : piece[i] = here[1 + i - 1]
    BY <1>3, <2>1, SubSeqProperties
  <2> QED BY <1>3, <2>2
<1> HIDE DEF piece
<1>6. /\ payload' \in Seq(Byte) /\ Len(payload') = Len(payload) + n
      /\ \A i \in 1..Len(payload) + n :
           payload'[i] = IF i <= Len(payload) THEN payload[i]
                         ELSE piece[i - Len(payload)]
  BY <1>2, <1>4, <1>5, ConcatProperties
<1>7. taken' \in [Side -> Nat] /\ taken'["client"] = taken["client"] + n
  BY <1>3, <1>4 DEF WireTypes, Side
<1>8. \A i \in 1..Len(payload') : payload'[i] = sent["client"][i]
  <2> SUFFICES ASSUME NEW i \in 1..Len(payload) + n
               PROVE  payload'[i] = sent["client"][i]
    BY <1>6
  <2>1. CASE i <= Len(payload)
    <3>1. payload[i] = sent["client"][i]
      BY <1>2, <1>3, <2>1 DEF PayloadIsPrefix
    <3> QED BY <1>6, <2>1, <3>1
  <2>2. CASE ~(i <= Len(payload))
    <3>1. i - Len(payload) \in 1..n
      BY <1>2, <1>3, <2>2
    <3>2. piece[i - Len(payload)] = here[i - Len(payload)]
      BY <1>5, <3>1
    <3>3. i - Len(payload) \in 1..Len(here)
      BY <1>1, <1>3, <3>1
    <3>4. here[i - Len(payload)] = sent["client"][taken["client"]
                                                    + (i - Len(payload))]
      BY <1>1, <3>3
    <3>5. taken["client"] + (i - Len(payload)) = i
      BY <1>2, <1>3
    <3>6. payload'[i] = piece[i - Len(payload)]
      BY <1>6, <2>2
    <3> QED BY <3>2, <3>4, <3>5, <3>6
  <2> QED BY <2>1, <2>2
<1>9. /\ Len(payload') = taken'["client"] /\ taken'["client"] <= Len(sent'["client"])
      /\ Len(payload') <= flags'.max
  BY <1>1, <1>2, <1>3, <1>4, <1>6, <1>7
<1> QED BY <1>4, <1>6, <1>7, <1>8, <1>9
        DEF WireTypes, PayloadIsPrefix

(* What was written is a prefix of all the client will send.               *)
LEMMA SentIsPrefix ==
  ASSUME Parts
  PROVE  /\ Whole \in Seq(Byte) /\ Len(sent["client"]) <= Len(Whole)
         /\ \A i \in 1..Len(sent["client"]) : sent["client"][i] = Whole[i]
<1> DEFINE g == plan.greet
           p == plan.post
           s == sent["client"]
<1>1. g \in Seq(Byte) /\ p \in Seq(Byte) /\ s \in {<<>>, g, g \o p}
  BY DEF Parts, Told, ClientSide, Whole
<1> HIDE DEF g, p, s
<1>2. /\ g \o p \in Seq(Byte) /\ Len(g \o p) = Len(g) + Len(p)
      /\ \A i \in 1..Len(g) + Len(p) :
           (g \o p)[i] = IF i <= Len(g) THEN g[i] ELSE p[i - Len(g)]
  BY <1>1, ConcatProperties
<1>3. Len(g) \in Nat /\ Len(p) \in Nat /\ Len(<<>>) = 0
  BY <1>1, LenProperties, EmptySeq
<1>4. \A i \in 1..Len(g) : (g \o p)[i] = g[i]
  BY <1>2, <1>3
<1>5. Len(s) <= Len(g \o p) /\ \A i \in 1..Len(s) : s[i] = (g \o p)[i]
  <2>1. CASE s = <<>>
    BY <1>2, <1>3, <2>1
  <2>2. CASE s = g
    BY <1>2, <1>3, <1>4, <2>2
  <2>3. CASE s = g \o p
    BY <1>2, <1>3, <2>3
  <2> QED BY <1>1, <2>1, <2>2, <2>3
<1> QED BY <1>2, <1>5 DEF Whole, g, p, s

(* When the reading ends without a pause, the payload is all there is, or  *)
(* as much of it as the maximum allows.                                    *)
LEMMA PayloadAtEnd ==
  ASSUME Parts, ReadEnds, ~paused'
  PROVE  payload = IF Len(Whole) <= flags.max THEN Whole
                   ELSE SubSeq(Whole, 1, flags.max)
<1>1. /\ payload \in Seq(Byte) /\ Len(payload) \in Nat /\ flags.max \in Nat
      /\ Len(payload) = taken["client"]
      /\ Len(payload) <= Len(sent["client"]) /\ Len(sent["client"]) \in Nat
      /\ \A i \in 1..Len(payload) : payload[i] = sent["client"][i]
  BY LenProperties DEF Parts, PayloadIsPrefix, Told, WireTypes, Side
<1>2. /\ Whole \in Seq(Byte) /\ Len(Whole) \in Nat
      /\ Len(sent["client"]) <= Len(Whole)
      /\ \A i \in 1..Len(payload) : payload[i] = Whole[i]
  BY <1>1, SentIsPrefix, LenProperties
<1>3. handler = "reading" /\ closed["server"] = "open"
  BY DEF ReadEnds, Parts, ServerSide
<1>4. CASE Len(payload) = flags.max
  <2>1. CASE Len(Whole) <= flags.max
    <3>1. Len(payload) = Len(Whole)
      BY <1>1, <1>2, <1>4, <2>1
    <3> QED BY <1>1, <1>2, <2>1, <3>1, SeqEqual
  <2>2. CASE ~(Len(Whole) <= flags.max)
    <3> DEFINE cut == SubSeq(Whole, 1, flags.max)
    <3>1. \A i \in 1..flags.max : Whole[i] \in Byte
      BY <1>1, <1>2, <2>2, LenProperties
    <3>2. /\ cut \in Seq(Byte)
          /\ Len(cut) = IF 1 <= flags.max THEN flags.max - 1 + 1 ELSE 0
          /\ \A i \in 1..flags.max - 1 + 1 : cut[i] = Whole[1 + i - 1]
      BY <1>1, <3>1, SubSeqProperties
    <3> HIDE DEF cut
    <3>3. Len(cut) = Len(payload) /\ \A i \in 1..Len(payload) : cut[i] = Whole[i]
      BY <1>1, <1>4, <3>2
    <3>4. payload = cut
      BY <1>1, <1>2, <3>2, <3>3, SeqEqual
    <3> QED BY <2>2, <3>4 DEF cut
  <2> QED BY <2>1, <2>2
<1>5. CASE Len(payload) # flags.max
  <2>1. ~(InFlight("client") > 0) /\ closed["client"] # "open"
        /\ Len(payload) < flags.max
    <3>1. Len(payload) < flags.max
      BY <1>1, <1>5 DEF Parts, PayloadIsPrefix
    <3> QED BY <3>1 DEF ReadEnds
  <2>2. sent["client"] = Whole
    BY <1>3, <2>1 DEF Parts, ClientSide
  <2>3. Len(payload) = Len(Whole)
    BY <1>1, <1>2, <2>1, <2>2 DEF InFlight
  <2>4. payload = Whole
    BY <1>1, <1>2, <2>3, SeqEqual
  <2> QED BY <1>1, <2>1, <2>3, <2>4
<1> QED BY <1>4, <1>5

-----------------------------------------------------------------------------
(* The steps.                                                              *)

(* A step that reads nothing keeps the prefix if what was sent grows only. *)
LEMMA PrefixKept ==
  ASSUME WireTypes, PayloadIsPrefix, UNCHANGED <<payload, flags>>,
         UNCHANGED taken["client"],
         \/ sent'["client"] = sent["client"]
         \/ \E bytes \in Seq(Byte) : sent'["client"] = sent["client"] \o bytes
  PROVE  PayloadIsPrefix'
<1> DEFINE s == sent["client"]
<1>1. /\ s \in Seq(Byte) /\ Len(s) \in Nat /\ payload \in Seq(Byte)
      /\ Len(payload) \in Nat /\ Len(payload) <= Len(s)
      /\ \A i \in 1..Len(payload) : payload[i] = s[i]
  BY LenProperties DEF WireTypes, PayloadIsPrefix, Side
<1>2. CASE sent'["client"] = s
  BY <1>1, <1>2 DEF PayloadIsPrefix
<1>3. CASE \E bytes \in Seq(Byte) : sent'["client"] = s \o bytes
  <2>1. PICK bytes \in Seq(Byte) : sent'["client"] = s \o bytes
    BY <1>3
  <2> HIDE DEF s
  <2>2. /\ Len(bytes) \in Nat /\ Len(s \o bytes) = Len(s) + Len(bytes)
        /\ \A i \in 1..Len(s) + Len(bytes) :
             (s \o bytes)[i] = IF i <= Len(s) THEN s[i] ELSE bytes[i - Len(s)]
    BY <1>1, ConcatProperties, LenProperties
  <2>3. \A i \in 1..Len(payload) : (s \o bytes)[i] = s[i]
    BY <1>1, <2>2
  <2>4. Len(payload) <= Len(s \o bytes)
    BY <1>1, <2>2
  <2> QED BY <1>1, <2>1, <2>3, <2>4 DEF PayloadIsPrefix
<1> QED BY <1>2, <1>3

(* Delivery changes nothing but what has arrived.                          *)
LEMMA WireStep ==
  ASSUME Parts, Wire
  PROVE  Parts'
<1> USE DEF Parts, Told, WireTypes, ServerSide, ClientSide, Whole, serverVars,
            VerdictOnWholePayload, PayloadIsPrefix
<1>1. UNCHANGED <<client, flags, plan, server, handler, payload, verdict, cpc,
                  result, paused, sent, taken, closed>>
  BY DEF Wire, Deliver, DeliverReset
<1>2. arrived' \in [Side -> Nat]
  <2>1. PICK s \in Side : Deliver(s) \/ DeliverReset(s)
    BY DEF Wire
  <2>2. CASE Deliver(s)
    <3>1. PICK n \in arrived[s] + 1 ..
                  Len(sent[s]) + (IF closed[s] = "open" THEN 0 ELSE 1) :
            arrived' = [arrived EXCEPT ![s] = n]
      BY <2>2 DEF Deliver
    <3>2. arrived[s] \in Nat /\ Len(sent[s]) \in Nat
      BY LenProperties
    <3>3. n \in Nat
      BY <3>1, <3>2
    <3> QED BY <3>1, <3>3
  <2>3. CASE DeliverReset(s)
    BY <2>3 DEF DeliverReset
  <2> QED BY <2>1, <2>2, <2>3
<1>3. /\ reset' \in [Side -> BOOLEAN]
      /\ reset'["client"] => closed["server"] # "open"
  <2>1. PICK s \in Side : Deliver(s) \/ DeliverReset(s)
    BY DEF Wire
  <2>2. CASE Deliver(s)
    BY <2>2 DEF Deliver
  <2>3. CASE DeliverReset(s)
    BY <2>3 DEF DeliverReset, Other, Side
  <2> QED BY <2>1, <2>2, <2>3
<1> QED BY <1>1, <1>2, <1>3

(* The end of the reading is where the verdict is given.                   *)
LEMMA ReadEndsStep ==
  ASSUME Parts, ReadEnds
  PROVE  Parts'
<1>1. /\ UNCHANGED <<client, flags, plan, cpc, result, server, payload>>
      /\ UNCHANGED <<sent, arrived, taken, closed, reset>>
  BY DEF ReadEnds, unlessServer, wireVars
<1>2. /\ handler = "reading" /\ handler' \in {"responding", "closing"}
      /\ verdict' = parse_handshake(payload, flags.cfg)
  BY DEF ReadEnds
<1>3. Told' /\ WireTypes' /\ PayloadIsPrefix'
  BY <1>1 DEF Parts, Told, WireTypes, PayloadIsPrefix
<1>4. ServerSide' /\ ClientSide'
  BY <1>1, <1>2 DEF Parts, ServerSide, ClientSide, Whole
<1>5. VerdictOnWholePayload'
  BY <1>1, <1>2, PayloadAtEnd DEF VerdictOnWholePayload, Whole
<1> QED BY <1>3, <1>4, <1>5 DEF Parts

(* The server only reads the stream of the client.                         *)
LEMMA ServerStep ==
  ASSUME Parts, ServerNext \/ StopServer("terminated")
  PROVE  Parts'
<1> USE DEF Parts, unlessServer, wireVars
<1>1. UNCHANGED <<client, flags, plan, cpc, result>>
  BY DEF ServerNext, Handler, StartServer, ReadChunk, ReadEnds, ReadBreaks,
         Respond, CloseClient, StopServer
<1>2. Told'
  BY <1>1 DEF Told
<1>3. CASE ReadChunk
  <2>1. PayloadIsPrefix' /\ WireTypes'
    BY <1>3, ReadKeepsPrefix DEF Told
  <2>2. UNCHANGED <<handler, verdict, paused, sent, closed, reset>>
    BY <1>3 DEF ReadChunk, Read
  <2> QED BY <1>1, <1>2, <2>1, <2>2
          DEF ServerSide, ClientSide, Whole, VerdictOnWholePayload
<1>4. CASE ReadEnds
  BY <1>4, ReadEndsStep
<1>5. CASE StartServer \/ ReadBreaks
  BY <1>1, <1>2, <1>5
     DEF StartServer, ReadBreaks, WireTypes, PayloadIsPrefix, ServerSide,
         ClientSide, Whole, VerdictOnWholePayload
<1>6. CASE Respond
  <2>1. /\ handler = "responding" /\ handler' = "closing"
        /\ UNCHANGED <<payload, verdict, paused, arrived, taken, closed, reset>>
    BY <1>6 DEF Respond, Write
  <2>2. sent' \in [Side -> Seq(Byte)] /\ sent'["client"] = sent["client"]
    <3>1. sent["server"] \o flags.response \in Seq(Byte)
      BY ConcatProperties DEF Told, WireTypes, Side
    <3> QED BY <1>6, <3>1 DEF Respond, Write, WireTypes, Side
  <2> QED BY <1>1, <1>2, <2>1, <2>2
          DEF WireTypes, PayloadIsPrefix, ServerSide, ClientSide, Whole,
              VerdictOnWholePayload
<1>7. CASE CloseClient \/ StopServer("exit 0") \/ StopServer("terminated")
  <2>1. UNCHANGED <<payload, verdict, paused, sent, arrived, taken, reset>>
    BY <1>7 DEF CloseClient, StopServer, Close
  <2>2. /\ closed' \in [Side -> {"open", "half", "fin", "rst"}]
        /\ closed'["client"] = closed["client"]
        /\ \/ handler' = "closed" /\ closed'["server"] = "fin"
           \/ handler' = handler /\ closed' = closed
    BY <1>7 DEF CloseClient, StopServer, Close, WireTypes, Side
  <2>3. PayloadIsPrefix'
    BY <1>1, <2>1 DEF PayloadIsPrefix
  <2>4. WireTypes'
    BY <2>1, <2>2 DEF WireTypes
  <2>5. ServerSide'
    <3>1. CASE handler' = "closed" /\ closed'["server"] = "fin"
      <4>1. cpc # "connect"
        BY <1>7, <3>1 DEF CloseClient, StopServer, ServerSide
      <4> QED BY <1>1, <2>1, <3>1, <4>1 DEF ServerSide
    <3>2. CASE handler' = handler /\ closed' = closed
      BY <1>1, <2>1, <3>2 DEF ServerSide
    <3> QED BY <2>2, <3>1, <3>2
  <2>6. ClientSide'
    BY <1>1, <2>1, <2>2 DEF ClientSide, Whole
  <2> QED BY <1>1, <1>2, <2>1, <2>3, <2>4, <2>5, <2>6
          DEF Whole, VerdictOnWholePayload
<1> QED BY <1>3, <1>4, <1>5, <1>6, <1>7 DEF ServerNext, Handler

(* One frame: all of it, or none because the server has closed.            *)
LEMMA FrameStep ==
  ASSUME Parts, NEW bytes \in Seq(Byte), NEW at, NEW next, NEW r,
         SendFrame(at, bytes, next, r),
         at \in {"greet", "send", "post"}, next \in {"post", "close", "half"},
         sent["client"] \o bytes \in {plan.greet, Whole},
         next = "post" => sent["client"] \o bytes = plan.greet,
         next # "post" => sent["client"] \o bytes = Whole,
         closed["client"] = "open"
  PROVE  Parts'
<1> USE DEF Parts, unlessClient, wireVars
<1>1. UNCHANGED <<client, flags, plan, server, payload, verdict, paused, handler,
                  arrived, taken, reset>>
  BY DEF SendFrame, Close, Write
<1>2. CASE reset["client"] /\ bytes # <<>>
  <2>1. /\ sent' = sent /\ cpc' = "done" /\ closed' = [closed EXCEPT !["client"] = "fin"]
    BY <1>2 DEF SendFrame, Close, Finish
  <2> QED BY <1>1, <1>2, <2>1
          DEF Told, WireTypes, PayloadIsPrefix, ServerSide, ClientSide, Whole,
              VerdictOnWholePayload, Side
<1>3. CASE ~(reset["client"] /\ bytes # <<>>)
  <2>1. /\ sent' = [sent EXCEPT !["client"] = @ \o bytes] /\ cpc' = next
        /\ closed' = closed
    BY <1>3 DEF SendFrame, Write
  <2>2. sent["client"] \o bytes \in Seq(Byte)
    BY ConcatProperties DEF WireTypes, Side
  <2>3. sent' \in [Side -> Seq(Byte)] /\ sent'["client"] = sent["client"] \o bytes
    BY <2>1, <2>2 DEF WireTypes, Side
  <2>4. PayloadIsPrefix'
    BY <1>1, <2>3, PrefixKept
  <2>5. ClientSide'
    BY <1>1, <2>1, <2>3 DEF ClientSide, Whole
  <2>6. ServerSide'
    BY <1>1, <2>1 DEF ServerSide
  <2> QED BY <1>1, <2>1, <2>3, <2>4, <2>5, <2>6
          DEF Told, WireTypes, Whole, VerdictOnWholePayload
<1> QED BY <1>2, <1>3

(* A client sends its frames in order, then closes.                        *)
LEMMA ClientStep ==
  ASSUME Parts, Prelauncher \/ (Smoke /\ ~SmokeTerminates)
  PROVE  Parts'
<1> USE DEF Parts, unlessClient, wireVars
<1>1. ASSUME Connect("greet") \/ Connect("send") PROVE Parts'
  <2>1. /\ handler = "none" /\ handler' = "reading" /\ cpc = "connect"
        /\ cpc' \in {"greet", "send"}
    BY <1>1 DEF Connect, ServerSide
  <2>2. UNCHANGED <<client, flags, plan, payload, verdict, paused, wireVars>>
    BY <1>1 DEF Connect
  <2> QED BY <2>1, <2>2
          DEF Told, WireTypes, PayloadIsPrefix, ServerSide, ClientSide, Whole,
              VerdictOnWholePayload
<1>2. ASSUME \/ ConnectFails("exit 1") \/ ConnectFails("fail")
             \/ SmokeJudges
      PROVE  Parts'
  <2>1. /\ UNCHANGED <<client, flags, plan, payload, verdict, paused, handler,
                       wireVars>>
        /\ cpc' = "done"
    BY <1>2 DEF ConnectFails, SmokeJudges, Finish
  <2> QED BY <2>1
          DEF Told, WireTypes, PayloadIsPrefix, ServerSide, ClientSide, Whole,
              VerdictOnWholePayload
<1>3. ASSUME \/ PrelauncherCloses /\ client = "prelauncher"
             \/ SmokeHalfCloses \/ SmokeDrains
      PROVE  Parts'
  <2>1. /\ UNCHANGED <<client, flags, plan, payload, verdict, paused, handler,
                       sent, arrived, taken, reset>>
        /\ cpc' \in {"done", "drain", "judge"} /\ sent["client"] = Whole
    BY <1>3 DEF PrelauncherCloses, SmokeHalfCloses, SmokeDrains, Close, Finish,
                ClientSide
  <2>2. /\ closed' \in [Side -> {"open", "half", "fin", "rst"}]
        /\ closed'["server"] = closed["server"]
    BY <1>3 DEF PrelauncherCloses, SmokeHalfCloses, SmokeDrains, Close, Told,
                WireTypes, Side
  <2>3. ServerSide'
    BY <1>3, <2>1, <2>2 DEF PrelauncherCloses, SmokeHalfCloses, SmokeDrains,
                            ServerSide
  <2>4. ClientSide'
    BY <2>1, <2>2 DEF ClientSide, Whole
  <2>5. PayloadIsPrefix' /\ WireTypes' /\ Told'
    BY <2>1, <2>2 DEF PayloadIsPrefix, WireTypes, Told
  <2> QED BY <2>1, <2>3, <2>4, <2>5 DEF Whole, VerdictOnWholePayload
<1>4. ASSUME SendFrame("greet", plan.greet, "post", "exit 2") PROVE Parts'
  <2>1. sent["client"] = <<>> /\ plan.greet \in Seq(Byte)
    BY <1>4 DEF SendFrame, ClientSide, Told
  <2>2. sent["client"] \o plan.greet = plan.greet
    BY <2>1, ConcatEmptySeq
  <2>3. closed["client"] = "open"
    BY <1>4 DEF SendFrame, ClientSide
  <2> QED BY <1>4, <2>1, <2>2, <2>3, FrameStep
<1>5. ASSUME SendFrame("post", plan.post, "close", "exit 2") PROVE Parts'
  <2>1. sent["client"] = plan.greet /\ plan.post \in Seq(Byte)
    BY <1>5 DEF SendFrame, ClientSide, Told
  <2>2. closed["client"] = "open"
    BY <1>5 DEF SendFrame, ClientSide
  <2> QED BY <1>5, <2>1, <2>2, FrameStep DEF Whole
<1>6. ASSUME SendFrame("send", plan.greet, "half", "fail"), client = "smoke"
      PROVE  Parts'
  <2>1. /\ sent["client"] = <<>> /\ plan.greet \in Seq(Byte)
        /\ plan.post = <<>>
    BY <1>6 DEF SendFrame, ClientSide, Told
  <2>2. sent["client"] \o plan.greet = plan.greet /\ Whole = plan.greet
    BY <2>1, ConcatEmptySeq DEF Whole
  <2>3. closed["client"] = "open"
    BY <1>6 DEF SendFrame, ClientSide
  <2> QED BY <1>6, <2>1, <2>2, <2>3, FrameStep
<1>7. CASE Prelauncher
  BY <1>1, <1>2, <1>3, <1>4, <1>5, <1>7 DEF Prelauncher
<1>8. CASE Smoke /\ ~SmokeTerminates
  BY <1>1, <1>2, <1>3, <1>6, <1>8 DEF Smoke
<1> QED BY <1>7, <1>8

(* Who the client is and what both ends were told never changes.           *)
LEMMA NothingToldChanges ==
  ASSUME [Next]_vars
  PROVE  UNCHANGED <<client, flags, plan>>
BY DEF Next, Wire, ServerNext, Handler, StartServer, ReadChunk, ReadEnds,
       ReadBreaks, Respond, CloseClient, StopServer, unlessServer,
       Prelauncher, Smoke, Connect, ConnectFails, SendFrame,
       PrelauncherCloses, SmokeHalfCloses, SmokeDrains, SmokeJudges,
       SmokeTerminates, unlessClient, PeerSpeaks, PeerCloses,
       LoseDatagram, ProbeStep, NextListener, ProbeEnds, ProbeConnects,
       DrainChunk, GreetWindowEnds, Nudge, NudgeWindowEnds, Report,
       unlessProbe, vars, greeterVars

(* Every step keeps it.                                                    *)
LEMMA HandshakeInvStep ==
  ASSUME HandshakeInv, [Next]_vars
  PROVE  HandshakeInv'
<1>1. client' = client
  BY NothingToldChanges
<1> SUFFICES ASSUME client # "probe", Parts
             PROVE  Parts'
  BY <1>1 DEF HandshakeInv, Parts
<1>2. CASE Wire \/ ServerNext
  BY <1>2, WireStep, ServerStep
<1>3. CASE Prelauncher \/ Smoke
  <2>1. CASE SmokeTerminates
    BY <2>1, ServerStep DEF SmokeTerminates
  <2>2. CASE ~SmokeTerminates
    BY <1>3, <2>2, ClientStep
  <2> QED BY <2>1, <2>2
<1>4. CASE PeerSpeaks \/ PeerCloses \/ LoseDatagram
  BY <1>4 DEF PeerSpeaks, PeerCloses, LoseDatagram, Parts, ServerSide
<1>5. CASE ProbeStep
  BY <1>5 DEF ProbeStep, NextListener, ProbeEnds
<1>6. CASE UNCHANGED vars
  BY <1>6 DEF vars, greeterVars, serverVars, wireVars, Parts, Told, WireTypes,
              PayloadIsPrefix, ServerSide, ClientSide, Whole,
              VerdictOnWholePayload
<1> QED BY <1>2, <1>3, <1>4, <1>5, <1>6 DEF Next

(* For every payload, maximum, response and command line, and however the  *)
(* stream is cut, delayed or broken off, a verdict given without a pause   *)
(* is the verdict on the whole handshake (greet_server.py:248-275).        *)
THEOREM VerdictIsOnTheWhole == Spec => []VerdictOnWholePayload
<1>1. HandshakeInv => VerdictOnWholePayload
  BY DEF HandshakeInv, VerdictOnWholePayload
<1> QED BY <1>1, HandshakeInvInit, HandshakeInvStep, PTL DEF Spec

-----------------------------------------------------------------------------
(* Bytes.                                                                  *)

(* A byte is a number.                                                     *)
LEMMA ByteIsNat == \A b \in Byte : b \in Nat
BY DEF Byte
(* Every place of a byte string holds a byte.                              *)
LEMMA ByteAt ==
  \A p \in Seq(Byte) : \A i \in 1..Len(p) : p[i] \in Byte /\ p[i] \in Nat
<1> SUFFICES ASSUME NEW p \in Seq(Byte), NEW i \in 1..Len(p) PROVE p[i] \in Byte /\ p[i] \in Nat
 OBVIOUS
<1>1. p[i] \in Byte
  BY ElementOfSeq
<1> QED BY <1>1, ByteIsNat
(* What stands where in two strings put together.                          *)
LEMMA Joined ==
  ASSUME NEW s \in Seq(Byte), NEW t \in Seq(Byte)
  PROVE  /\ s \o t \in Seq(Byte) /\ Len(s \o t) = Len(s) + Len(t)
         /\ \A i \in 1..Len(s) : (s \o t)[i] = s[i]
         /\ \A i \in 1..Len(t) : (s \o t)[Len(s) + i] = t[i]
<1>1. Len(s) \in Nat /\ Len(t) \in Nat
  BY LenProperties
<1>2. /\ s \o t \in Seq(Byte) /\ Len(s \o t) = Len(s) + Len(t)
      /\ \A i \in 1 .. Len(s) + Len(t) : (s \o t)[i] =
                     IF i <= Len(s) THEN s[i] ELSE t[i - Len(s)]
  BY ConcatProperties
<1> QED BY <1>1, <1>2

(* A string with a length is not the empty one.                            *)
LEMMA NonEmpty ==
  ASSUME NEW p \in Seq(Byte), Len(p) # 0
  PROVE  p # <<>>
BY EmptySeq

(* Four bytes are the number they spell from the last to the first.        *)
LEMMA LittleEndianOfFour ==
  ASSUME NEW b \in Seq(Nat), Len(b) = 4
  PROVE  LittleEndian(b) = b[1] + 256 * (b[2] + 256 * (b[3] + 256 * b[4]))
<1> DEFINE four == b[4] + 256 * 0
           three == b[3] + 256 * four
           two == b[2] + 256 * three
           v == [i \in 0..Len(b) |->
                   IF i = 0 THEN b[1] + 256 * two ELSE IF i = 1 THEN two
                   ELSE IF i = 2 THEN three ELSE IF i = 3 THEN four ELSE 0]
           Is(f) == f = [i \in 0..Len(b) |->
                           IF i = Len(b) THEN 0 ELSE b[i + 1] + 256 * f[i + 1]]
<1>1. b[1] \in Nat /\ b[2] \in Nat /\ b[3] \in Nat /\ b[4] \in Nat
  <2>1. \A i \in 1..4 : b[i] \in Nat
    BY ElementOfSeq
  <2> QED BY <2>1
<1>2. Is(v)
  <2>1. \A i \in 0..Len(b) :
          v[i] = IF i = Len(b) THEN 0 ELSE b[i + 1] + 256 * v[i + 1]
    OBVIOUS
  <2> QED BY <2>1
<1>3. PICK f : Is(f) /\ LittleEndian(b) = f[0]
  <2>1. Is(CHOOSE f : Is(f))
    BY <1>2
  <2> QED BY <2>1 DEF LittleEndian
<1>4. /\ f[4] = 0 /\ f[3] = b[4] + 256 * f[4] /\ f[2] = b[3] + 256 * f[3]
      /\ f[1] = b[2] + 256 * f[2] /\ f[0] = b[1] + 256 * f[1]
  BY <1>3
<1> QED BY <1>1, <1>3, <1>4

MagicBytes == <<170, 85>>

Cfg(magic, prefixLen, version, low, high, token) ==
  [magic |-> magic, prefixLen |-> prefixLen, version |-> version,
   version_min |-> low, version_max |-> high, token |-> token]

(* The validators the catalogue asks for. *)
LEMMA CatalogueCfgs ==
  /\ build_validator_cfg(NoFlags) = Cfg({}, 0, {}, {}, {}, {})
  /\ build_validator_cfg(Magic) = Cfg({MagicBytes}, 0, {}, {}, {}, {})
  /\ \A v : build_validator_cfg(Exact(v)) = Cfg({MagicBytes}, 0, {v}, {}, {}, {})
  /\ \A a, b : build_validator_cfg(Between(a, b))
                 = Cfg({MagicBytes}, 0, {}, {a}, {b}, {})
  /\ build_validator_cfg(Prefixed) = Cfg({MagicBytes}, 4, {7}, {}, {}, {})
  /\ build_validator_cfg(Token) = Cfg({}, 0, {}, {}, {}, {Secret})
BY DEF build_validator_cfg, NoFlags, Magic, Exact, Between, Prefixed, Token, Cfg,
       MagicBytes

(* Two payloads share a prefix if they agree on its places.                *)
LEMMA PrefixByPlaces ==
  ASSUME NEW m \in Seq(Byte), NEW p \in Seq(Byte)
  PROVE  IsPrefix(m, p) <=> /\ Len(m) <= Len(p)
                            /\ \A i \in 1..Len(m) : m[i] = p[i]
<1>1. Len(m) \in Nat /\ Len(p) \in Nat
  BY LenProperties
<1>2. SubSeq(m, 1, Len(m)) = m
  BY SubSeqFull
<1>3. ASSUME Len(m) <= Len(p)
      PROVE  /\ SubSeq(p, 1, Len(m)) \in Seq(Byte)
             /\ Len(SubSeq(p, 1, Len(m))) = Len(m)
             /\ \A i \in 1..Len(m) : SubSeq(p, 1, Len(m))[i] = p[i]
  <2>1. \A i \in 1..Len(m) : p[i] \in Byte
    BY <1>1, <1>3, ElementOfSeq
  <2> QED BY <1>1, <2>1, SubSeqProperties
<1>4. ASSUME Len(m) <= Len(p), \A i \in 1..Len(m) : m[i] = p[i]
      PROVE  m = SubSeq(p, 1, Len(m))
  BY <1>3, <1>4, SeqEqual
<1> QED BY <1>2, <1>3, <1>4 DEF IsPrefix

(* The magic number is a prefix of what starts with its two bytes.         *)
LEMMA MagicIsPrefix ==
  ASSUME NEW p \in Seq(Byte), Len(p) >= 2
  PROVE  IsPrefix(MagicBytes, p) <=> p[1] = 170 /\ p[2] = 85
<1>1. MagicBytes \in Seq(Byte) /\ Len(MagicBytes) = 2 /\ MagicBytes[1] = 170
      /\ MagicBytes[2] = 85
  BY DEF Byte, MagicBytes
<1> QED BY <1>1, PrefixByPlaces

(* The scenarios of a magic number, and the one without a validator.       *)
LEMMA MagicScenarios ==
  /\ parse_handshake(<<170, 85>>, build_validator_cfg(NoFlags)) = "REJECTED"
  /\ parse_handshake(<<170, 85, 255, 1>>, build_validator_cfg(Magic)) = "ACCEPTED"
  /\ parse_handshake(<<187, 85, 255, 1>>, build_validator_cfg(Magic)) = "REJECTED"
<1>1. parse_handshake(<<170, 85>>, build_validator_cfg(NoFlags)) = "REJECTED"
  BY CatalogueCfgs DEF Cfg, parse_handshake, validator_cfg_has_any, HasVersion
<1> DEFINE cfg == build_validator_cfg(Magic)
           good == <<170, 85, 255, 1>>
           bad == <<187, 85, 255, 1>>
<1>2. /\ cfg.magic = {MagicBytes} /\ cfg.prefixLen = 0 /\ cfg.version = {}
      /\ cfg.version_min = {} /\ cfg.version_max = {} /\ cfg.token = {}
  BY CatalogueCfgs DEF Cfg
<1>3. /\ good \in Seq(Byte) /\ Len(good) = 4 /\ good[1] = 170 /\ good[2] = 85
      /\ bad \in Seq(Byte) /\ Len(bad) = 4 /\ bad[1] = 187
  BY DEF Byte
<1>4. good # <<>> /\ bad # <<>>
  BY <1>3
<1> HIDE DEF cfg, good, bad
<1>5. IsPrefix(MagicBytes, good) /\ ~IsPrefix(MagicBytes, bad)
  BY <1>3, MagicIsPrefix
<1>6. validate_handshake(good, cfg) /\ ~validate_handshake(bad, cfg)
  BY <1>2, <1>5 DEF validate_handshake, LengthOK, VersionOK, HasVersion
<1>7. validator_cfg_has_any(cfg)
  BY <1>2 DEF validator_cfg_has_any
<1> QED BY <1>1, <1>4, <1>6, <1>7 DEF parse_handshake, cfg, good, bad

(* The cursor stands behind the two bytes of the magic number.             *)
LEMMA CursorAfterMagic ==
  ASSUME NEW cfg, cfg.magic = {MagicBytes}
  PROVE  AfterMagic(cfg) = 2
<1>1. (CHOOSE m \in {MagicBytes} : TRUE) = MagicBytes /\ Len(MagicBytes) = 2
  BY DEF MagicBytes
<1> QED BY <1>1 DEF AfterMagic

(* The magic and a version byte, with no length between them.              *)
LEMMA VersionAfterMagic ==
  ASSUME NEW v \in Byte, NEW cfg, cfg.magic = {MagicBytes}, cfg.prefixLen = 0,
         cfg.token = {}, HasVersion(cfg)
  PROVE  parse_handshake(<<170, 85, v>>, cfg)
           = IF /\ \A u \in cfg.version : v = u
                /\ \A u \in cfg.version_min : v >= u
                /\ \A u \in cfg.version_max : v <= u
             THEN "ACCEPTED" ELSE "REJECTED"
<1> DEFINE p == <<170, 85, v>>
<1>1. /\ p \in Seq(Byte) /\ Len(p) = 3 /\ p[1] = 170 /\ p[2] = 85 /\ p[3] = v
  BY DEF Byte
<1>2. p # <<>>
  BY <1>1
<1> HIDE DEF p
<1>3. IsPrefix(MagicBytes, p) /\ AfterPrefix(cfg) + 1 = 3
  BY <1>1, MagicIsPrefix, CursorAfterMagic DEF AfterPrefix
<1>4. validate_handshake(p, cfg) <=> /\ \A u \in cfg.version : v = u
                                     /\ \A u \in cfg.version_min : v >= u
                                     /\ \A u \in cfg.version_max : v <= u
  BY <1>1, <1>3 DEF validate_handshake, LengthOK, VersionOK
<1> QED BY <1>2, <1>4 DEF parse_handshake, validator_cfg_has_any, p

(* The scenarios of an exact version and of a range.                       *)
LEMMA VersionScenarios ==
  /\ parse_handshake(<<170, 85, 2>>, build_validator_cfg(Exact(2))) = "ACCEPTED"
  /\ parse_handshake(<<170, 85, 3>>, build_validator_cfg(Exact(2))) = "REJECTED"
  /\ parse_handshake(<<170, 85, 2>>, build_validator_cfg(Between(1, 3))) = "ACCEPTED"
  /\ parse_handshake(<<170, 85, 4>>, build_validator_cfg(Between(1, 3))) = "REJECTED"
<1> DEFINE exact == build_validator_cfg(Exact(2))
           range == build_validator_cfg(Between(1, 3))
<1>1. /\ exact.magic = {MagicBytes} /\ exact.prefixLen = 0 /\ exact.token = {}
      /\ exact.version = {2} /\ exact.version_min = {} /\ exact.version_max = {}
  BY CatalogueCfgs DEF Cfg
<1>2. /\ range.magic = {MagicBytes} /\ range.prefixLen = 0 /\ range.token = {}
      /\ range.version = {} /\ range.version_min = {1} /\ range.version_max = {3}
  BY CatalogueCfgs DEF Cfg
<1> HIDE DEF exact, range
<1>3. HasVersion(exact) /\ HasVersion(range)
  BY <1>1, <1>2 DEF HasVersion
<1>4. 2 \in Byte /\ 3 \in Byte /\ 4 \in Byte
  BY DEF Byte
<1>5. /\ parse_handshake(<<170, 85, 2>>, exact) = "ACCEPTED"
      /\ parse_handshake(<<170, 85, 3>>, exact) = "REJECTED"
  BY <1>1, <1>3, <1>4, VersionAfterMagic
<1>6. /\ parse_handshake(<<170, 85, 2>>, range) = "ACCEPTED"
      /\ parse_handshake(<<170, 85, 4>>, range) = "REJECTED"
  BY <1>2, <1>3, <1>4, VersionAfterMagic
<1> QED BY <1>5, <1>6 DEF exact, range

(* A length prefix of four bytes after the magic.                          *)
LEMMA PrefixAfterMagic ==
  ASSUME NEW cfg, cfg.magic = {MagicBytes}, cfg.prefixLen = 4,
         NEW p \in Seq(Byte), Len(p) >= 6
  PROVE  LengthOK(p, cfg)
           <=> p[3] + 256 * (p[4] + 256 * (p[5] + 256 * p[6])) <= Len(p) - 6
<1> DEFINE b == SubSeq(p, 3, 6)
<1>1. AfterMagic(cfg) = 2 /\ AfterPrefix(cfg) = 6 /\ Len(p) \in Nat
  BY CursorAfterMagic, LenProperties DEF AfterPrefix
<1>2. \A i \in 3..6 : p[i] \in Nat
  <2>1. \A i \in 3..6 : i \in 1..Len(p)
    BY <1>1
  <2> QED BY <2>1, ByteAt, Zenon
<1>3. /\ b \in Seq(Nat) /\ Len(b) = 4
      /\ b[1] = p[3] /\ b[2] = p[4] /\ b[3] = p[5] /\ b[4] = p[6]
  BY <1>2, SubSeqProperties
<1> HIDE DEF b
<1>4. LittleEndian(b) = p[3] + 256 * (p[4] + 256 * (p[5] + 256 * p[6]))
  BY <1>3, LittleEndianOfFour
<1> QED BY <1>1, <1>4 DEF LengthOK, b

(* The scenarios of a length prefix, one of them too long.                 *)
LEMMA PrefixScenarios ==
  /\ parse_handshake(<<170, 85, 1, 0, 0, 0, 7, 238>>,
                     build_validator_cfg(Prefixed)) = "ACCEPTED"
  /\ parse_handshake(<<170, 85, 231, 3, 0, 0, 7>>,
                     build_validator_cfg(Prefixed)) = "REJECTED"
<1> DEFINE cfg == build_validator_cfg(Prefixed)
           good == <<170, 85, 1, 0, 0, 0, 7, 238>>
           bad == <<170, 85, 231, 3, 0, 0, 7>>
<1>1. /\ cfg.magic = {MagicBytes} /\ cfg.prefixLen = 4 /\ cfg.token = {}
      /\ cfg.version = {7} /\ cfg.version_min = {} /\ cfg.version_max = {}
  BY CatalogueCfgs DEF Cfg
<1>2. /\ good \in Seq(Byte) /\ Len(good) = 8 /\ good[1] = 170 /\ good[2] = 85
      /\ good[3] = 1 /\ good[4] = 0 /\ good[5] = 0 /\ good[6] = 0 /\ good[7] = 7
  BY DEF Byte
<1>3. /\ bad \in Seq(Byte) /\ Len(bad) = 7 /\ bad[3] = 231 /\ bad[4] = 3
      /\ bad[5] = 0 /\ bad[6] = 0
  BY DEF Byte
<1>4. good # <<>> /\ bad # <<>>
  BY <1>2, <1>3
<1> HIDE DEF cfg, good, bad
<1>5. /\ IsPrefix(MagicBytes, good)
      /\ LengthOK(good, cfg) <=> 1 + 256 * (0 + 256 * (0 + 256 * 0)) <= 8 - 6
      /\ LengthOK(bad, cfg) <=> 231 + 256 * (3 + 256 * (0 + 256 * 0)) <= 7 - 6
  <2>1. Len(good) >= 2 /\ Len(good) >= 6 /\ Len(bad) >= 6
    BY <1>2, <1>3
  <2>2. IsPrefix(MagicBytes, good) <=> good[1] = 170 /\ good[2] = 85
    BY <1>2, <2>1, MagicIsPrefix
  <2>3. LengthOK(good, cfg)
          <=> good[3] + 256 * (good[4] + 256 * (good[5] + 256 * good[6])) <= Len(good) - 6
    BY <1>1, <1>2, <2>1, PrefixAfterMagic, Zenon
  <2>4. LengthOK(bad, cfg)
          <=> bad[3] + 256 * (bad[4] + 256 * (bad[5] + 256 * bad[6])) <= Len(bad) - 6
    BY <1>1, <1>3, <2>1, PrefixAfterMagic, Zenon
  <2> QED BY <1>2, <1>3, <2>2, <2>3, <2>4
<1>6. VersionOK(good, cfg)
  BY <1>1, <1>2, CursorAfterMagic DEF VersionOK, AfterPrefix
<1>7. validate_handshake(good, cfg) /\ ~validate_handshake(bad, cfg)
  BY <1>1, <1>5, <1>6 DEF validate_handshake
<1>8. validator_cfg_has_any(cfg)
  BY <1>1 DEF validator_cfg_has_any
<1> QED BY <1>4, <1>7, <1>8 DEF parse_handshake, cfg, good, bad

(* The scenarios of a token.                                               *)
LEMMA TokenScenarios ==
  /\ parse_handshake(<<222, 173, 190, 239>> \o Secret \o <<0>>,
                     build_validator_cfg(Token)) = "ACCEPTED"
  /\ parse_handshake(<<222, 173, 190, 239, 202, 254, 186, 190>>,
                     build_validator_cfg(Token)) = "REJECTED"
<1> DEFINE cfg == build_validator_cfg(Token)
           head == <<222, 173, 190, 239>>
           zero == <<0>>
           good == head \o Secret \o zero
           bad == <<222, 173, 190, 239, 202, 254, 186, 190>>
<1>1. /\ cfg.magic = {} /\ cfg.prefixLen = 0 /\ cfg.token = {Secret}
      /\ cfg.version = {} /\ cfg.version_min = {} /\ cfg.version_max = {}
  BY CatalogueCfgs DEF Cfg
<1>2. /\ Secret \in Seq(Byte) /\ Len(Secret) = 6 /\ Secret[1] = 115
  BY DEF Byte, Secret
<1>3. /\ head \in Seq(Byte) /\ Len(head) = 4 /\ zero \in Seq(Byte)
      /\ Len(zero) = 1
  BY DEF Byte
<1>4. /\ bad \in Seq(Byte) /\ Len(bad) = 8
      /\ bad[1] = 222 /\ bad[2] = 173 /\ bad[3] = 190
  BY DEF Byte
<1> HIDE DEF cfg, head, bad, zero
<1>5. /\ good \in Seq(Byte) /\ Len(good) = 11
      /\ \A i \in 1..6 : good[4 + i] = Secret[i]
  <2> DEFINE front == head \o Secret
  <2>1. /\ front \in Seq(Byte) /\ Len(front) = Len(head) + Len(Secret)
        /\ \A i \in 1..Len(Secret) : front[Len(head) + i] = Secret[i]
    <3>1. head \in Seq(Byte) /\ Secret \in Seq(Byte)
      BY <1>2, <1>3
    <3> QED BY <3>1, Joined, Zenon
  <2>2. /\ Len(front) = 10
        /\ \A i \in 1..6 : front[4 + i] = Secret[i]
    BY <1>2, <1>3, <2>1
  <2> HIDE DEF front
  <2>3. /\ front \o zero \in Seq(Byte)
        /\ Len(front \o zero) = Len(front) + Len(zero)
        /\ \A i \in 1..Len(front) : (front \o zero)[i] = front[i]
    BY <1>3, <2>1, Joined, Zenon
  <2>4. \A i \in 1..10 : (front \o zero)[i] = front[i]
    BY <2>2, <2>3
  <2>5. ASSUME NEW i \in 1..6 PROVE (front \o zero)[4 + i] = Secret[i]
    <3>1. 4 + i \in 1..10
      OBVIOUS
    <3> QED BY <2>2, <2>4, <3>1, Zenon
  <2>6. Len(front \o zero) = 11
    BY <1>3, <2>2, <2>3
  <2> QED BY <2>3, <2>5, <2>6 DEF front
<1> HIDE DEF good
<1>6. Occurs(Secret, good)
  <2>1. \A i \in 5..10 : good[i] \in Byte
    <3>1. \A i \in 5..10 : i \in 1..Len(good)
      BY <1>5
    <3> QED BY <1>5, <3>1, ByteAt, Zenon
  <2>2. /\ SubSeq(good, 5, 10) \in Seq(Byte) /\ Len(SubSeq(good, 5, 10)) = 6
        /\ \A i \in 1..6 : SubSeq(good, 5, 10)[i] = good[4 + i]
    BY <2>1, SubSeqProperties
  <2>3. Secret = SubSeq(good, 5, 10)
    BY <1>2, <1>5, <2>2, SeqEqual
  <2>4. 4 \in 0..Len(good) - Len(Secret) /\ 4 + Len(Secret) = 10 /\ 4 + 1 = 5
    BY <1>2, <1>5
  <2> QED BY <2>3, <2>4 DEF Occurs
<1>7. ~Occurs(Secret, bad)
  <2> SUFFICES ASSUME NEW i \in 0..2 PROVE Secret # SubSeq(bad, i + 1, i + 6)
    BY <1>2, <1>4 DEF Occurs
  <2>1. \A j \in i + 1..i + 6 : bad[j] \in Byte
    <3>1. \A j \in i + 1..i + 6 : j \in 1..Len(bad)
      BY <1>4
    <3>2. bad \in Seq(Byte)
      BY <1>4
    <3> QED BY <3>1, <3>2, ByteAt, Zenon
  <2>2. SubSeq(bad, i + 1, i + 6)[1] = bad[i + 1]
    BY <2>1, SubSeqProperties
  <2>3. bad[i + 1] \in {222, 173, 190}
    BY <1>4
  <2> QED BY <1>2, <2>2, <2>3
<1>8. validate_handshake(good, cfg) /\ ~validate_handshake(bad, cfg)
  BY <1>1, <1>6, <1>7 DEF validate_handshake, LengthOK, VersionOK, HasVersion
<1>9. good # <<>> /\ bad # <<>> /\ validator_cfg_has_any(cfg)
  <2>1. good # <<>> /\ bad # <<>>
    <3>1. Len(good) # 0 /\ Len(bad) # 0
      BY <1>4, <1>5
    <3> QED BY <1>4, <1>5, <3>1, NonEmpty, Zenon
  <2> QED BY <1>1, <2>1 DEF validator_cfg_has_any
<1> QED BY <1>8, <1>9 DEF parse_handshake, cfg, head, zero, good, bad
(* Every scenario of the catalogue has the verdict it names, and none has  *)
(* a payload that reaches the maximum.                                     *)
LEMMA ScenarioAnswers ==
  ASSUME NEW s \in DEFAULT_SCENARIOS
  PROVE  /\ parse_handshake(s.payload, build_validator_cfg(s.cli)) = s.expect
         /\ Len(s.payload) <= 4096
<1> DEFINE Answer(c, p, e) == /\ parse_handshake(p, build_validator_cfg(c)) = e
                             /\ Len(p) <= 4096
<1>1. ASSUME NEW c, NEW p, NEW e, s = Scenario(c, p, e), Answer(c, p, e)
      PROVE  Answer(s.cli, s.payload, s.expect)
  BY <1>1 DEF Scenario
<1>2. Answer(NoFlags, <<170, 85>>, "REJECTED")
  BY MagicScenarios
<1>3. Answer(Magic, <<170, 85, 255, 1>>, "ACCEPTED")
  BY MagicScenarios
<1>4. Answer(Magic, <<187, 85, 255, 1>>, "REJECTED")
  BY MagicScenarios
<1>5. Answer(Exact(2), <<170, 85, 2>>, "ACCEPTED")
  BY VersionScenarios
<1>6. Answer(Exact(2), <<170, 85, 3>>, "REJECTED")
  BY VersionScenarios
<1>7. Answer(Between(1, 3), <<170, 85, 2>>, "ACCEPTED")
  BY VersionScenarios
<1>8. Answer(Between(1, 3), <<170, 85, 4>>, "REJECTED")
  BY VersionScenarios
<1>9. Answer(Prefixed, <<170, 85, 1, 0, 0, 0, 7, 238>>, "ACCEPTED")
  BY PrefixScenarios
<1>10. Answer(Prefixed, <<170, 85, 231, 3, 0, 0, 7>>, "REJECTED")
  BY PrefixScenarios
<1>11. Answer(Token, <<222, 173, 190, 239>> \o Secret \o <<0>>, "ACCEPTED")
  BY TokenScenarios DEF Secret
<1>12. Answer(Token, <<222, 173, 190, 239, 202, 254, 186, 190>>, "REJECTED")
  BY TokenScenarios
<1> HIDE DEF Answer
<1>13. \E c, p, e : s = Scenario(c, p, e) /\ Answer(c, p, e)
  BY <1>2, <1>3, <1>4, <1>5, <1>6, <1>7, <1>8, <1>9, <1>10, <1>11, <1>12
     DEF DEFAULT_SCENARIOS
<1>14. Answer(s.cli, s.payload, s.expect)
  BY <1>1, <1>13
<1> QED BY <1>14 DEF Answer

(* What the smoke driver and its server were told is one scenario.         *)
ScenarioInv ==
  client = "smoke" =>
    \E s \in DEFAULT_SCENARIOS :
      /\ flags = Flags(s.cli, <<>>, 4096)
      /\ plan = Plan(s.payload, <<>>, s.expect)

(* The verdict of every scenario of the catalogue is the one it names,     *)
(* however its bytes arrive, unless the server took a pause: the smoke     *)
(* driver's table (_validator_smoke.py:52-154) agrees with the validator   *)
(* (greet_server.py:117-201), length prefixes included.                    *)
THEOREM CatalogueHolds == Spec => []ScenarioVerdicts
<1>1. Init => ScenarioInv
  <2> SUFFICES ASSUME Init, client = "smoke"
               PROVE  \E s \in DEFAULT_SCENARIOS :
                        /\ flags = Flags(s.cli, <<>>, 4096)
                        /\ plan = Plan(s.payload, <<>>, s.expect)
    BY DEF ScenarioInv
  <2> QED BY DEF Init, ProbeInit, SmokeInit
<1>2. ScenarioInv /\ [Next]_vars => ScenarioInv'
  BY NothingToldChanges DEF ScenarioInv
<1>3. ScenarioInv /\ VerdictOnWholePayload => ScenarioVerdicts
  <2> SUFFICES ASSUME ScenarioInv, VerdictOnWholePayload, client = "smoke",
                      verdict # "none", ~paused
               PROVE  verdict = plan.mode
    BY DEF ScenarioVerdicts
  <2>1. PICK s \in DEFAULT_SCENARIOS :
          /\ flags = Flags(s.cli, <<>>, 4096)
          /\ plan = Plan(s.payload, <<>>, s.expect)
    BY DEF ScenarioInv
  <2>2. /\ flags.cfg = build_validator_cfg(s.cli) /\ flags.max = 4096
        /\ plan.greet = s.payload /\ plan.post = <<>> /\ plan.mode = s.expect
    BY <2>1 DEF Flags, Plan
  <2>3. Whole = s.payload
    BY <2>2, ScenarioPayloads, ConcatEmptySeq DEF Whole
  <2>4. verdict = parse_handshake(s.payload, flags.cfg)
    BY <2>2, <2>3, ScenarioAnswers DEF VerdictOnWholePayload
  <2> QED BY <2>2, <2>4, ScenarioAnswers
<1> QED BY <1>1, <1>2, <1>3, VerdictIsOnTheWhole, PTL DEF Spec

-----------------------------------------------------------------------------
(* The connection's state: nothing is read that was not delivered, nothing *)
(* delivered that was not written, and an end only after a close.          *)
WireOK ==
  /\ WireTypes
  /\ \A s \in Side :
       /\ taken[s] <= Len(sent[s])
       /\ taken[s] <= arrived[s] /\ arrived[s] <= Len(sent[s]) + 1
       /\ arrived[s] > Len(sent[s]) => closed[s] # "open"

(* A write keeps the connection sound.                                     *)
LEMMA WireWrites ==
  ASSUME WireOK, NEW s \in Side, NEW bytes \in Seq(Byte), Write(s, bytes)
  PROVE  WireOK'
<1>1. /\ sent[s] \in Seq(Byte) /\ sent[s] \o bytes \in Seq(Byte)
      /\ Len(sent[s] \o bytes) >= Len(sent[s])
  <2>1. sent[s] \in Seq(Byte)
    BY DEF WireOK, WireTypes
  <2>2. /\ sent[s] \o bytes \in Seq(Byte)
        /\ Len(sent[s] \o bytes) = Len(sent[s]) + Len(bytes)
        /\ Len(bytes) \in Nat /\ Len(sent[s]) \in Nat
    BY <2>1, ConcatProperties, LenProperties
  <2> QED BY <2>1, <2>2
<1>2. /\ sent' = [sent EXCEPT ![s] = sent[s] \o bytes]
      /\ UNCHANGED <<arrived, taken, closed, reset>>
  BY DEF Write
<1>3. sent' \in [Side -> Seq(Byte)]
  BY <1>1, <1>2 DEF WireOK, WireTypes
<1>4. WireTypes'
  BY <1>2, <1>3 DEF WireOK, WireTypes
<1>5. \A t \in Side : /\ Len(sent'[t]) >= Len(sent[t]) /\ Len(sent'[t]) \in Nat
                      /\ Len(sent[t]) \in Nat /\ arrived[t] \in Nat
  BY <1>1, <1>2, <1>3, LenProperties DEF WireOK, WireTypes
<1>6. \A t \in Side :
        /\ taken[t] <= Len(sent[t]) /\ taken[t] \in Nat
        /\ taken[t] <= arrived[t] /\ arrived[t] <= Len(sent[t]) + 1
        /\ arrived[t] > Len(sent[t]) => closed[t] # "open"
  BY DEF WireOK, WireTypes
<1> HIDE DEF WireOK
<1> QED BY <1>2, <1>4, <1>5, <1>6 DEF WireOK

(* So does a close,                                                        *)
LEMMA WireCloses ==
  ASSUME WireOK, NEW s \in Side, NEW how \in {"half", "fin", "rst"},
         Close(s, how)
  PROVE  WireOK'
<1>1. /\ closed' = [closed EXCEPT ![s] = how]
      /\ UNCHANGED <<sent, arrived, taken, reset>>
  BY DEF Close
<1>2. WireTypes' /\ \A t \in Side : closed[t] # "open" => closed'[t] # "open"
  BY <1>1 DEF WireOK, WireTypes
<1> QED BY <1>1, <1>2 DEF WireOK

(* The first n bytes of a string.                                          *)
LEMMA FirstBytes ==
  ASSUME NEW w \in Seq(Byte), NEW n \in Nat, n <= Len(w)
  PROVE  /\ SubSeq(w, 1, n) \in Seq(Byte) /\ Len(SubSeq(w, 1, n)) = n
         /\ \A i \in 1..n : SubSeq(w, 1, n)[i] = w[i]
<1>1. \A i \in 1..n : w[i] \in Byte
  <2>1. Len(w) \in Nat
    BY LenProperties
  <2>2. \A i \in 1..n : i \in 1..Len(w)
    BY <2>1
  <2> QED BY <2>2, ByteAt, Zenon
<1>2. /\ SubSeq(w, 1, n) \in Seq(Byte)
      /\ Len(SubSeq(w, 1, n)) = IF 1 <= n THEN n - 1 + 1 ELSE 0
      /\ \A i \in 1..n - 1 + 1 : SubSeq(w, 1, n)[i] = w[1 + i - 1]
  BY <1>1, SubSeqProperties
<1> QED BY <1>2

(* What can be read was written, has arrived and was not read yet.         *)
LEMMA HereBytes ==
  ASSUME WireOK, NEW s \in Side
  PROVE  /\ Here(s) \in Seq(Byte) /\ Len(Here(s)) \in Nat
         /\ taken[s] + Len(Here(s)) <= Len(sent[s])
         /\ taken[s] + Len(Here(s)) <= arrived[s]
<1> DEFINE w == sent[s]
           last == IF arrived[s] > Len(w) THEN Len(w) ELSE arrived[s]
           t == taken[s]
<1>1. /\ w \in Seq(Byte) /\ Len(w) \in Nat
      /\ arrived[s] \in Nat /\ t \in Nat /\ t <= Len(w) /\ t <= arrived[s]
  BY LenProperties DEF WireOK, WireTypes
<1>2. last \in Nat /\ last <= Len(w) /\ last <= arrived[s] /\ t <= last
  BY <1>1
<1>3. Here(s) = SubSeq(w, t + 1, last)
  BY DEF Here
<1> HIDE DEF w, last, t
<1>4. \A i \in t + 1..last : w[i] \in Byte
  <2>1. \A i \in t + 1..last : i \in 1..Len(w)
    BY <1>1, <1>2
  <2>2. w \in Seq(Byte)
    BY <1>1
  <2> QED BY <2>1, <2>2, ByteAt, Zenon
<1>5. /\ Here(s) \in Seq(Byte)
      /\ Len(Here(s)) = IF t + 1 <= last THEN last - (t + 1) + 1 ELSE 0
  BY <1>1, <1>2, <1>3, <1>4, SubSeqProperties
<1>6. Len(Here(s)) = last - t
  <2>1. /\ t \in Nat /\ last \in Nat /\ t <= last
        /\ Len(Here(s)) = IF t + 1 <= last THEN last - (t + 1) + 1 ELSE 0
    BY <1>1, <1>2, <1>5, Zenon
  <2> QED BY <2>1
<1> QED BY <1>1, <1>2, <1>5, <1>6 DEF w, t

(* a read of what is there,                                                *)
LEMMA WireReads ==
  ASSUME WireOK, NEW s \in Side, NEW n \in Nat, n <= Len(Here(Other(s))),
         Read(s, n)
  PROVE  WireOK'
<1> DEFINE o == Other(s)
<1>1. o \in Side /\ taken[o] \in Nat /\ arrived[o] \in Nat
      /\ Len(sent[o]) \in Nat
  BY LenProperties DEF Other, Side, WireOK, WireTypes
<1>2. /\ taken' = [taken EXCEPT ![o] = taken[o] + n]
      /\ UNCHANGED <<sent, arrived, closed, reset>>
  BY DEF Read
<1>3. taken[o] + n <= Len(sent[o]) /\ taken[o] + n <= arrived[o]
  BY <1>1, HereBytes
<1> HIDE DEF o
<1>4. /\ WireTypes' /\ taken'[o] = taken[o] + n
      /\ \A t \in Side : t # o => taken'[t] = taken[t]
  BY <1>1, <1>2 DEF WireOK, WireTypes
<1>5. ASSUME NEW t \in Side
      PROVE  /\ taken'[t] <= Len(sent[t]) /\ taken'[t] <= arrived[t]
             /\ arrived[t] <= Len(sent[t]) + 1
             /\ arrived[t] > Len(sent[t]) => closed[t] # "open"
  <2>1. /\ taken[t] <= Len(sent[t]) /\ taken[t] <= arrived[t]
        /\ arrived[t] <= Len(sent[t]) + 1
        /\ arrived[t] > Len(sent[t]) => closed[t] # "open"
    BY DEF WireOK
  <2> QED BY <1>3, <1>4, <2>1
<1> QED BY <1>2, <1>4, <1>5 DEF WireOK

(* a delivery,                                                             *)
LEMMA WireDelivers ==
  ASSUME WireOK, NEW s \in Side, Deliver(s) \/ DeliverReset(s)
  PROVE  WireOK'
<1>0. sent[s] \in Seq(Byte) /\ Len(sent[s]) \in Nat /\ arrived[s] \in Nat /\ taken[s] \in Nat
  BY LenProperties DEF WireOK, WireTypes
<1>1. CASE Deliver(s)
  <2>1. PICK n \in arrived[s] + 1 ..
                Len(sent[s]) + (IF closed[s] = "open" THEN 0 ELSE 1) :
          arrived' = [arrived EXCEPT ![s] = n]
    BY <1>1 DEF Deliver
  <2>2. /\ n \in Nat /\ n > arrived[s] /\ n <= Len(sent[s]) + 1
        /\ n > Len(sent[s]) => closed[s] # "open"
    <3>1. CASE closed[s] = "open"
      BY <1>0, <2>1, <3>1
    <3>2. CASE closed[s] # "open"
      BY <1>0, <2>1, <3>2
    <3> QED BY <3>1, <3>2
  <2>3. UNCHANGED <<sent, taken, closed, reset>>
    BY <1>1 DEF Deliver
  <2>4. WireTypes' /\ arrived'[s] = n
        /\ \A t \in Side : t # s => arrived'[t] = arrived[t]
    BY <2>1, <2>2, <2>3 DEF WireOK, WireTypes
  <2>5. taken[s] <= arrived[s]
    BY DEF WireOK
  <2>6. taken[s] <= n
    BY <1>0, <2>2, <2>5
  <2> QED BY <2>2, <2>3, <2>4, <2>6 DEF WireOK
<1>2. CASE DeliverReset(s)
  BY <1>2 DEF DeliverReset, WireOK, WireTypes
<1> QED BY <1>1, <1>2

(* and the loss of a datagram that has not arrived.                        *)
LEMMA WireLoses ==
  ASSUME WireOK, LoseDatagram
  PROVE  WireOK'
<1> DEFINE w == sent["server"]
<1>1. /\ w \in Seq(Byte) /\ Len(w) \in Nat /\ "server" \in Side
      /\ arrived["server"] \in Nat /\ arrived["server"] < Len(w)
      /\ taken["server"] \in Nat /\ taken["server"] <= arrived["server"]
  BY LenProperties DEF Side, WireOK, WireTypes, LoseDatagram
<1>2. PICK n \in Nat : n = Len(w) - 1
  <2> HIDE DEF w
  <2>1. /\ Len(w) \in Nat /\ arrived["server"] \in Nat
        /\ arrived["server"] < Len(w)
    BY <1>1, Zenon
  <2>2. Len(w) - 1 \in Nat
    BY <2>1
  <2> QED BY <2>2
<1> DEFINE left == SubSeq(w, 1, n)
<1>3. left \in Seq(Byte) /\ Len(left) = n
  <2> HIDE DEF w
  <2>1. w \in Seq(Byte) /\ n <= Len(w)
    BY <1>1, <1>2
  <2> QED BY <2>1, FirstBytes, Zenon
<1>4. /\ sent' = [sent EXCEPT !["server"] = left]
      /\ UNCHANGED <<arrived, taken, closed, reset>>
  BY <1>2 DEF LoseDatagram
<1> HIDE DEF left
<1>5. /\ WireTypes' /\ Len(sent'["server"]) = n
      /\ \A t \in Side : t # "server" => sent'[t] = sent[t]
  BY <1>1, <1>3, <1>4 DEF WireOK, WireTypes
<1>6. arrived["server"] <= n /\ taken["server"] <= n
      /\ arrived["server"] <= n + 1 /\ ~(arrived["server"] > n)
  BY <1>1, <1>2
<1> HIDE DEF w
<1> QED BY <1>1, <1>4, <1>5, <1>6 DEF WireOK

(* A new connection is sound.                                              *)
LEMMA WireFresh ==
  ASSUME FreshWire
  PROVE  WireOK
BY EmptySeq DEF FreshWire, WireOK, WireTypes, Side

(* The wire's part of GreeterTypeOK.                                       *)
WireTyped ==
  /\ sent \in [Side -> Seq(Byte)]
  /\ closed \in [Side -> {"open", "half", "fin", "rst"}]
  /\ reset \in [Side -> BOOLEAN]
  /\ \A s \in Side :
       /\ taken[s] \in 0..Len(sent[s])
       /\ arrived[s] \in taken[s]..Len(sent[s]) + 1
       /\ arrived[s] > Len(sent[s]) => closed[s] # "open"

(* A sound connection has the types GreeterTypeOK asks for.                *)
LEMMA WireIsTyped ==
  ASSUME WireOK
  PROVE  WireTyped
<1>1. \A s \in Side : /\ taken[s] \in Nat /\ arrived[s] \in Nat
                      /\ Len(sent[s]) \in Nat
  BY LenProperties DEF WireOK, WireTypes
<1>2. \A s \in Side : /\ taken[s] <= Len(sent[s])
                      /\ taken[s] <= arrived[s] /\ arrived[s] <= Len(sent[s]) + 1
                      /\ arrived[s] > Len(sent[s]) => closed[s] # "open"
  BY DEF WireOK
<1>3. \A s \in Side : /\ taken[s] \in 0..Len(sent[s])
                      /\ arrived[s] \in taken[s]..Len(sent[s]) + 1
  BY <1>1, <1>2
<1> QED BY <1>2, <1>3 DEF WireOK, WireTypes, WireTyped

(* What a client and its server were told.                                 *)
Given ==
  /\ flags.max \in Nat /\ flags.response \in Seq(Byte)
  /\ plan.greet \in Seq(Byte) /\ plan.post \in Seq(Byte)
  /\ client = "prelauncher" => plan.mode \in {"fin", "rst"}

(* While it is at a listener, or about to leave one, there is one.         *)
Probing ==
  client = "probe" /\ cpc \in {"greet window", "nudge", "nudge window", "next"}
    => todo # <<>>

TypeInv == TypeOK /\ WireOK /\ Given /\ Probing

(* Every step keeps the connection sound.                                  *)
LEMMA WireStays ==
  ASSUME WireOK, Given, payload \in Seq(Byte), [Next]_vars
  PROVE  WireOK'
<1>1. "client" \in Side /\ "server" \in Side
  BY DEF Side
<1>2. ASSUME UNCHANGED wireVars PROVE WireOK'
  BY <1>2 DEF WireOK, WireTypes, wireVars
<1>3. CASE Wire
  BY <1>3, WireDelivers DEF Wire
<1>4. CASE ReadChunk
  <2> DEFINE room == flags.max - Len(payload)
             here == Len(Here("client"))
             n == IF here < room THEN here ELSE room
  <2>1. Read("server", n)
    BY <1>4 DEF ReadChunk
  <2>2. here \in Nat
    BY <1>1, HereBytes
  <2>3. Len(payload) < flags.max /\ flags.max \in Nat /\ Len(payload) \in Nat
    BY <1>4, LenProperties DEF ReadChunk, Given
  <2> HIDE DEF here
  <2>4. n \in Nat /\ n <= here
    BY <2>2, <2>3
  <2> HIDE DEF n
  <2> QED BY <1>1, <2>1, <2>4, WireReads DEF Other, here
<1>5. CASE StartServer \/ ReadEnds \/ ReadBreaks
  BY <1>2, <1>5 DEF StartServer, ReadEnds, ReadBreaks
<1>6. CASE Respond
  BY <1>1, <1>2, <1>6, WireWrites DEF Respond, Given
<1>7. CASE \/ CloseClient \/ StopServer("exit 0") \/ StopServer("terminated")
  <2>1. Close("server", "fin") \/ UNCHANGED wireVars
    BY <1>7 DEF CloseClient, StopServer
  <2> QED BY <1>1, <1>2, <2>1, WireCloses
<1>8. CASE Prelauncher \/ Smoke
  <2>1. ASSUME NEW at, NEW bytes \in Seq(Byte), NEW next, NEW r,
               SendFrame(at, bytes, next, r)
        PROVE  WireOK'
    BY <1>1, <2>1, WireWrites, WireCloses DEF SendFrame
  <2>2. ASSUME NEW next, NEW r, Connect(next) \/ ConnectFails(r) \/ SmokeJudges
        PROVE  WireOK'
    BY <1>2, <2>2 DEF Connect, ConnectFails, SmokeJudges
  <2>3. CASE \/ PrelauncherCloses /\ client = "prelauncher"
             \/ SmokeHalfCloses \/ SmokeDrains
    BY <1>1, <2>3, WireCloses
       DEF PrelauncherCloses, SmokeHalfCloses, SmokeDrains, Given
  <2>4. CASE SmokeTerminates
    BY <1>7, <2>4 DEF SmokeTerminates
  <2>5. CASE Prelauncher
    BY <2>1, <2>2, <2>3, <2>5 DEF Prelauncher, Given
  <2>6. CASE Smoke
    BY <2>1, <2>2, <2>3, <2>4, <2>6 DEF Smoke, Given
  <2> QED BY <1>8, <2>5, <2>6
<1>9. CASE PeerSpeaks
  BY <1>1, <1>9, WireWrites, ProbeAssumption DEF PeerSpeaks
<1>10. CASE PeerCloses
  BY <1>1, <1>10, WireCloses DEF PeerCloses
<1>11. CASE LoseDatagram
  BY <1>11, WireLoses
<1>12. CASE ProbeStep
  <2>1. ASSUME NEW tag, Report(tag) PROVE WireOK'
    BY <1>1, <2>1, WireCloses DEF Report
  <2>2. CASE NextListener
    BY <2>2, EmptySeq DEF NextListener, WireOK, WireTypes, Side
  <2>3. CASE ProbeEnds
    BY <1>2, <2>3 DEF ProbeEnds
  <2>4. CASE ProbeConnects
    BY <1>2, <2>1, <2>4 DEF ProbeConnects
  <2>5. CASE DrainChunk
    <3> DEFINE here == Len(Here("server"))
               n == IF Head(todo).kind = "udp" THEN 1 ELSE here
    <3>1. Read("client", n) /\ Here("server") # <<>>
      BY <2>5 DEF DrainChunk
    <3>2. here \in Nat /\ here # 0
      <4>1. Here("server") \in Seq(Byte)
        BY <1>1, HereBytes
      <4> QED BY <3>1, <4>1, EmptySeq
    <3> HIDE DEF here
    <3>3. n \in Nat /\ n <= here
      BY <3>2
    <3> HIDE DEF n
    <3> QED BY <1>1, <3>1, <3>3, WireReads DEF Other, here
  <2>6. CASE GreetWindowEnds
    BY <1>2, <2>1, <2>6 DEF GreetWindowEnds
  <2>7. CASE Nudge
    BY <1>1, <2>1, <2>7, WireWrites DEF Nudge, Given
  <2>8. CASE NudgeWindowEnds
    BY <2>1, <2>8 DEF NudgeWindowEnds
  <2> QED BY <1>12, <2>2, <2>3, <2>4, <2>5, <2>6, <2>7, <2>8 DEF ProbeStep
<1>13. CASE UNCHANGED vars
  BY <1>2, <1>13 DEF vars, greeterVars
<1> QED BY <1>3, <1>4, <1>5, <1>6, <1>7, <1>8, <1>9, <1>10, <1>11, <1>12, <1>13
        DEF Next, ServerNext, Handler

(* The scalar parts of the type invariant.                                 *)
LEMMA StatesStay ==
  ASSUME TypeInv, [Next]_vars
  PROVE  /\ server' \in {"starting", "listening", "exit 0", "exit 1", "terminated"}
         /\ handler' \in {"none", "reading", "responding", "closing", "closed",
                          "peer"}
         /\ verdict' \in {"none", "ACCEPTED", "REJECTED"}
         /\ result' \in {"none", "exit 0", "exit 1", "exit 2", "pass", "fail"}
         /\ paused' \in BOOLEAN
<1> USE DEF TypeInv, TypeOK, GreeterTypeOK
<1>1. CASE Wire \/ PeerSpeaks \/ PeerCloses \/ LoseDatagram
  BY <1>1 DEF Wire, serverVars, PeerSpeaks, PeerCloses, LoseDatagram, unlessClient
<1>2. CASE StartServer \/ ReadChunk \/ ReadBreaks \/ Respond \/ CloseClient
  BY <1>2 DEF StartServer, ReadChunk, ReadBreaks, Respond, CloseClient,
              unlessServer
<1>3. CASE ReadEnds
  BY <1>3 DEF ReadEnds, unlessServer, parse_handshake
<1>4. CASE StopServer("exit 0") \/ StopServer("terminated")
  BY <1>4 DEF StopServer, unlessServer
<1>5. CASE Prelauncher
  BY <1>5 DEF Prelauncher, Connect, ConnectFails, SendFrame, PrelauncherCloses,
              unlessClient, Finish
<1>6. CASE Smoke
  BY <1>4, <1>6 DEF Smoke, Connect, ConnectFails, SendFrame, SmokeHalfCloses,
              SmokeDrains, SmokeJudges, SmokeTerminates, unlessClient, Finish
<1>7. CASE ProbeStep
  BY <1>7 DEF ProbeStep, NextListener, ProbeEnds, ProbeConnects, DrainChunk,
              GreetWindowEnds, Nudge, NudgeWindowEnds, Report, Finish,
              unlessProbe, unlessClient
<1>8. CASE UNCHANGED vars
  BY <1>8 DEF vars, greeterVars, serverVars
<1> QED BY <1>1, <1>2, <1>3, <1>4, <1>5, <1>6, <1>7, <1>8
        DEF Next, ServerNext, Handler

(* The payload is a byte string, and never longer than the maximum.        *)
LEMMA PayloadStays ==
  ASSUME TypeInv, [Next]_vars
  PROVE  payload' \in Seq(Byte) /\ Len(payload') <= flags'.max
<1>0. flags' = flags /\ payload \in Seq(Byte) /\ Len(payload) <= flags.max
      /\ flags.max \in Nat /\ Len(payload) \in Nat
  BY NothingToldChanges, LenProperties DEF TypeInv, TypeOK, GreeterTypeOK, Given
<1>1. CASE ReadChunk
  <2> DEFINE here == Here("client")
             room == flags.max - Len(payload)
             n == IF Len(here) < room THEN Len(here) ELSE room
  <2>1. here \in Seq(Byte) /\ Len(here) \in Nat
    BY HereBytes DEF TypeInv, Side
  <2>2. payload' = payload \o SubSeq(here, 1, n) /\ Len(payload) < flags.max
    BY <1>1 DEF ReadChunk
  <2> HIDE DEF here
  <2>3. n \in Nat /\ n <= Len(here) /\ Len(payload) + n <= flags.max
    BY <1>0, <2>1, <2>2
  <2> HIDE DEF n
  <2>4. SubSeq(here, 1, n) \in Seq(Byte) /\ Len(SubSeq(here, 1, n)) = n
    BY <2>1, <2>3, FirstBytes
  <2>5. /\ payload' \in Seq(Byte)
        /\ Len(payload') = Len(payload) + Len(SubSeq(here, 1, n))
    BY <1>0, <2>2, <2>4, Joined, Zenon
  <2> QED BY <1>0, <2>3, <2>4, <2>5
<1>2. CASE NextListener
  BY <1>0, <1>2, EmptySeq DEF NextListener
<1>3. CASE UNCHANGED payload
  BY <1>0, <1>3
<1> QED BY <1>1, <1>2, <1>3
  DEF Next, Wire, ServerNext, Handler, StartServer, ReadEnds,
       ReadBreaks, Respond, CloseClient, StopServer, unlessServer, serverVars,
       Prelauncher, Smoke, Connect, ConnectFails, SendFrame,
       PrelauncherCloses, SmokeHalfCloses, SmokeDrains, SmokeJudges,
       SmokeTerminates, unlessClient, PeerSpeaks, PeerCloses,
       LoseDatagram, ProbeStep, ProbeEnds, ProbeConnects,
       DrainChunk, GreetWindowEnds, Nudge, NudgeWindowEnds, Report,
       unlessProbe, vars, greeterVars

ReportType == [at : Listener, tag : Tag, some : BOOLEAN]

(* The probe's variables keep their types, and it never reports without a  *)
(* listener.                                                               *)
LEMMA ProbeTypesStay ==
  ASSUME TypeInv, [Next]_vars
  PROVE  /\ todo' \in Seq(Listener) /\ got' \in Seq(Byte)
         /\ reports' \in Seq(ReportType)
         /\ refused' \in BOOLEAN /\ spokeFirst' \in BOOLEAN
         /\ Probing'
<1>1. /\ todo \in Seq(Listener) /\ got \in Seq(Byte)
      /\ reports \in Seq(ReportType)
      /\ refused \in BOOLEAN /\ spokeFirst \in BOOLEAN /\ Probing
  BY DEF TypeInv, TypeOK, ReportType
<1>2. client' = client
  BY NothingToldChanges
<1>3. ASSUME UNCHANGED probeVars,
             cpc' \notin {"greet window", "nudge", "nudge window", "next"}
               \/ cpc' = cpc \/ client # "probe"
      PROVE  /\ todo' \in Seq(Listener) /\ got' \in Seq(Byte)
             /\ reports' \in Seq(ReportType)
             /\ refused' \in BOOLEAN /\ spokeFirst' \in BOOLEAN
             /\ Probing'
  BY <1>1, <1>2, <1>3 DEF probeVars, Probing
<1>4. CASE (Wire \/ ServerNext \/ Prelauncher \/ Smoke) /\ UNCHANGED probeVars
  <2>1. cpc' = cpc \/ client # "probe"
    BY <1>4 DEF Wire, ServerNext, Handler, StartServer, ReadChunk, ReadEnds,
                ReadBreaks, Respond, CloseClient, StopServer, unlessServer,
                Prelauncher, Smoke, SmokeTerminates
  <2> QED BY <1>3, <1>4, <2>1
<1>5. CASE PeerSpeaks \/ PeerCloses \/ LoseDatagram
  <2>1. /\ UNCHANGED <<cpc, todo, got, reports, refused>> /\ spokeFirst' \in BOOLEAN
    BY <1>1, <1>5 DEF PeerSpeaks, PeerCloses, LoseDatagram, probeVars
  <2> QED BY <1>1, <1>2, <2>1 DEF Probing
<1>6. CASE ProbeStep
  <2>1. ASSUME NEW tag \in Tag, Report(tag), client = "probe", todo # <<>>
        PROVE  /\ todo' = todo /\ got' = got /\ spokeFirst' = spokeFirst
               /\ reports' \in Seq(ReportType) /\ refused' \in BOOLEAN
    <3>1. Head(todo) \in Listener
      BY <1>1, <2>1, HeadTailProperties
    <3>2. [at |-> Head(todo), tag |-> tag, some |-> got # <<>>] \in ReportType
      BY <3>1 DEF ReportType
    <3>3. reports' = Append(reports, [at |-> Head(todo), tag |-> tag,
                                       some |-> got # <<>>])
      BY <2>1 DEF Report
    <3>4. reports' \in Seq(ReportType)
      BY <1>1, <3>2, <3>3, AppendProperties
    <3> QED BY <1>1, <2>1, <3>4 DEF Report
  <2>2. CASE NextListener
    <3>1. todo # <<>>
      BY <1>1, <2>2 DEF NextListener, Probing
    <3>2. todo' \in Seq(Listener)
      BY <1>1, <2>2, <3>1, HeadTailProperties DEF NextListener
    <3> QED BY <1>1, <1>2, <2>2, <3>2, EmptySeq DEF NextListener, Probing
  <2>3. CASE ProbeEnds
    BY <1>1, <2>3 DEF ProbeEnds, Finish, Probing
  <2>4. ASSUME client = "probe", ProbeConnects \/ GreetWindowEnds \/ Nudge
                                   \/ NudgeWindowEnds
        PROVE  todo # <<>> /\ todo' = todo /\ got' = got /\ spokeFirst' = spokeFirst
    BY <1>1, <2>4 DEF ProbeConnects, GreetWindowEnds, Nudge, NudgeWindowEnds,
                      Report, Probing
  <2>5. ASSUME client = "probe", ProbeConnects \/ GreetWindowEnds \/ Nudge
                                   \/ NudgeWindowEnds
        PROVE  \/ \E tag \in Tag : Report(tag)
               \/ UNCHANGED <<reports, refused>>
    BY <2>5 DEF ProbeConnects, GreetWindowEnds, Nudge, NudgeWindowEnds, Tag
  <2>6. CASE client = "probe" /\ (ProbeConnects \/ GreetWindowEnds \/ Nudge
                                   \/ NudgeWindowEnds)
    BY <1>1, <1>2, <2>1, <2>4, <2>5, <2>6 DEF Probing
  <2>7. CASE client = "probe" /\ DrainChunk
    <3> DEFINE here == Here("server")
               n == IF Head(todo).kind = "udp" THEN 1 ELSE Len(here)
    <3>1. here \in Seq(Byte) /\ Len(here) \in Nat /\ here # <<>>
      BY <2>7, HereBytes DEF TypeInv, Side, DrainChunk
    <3>2. /\ got' = got \o SubSeq(here, 1, n)
          /\ UNCHANGED <<cpc, todo, reports, refused, spokeFirst>>
      BY <2>7 DEF DrainChunk
    <3> HIDE DEF here
    <3>3. n \in Nat /\ n <= Len(here)
      BY <3>1, EmptySeq
    <3> HIDE DEF n
    <3>4. SubSeq(here, 1, n) \in Seq(Byte)
      BY <3>1, <3>3, FirstBytes
    <3>5. got' \in Seq(Byte)
      BY <1>1, <3>2, <3>4, Joined, Zenon
    <3> QED BY <1>1, <1>2, <3>2, <3>5 DEF Probing
  <2> QED BY <1>6, <2>2, <2>3, <2>6, <2>7 DEF ProbeStep
<1>7. CASE UNCHANGED vars
  BY <1>3, <1>7 DEF vars, greeterVars
<1> QED BY <1>4, <1>5, <1>6, <1>7 DEF Next

-----------------------------------------------------------------------------
(* The list of listeners.                                                  *)

(* Before is a strict total order of the listeners.                        *)
LEMMA BeforeOrders ==
  \A a, b \in Listener :
    /\ ~Before(a, a)
    /\ a = b \/ Before(a, b) \/ Before(b, a)
    /\ \A c \in Listener : Before(a, b) /\ Before(b, c) => Before(a, c)
<1> SUFFICES ASSUME NEW a \in Listener, NEW b \in Listener
             PROVE  /\ ~Before(a, a)
                    /\ a = b \/ Before(a, b) \/ Before(b, a)
                    /\ \A c \in Listener : Before(a, b) /\ Before(b, c) => Before(a, c)
  OBVIOUS
<1>1. /\ ~Before(a, a)
      /\ a = b \/ Before(a, b) \/ Before(b, a)
  BY DEF Before, Listener
<1>2. ASSUME NEW c \in Listener, Before(a, b), Before(b, c)
      PROVE  Before(a, c)
  BY <1>2 DEF Before, Listener
<1> QED BY <1>1, <1>2

Sorts(q, S) == q \in [1..Cardinality(S) -> S] /\ IsSorted(q, Before)

(* A set of numbers that is not empty has a least one.                     *)
LEMMA LeastNatural ==
  ASSUME NEW N \in SUBSET Nat, N # {}
  PROVE  \E n \in N : \A m \in N : n <= m
<1>1. PICK n \in N : \A m \in N : <<m, n>> \notin OpToRel(<, Nat)
  BY WFMin, NatLessThanWellFounded
<1>2. \A m \in N : ~(m < n)
  BY <1>1 DEF OpToRel
<1> QED BY <1>2

(* Into a sorted list of the others one more can be put.                   *)
LEMMA Inserted ==
  ASSUME NEW U \in SUBSET Listener, NEW x \in U, IsFiniteSet(U),
         NEW v, Sorts(v, U \ {x})
  PROVE  \E q : Sorts(q, U)
<1> DEFINE m == Cardinality(U \ {x})
<1>1. m \in Nat /\ Cardinality(U) = m + 1
  <2>1. IsFiniteSet(U \ {x}) /\ m = Cardinality(U) - 1
    BY FS_RemoveElement
  <2>2. Cardinality(U) \in Nat /\ m \in Nat
    BY <2>1, FS_CardinalityType
  <2> HIDE DEF m
  <2> QED BY <2>1, <2>2
<1>2. /\ v \in [1..m -> U \ {x}]
      /\ \A i, j \in 1..m : i < j => Before(v[i], v[j])
  <2>1. v \in [1..m -> U \ {x}] /\ IsSorted(v, Before)
    BY DEF Sorts
  <2> HIDE DEF m
  <2>2. Len(v) = m
    BY <1>1, <2>1
  <2> QED BY <2>1, <2>2 DEF IsSorted
<1> HIDE DEF m
<1>3. \A i \in 1..m : v[i] \in Listener /\ v[i] \in U /\ v[i] # x
  BY <1>2
<1>9. x \in Listener
  OBVIOUS
<1>4. PICK k \in 0..m : /\ \A i \in 1..m : i <= k => ~Before(x, v[i])
                        /\ k + 1 <= m => Before(x, v[k + 1])
  <2> DEFINE Later == {i \in 1..m : Before(x, v[i])}
  <2>1. CASE Later = {}
    BY <1>1, <2>1
  <2>2. CASE Later # {}
    <3>0. Later \in SUBSET Nat
      OBVIOUS
    <3>1. PICK i \in Later : \A j \in Later : i <= j
      <4> HIDE DEF Later
      <4> QED BY <2>2, <3>0, LeastNatural
    <3>2. i - 1 \in 0..m /\ Before(x, v[(i - 1) + 1])
      BY <1>1, <3>1
    <3>3. \A j \in 1..m : j <= i - 1 => ~Before(x, v[j])
      BY <1>1, <3>1
    <3> QED BY <3>2, <3>3
  <2> QED BY <2>1, <2>2
<1>5. \A i \in 1..m : /\ i <= k => Before(v[i], x)
                      /\ i > k => Before(x, v[i])
  <2> SUFFICES ASSUME NEW i \in 1..m
               PROVE  /\ i <= k => Before(v[i], x)
                      /\ i > k => Before(x, v[i])
    OBVIOUS
  <2>0. i \in Int /\ k \in Int /\ m \in Int /\ 1 <= i /\ i <= m /\ 0 <= k
    BY <1>1, <1>4
  <2>1. CASE i <= k
    <3>1. ~Before(x, v[i]) /\ v[i] # x /\ v[i] \in Listener
      BY <1>3, <1>4, <2>1
    <3>2. Before(v[i], x)
      BY <1>9, <3>1, BeforeOrders, Zenon
    <3> QED BY <2>0, <2>1, <3>2
  <2>2. CASE i = k + 1
    <3>1. k + 1 <= m /\ ~(i <= k)
      BY <2>0, <2>2
    <3>2. Before(x, v[k + 1])
      BY <1>4, <3>1, Zenon
    <3> QED BY <2>2, <3>1, <3>2, Zenon
  <2>3. CASE i > k + 1
    <3>1. k + 1 \in 1..m /\ k + 1 <= m /\ k + 1 < i
      BY <2>0, <2>3
    <3>2. Before(x, v[k + 1]) /\ Before(v[k + 1], v[i])
      BY <1>2, <1>4, <3>1, Zenon
    <3>3. Before(x, v[i])
      BY <1>3, <1>9, <3>1, <3>2, BeforeOrders, Zenon
    <3> QED BY <2>0, <2>3, <3>3
  <2> QED BY <2>0, <2>1, <2>2, <2>3
<1> DEFINE q == [i \in 1..m + 1 |-> IF i <= k THEN v[i]
                                   ELSE IF i = k + 1 THEN x ELSE v[i - 1]]
<1>6. /\ \A i \in 1..m + 1 :
           /\ i <= k => q[i] = v[i] /\ i \in 1..m
           /\ i = k + 1 => q[i] = x
           /\ i > k + 1 => q[i] = v[i - 1] /\ i - 1 \in 1..m /\ i - 1 > k
      /\ DOMAIN q = 1..m + 1
  BY <1>1, <1>4
<1>7. q \in [1..m + 1 -> U] /\ Len(q) = m + 1
  <2>1. \A i \in 1..m + 1 : q[i] \in U
    BY <1>1, <1>3, <1>6
  <2>2. q \in [1..m + 1 -> U]
    BY <2>1
  <2> QED BY <1>1, <2>2
<1> HIDE DEF q
<1>8. ASSUME NEW i \in 1..m + 1, NEW j \in 1..m + 1, i < j
      PROVE  Before(q[i], q[j])
  <2>0. /\ i \in Int /\ j \in Int /\ k \in Int /\ i < j
        /\ i < k + 1 \/ i = k + 1 \/ i > k + 1
        /\ j < k + 1 \/ j = k + 1 \/ j > k + 1
    BY <1>1, <1>4, <1>8
  <2>1. CASE j <= k
    <3>1. q[i] = v[i] /\ q[j] = v[j] /\ i \in 1..m /\ j \in 1..m
      BY <1>6, <2>0, <2>1
    <3> QED BY <1>2, <2>0, <3>1
  <2>2. CASE i <= k /\ j = k + 1
    BY <1>5, <1>6, <2>2
  <2>3. CASE i <= k /\ j > k + 1
    <3>1. q[i] = v[i] /\ q[j] = v[j - 1] /\ i \in 1..m /\ j - 1 \in 1..m /\ i < j - 1
      BY <1>6, <2>0, <2>3
    <3> QED BY <1>2, <3>1
  <2>4. CASE i = k + 1 /\ j > k + 1
    <3>1. q[i] = x /\ q[j] = v[j - 1] /\ j - 1 \in 1..m /\ j - 1 > k
      BY <1>6, <2>4
    <3> QED BY <1>5, <3>1
  <2>5. CASE i > k + 1
    <3>1. q[i] = v[i - 1] /\ q[j] = v[j - 1] /\ i - 1 \in 1..m /\ j - 1 \in 1..m
          /\ i - 1 < j - 1
      BY <1>6, <2>0, <2>5
    <3> QED BY <1>2, <3>1
  <2> QED BY <2>0, <2>1, <2>2, <2>3, <2>4, <2>5
<1> QED BY <1>1, <1>7, <1>8 DEF Sorts, IsSorted

(* A finite set of listeners can be listed in order: otherwise take a      *)
(* smallest one that cannot.                                               *)
LEMMA SortedListExists ==
  ASSUME NEW S \in SUBSET Listener, IsFiniteSet(S)
  PROVE  \E q : Sorts(q, S)
<1> DEFINE Unsorted == {n \in Nat : \E U \in SUBSET Listener :
                          /\ IsFiniteSet(U) /\ Cardinality(U) = n
                          /\ ~ \E q : Sorts(q, U)}
<1>1. SUFFICES ASSUME Unsorted # {} PROVE FALSE
  BY FS_CardinalityType
<1>2. PICK n \in Unsorted : \A m \in Unsorted : n <= m
  BY <1>1, LeastNatural
<1>3. PICK U \in SUBSET Listener :
        /\ IsFiniteSet(U) /\ Cardinality(U) = n /\ n \in Nat
        /\ ~ \E q : Sorts(q, U)
  OBVIOUS
<1>4. n # 0
  <2> SUFFICES ASSUME n = 0 PROVE FALSE
    OBVIOUS
  <2>1. Cardinality(U) = 0
    BY <1>3
  <2> DEFINE q == [i \in 1..0 |-> i]
  <2>2. q \in [1..0 -> U] /\ Len(q) = 0
    OBVIOUS
  <2>3. Sorts(q, U)
    BY <2>1, <2>2 DEF Sorts, IsSorted
  <2> QED BY <1>3, <2>3
<1>5. PICK x \in U : TRUE
  BY <1>3, <1>4, FS_EmptySet
<1>6. IsFiniteSet(U \ {x}) /\ Cardinality(U \ {x}) = n - 1
  BY <1>3, <1>5, FS_RemoveElement
<1>7. PICK v : Sorts(v, U \ {x})
  BY <1>2, <1>3, <1>4, <1>6
<1> QED BY <1>3, <1>5, <1>7, Inserted

Listed == list_listeners(table)

(* What list_listeners makes of a socket table.                            *)
LEMMA ListIsSorted ==
  ASSUME NEW t \in Tables
  PROVE  /\ Found(t) \subseteq Listener
         /\ list_listeners(t) \in Seq(Listener)
         /\ \A i, j \in 1..Len(list_listeners(t)) :
              list_listeners(t)[i] = list_listeners(t)[j] => i = j
         /\ {list_listeners(t)[i] : i \in 1..Len(list_listeners(t))} = Found(t)
<1> DEFINE F == Found(t)
           q == list_listeners(t)
           n == Cardinality(F)
<1>1. t.conns \in Seq(Conn)
  BY ProbeAssumption
<1>2. F \subseteq Listener /\ IsFiniteSet(F)
  <2>1. ToSet(t.conns) = {t.conns[i] : i \in 1..Len(t.conns)}
    BY <1>1, LenProperties DEF ToSet
  <2>2. ToSet(t.conns) \subseteq Conn
    BY <1>1, <2>1, ElementOfSeq
  <2>3. IsFiniteSet(1..Len(t.conns))
    BY <1>1, LenProperties, FS_Interval
  <2>4. F \subseteq {Endpoint(t.conns[i]) : i \in 1..Len(t.conns)}
    BY <2>1 DEF Found
  <2>5. IsFiniteSet({Endpoint(t.conns[i]) : i \in 1..Len(t.conns)})
    <3> DEFINE e == [i \in 1..Len(t.conns) |-> Endpoint(t.conns[i])]
    <3>1. e \in Surjection(1..Len(t.conns),
                            {Endpoint(t.conns[i]) : i \in 1..Len(t.conns)})
      BY DEF Surjection
    <3> QED BY <2>3, <3>1, FS_Surjection
  <2>6. \A c \in Conn : Endpoint(c) \in Listener
    BY DEF Endpoint, Listener, Conn
  <2> QED BY <2>2, <2>4, <2>5, <2>6, FS_Subset DEF Found
<1> HIDE DEF F
<1>3. q \in [1..n -> F] /\ IsSorted(q, Before)
  BY <1>2, SortedListExists DEF Sorts, list_listeners, F
<1>4. n \in Nat
  BY <1>2, FS_CardinalityType
<1> HIDE DEF q, n
<1>5. q \in Seq(F) /\ Len(q) = n
  BY <1>3, <1>4
<1>6. q \in Seq(Listener)
  BY <1>2, <1>5, SeqMonotonic
<1>7. \A i, j \in 1..n : i < j => q[i] # q[j]
  BY <1>2, <1>3, <1>5, BeforeOrders DEF IsSorted
<1>8. \A i, j \in 1..n : q[i] = q[j] => i = j
  BY <1>4, <1>7
<1>9. q \in Injection(1..n, F)
  BY <1>3, <1>8 DEF Injection, IsInjective
<1>10. q \in Surjection(1..n, F)
  <2>1. Cardinality(1..n) = n /\ IsFiniteSet(1..n)
    BY <1>4, FS_Interval
  <2> QED BY <1>2, <1>9, <2>1, FS_Injection DEF n
<1>11. {q[i] : i \in 1..n} = F
  BY <1>3, <1>10 DEF Surjection
<1> QED BY <1>2, <1>5, <1>6, <1>8, <1>11 DEF F, q

-----------------------------------------------------------------------------
(* The listeners probed so far and those still to probe are the list, cut  *)
(* in two; between two of them the first is in both parts.                 *)
Queue ==
  client = "probe" =>
    /\ table \in Tables
    /\ todo \in Seq(Listener) /\ reports \in Seq(ReportType)
    /\ cpc \in {"connect", "greet window", "nudge", "nudge window", "next", "done"}
    /\ cpc \in {"greet window", "nudge", "nudge window", "next"} => todo # <<>>
    /\ cpc = "next" => Len(reports) + Len(todo) = Len(Listed) + 1
    /\ cpc # "next" => Len(reports) + Len(todo) = Len(Listed)
    /\ \A i \in 1..Len(reports) : reports[i].at = Listed[i]
    /\ \A i \in 1..Len(todo) : todo[i] = Listed[Len(Listed) - Len(todo) + i]
    /\ result # "none" => todo = <<>> /\ cpc = "done"

(* Before the first probe all of the list is to do.                        *)
LEMMA QueueInit ==
  ASSUME Init
  PROVE  Queue
<1> SUFFICES ASSUME client = "probe"
             PROVE  Queue
  BY DEF Queue
<1>1. /\ table \in Tables /\ todo = Listed /\ reports = <<>>
      /\ cpc = "connect" /\ result = "none"
  BY DEF Init, GreeterInit, ProbeInit, PrelauncherInit, SmokeInit, Listed
<1>2. todo \in Seq(Listener) /\ Len(todo) \in Nat
  BY <1>1, ListIsSorted, LenProperties DEF Listed
<1>3. reports \in Seq(ReportType) /\ Len(reports) = 0
  BY <1>1, EmptySeq
<1> QED BY <1>1, <1>2, <1>3 DEF Queue

(* A report takes over the first of those to do, the next step drops it.   *)
LEMMA QueueStep ==
  ASSUME Queue, [Next]_vars
  PROVE  Queue'
<1>1. client' = client
  BY NothingToldChanges
<1> SUFFICES ASSUME client = "probe" PROVE Queue'
  BY <1>1 DEF Queue
<1>2. /\ table \in Tables /\ Listed \in Seq(Listener)
      /\ todo \in Seq(Listener) /\ reports \in Seq(ReportType)
      /\ Len(Listed) \in Nat /\ Len(todo) \in Nat /\ Len(reports) \in Nat
  BY ListIsSorted, LenProperties DEF Queue, Listed
<1>3. ASSUME UNCHANGED <<table, todo, reports, cpc, result>> PROVE Queue'
  BY <1>1, <1>3 DEF Queue, Listed
<1>4. CASE (Wire \/ ServerNext \/ Prelauncher \/ Smoke) /\ UNCHANGED probeVars
  BY <1>3, <1>4
     DEF Wire, ServerNext, Handler, StartServer, ReadChunk, ReadEnds,
         ReadBreaks, Respond, CloseClient, StopServer, unlessServer,
         Prelauncher, Smoke, SmokeTerminates, probeVars
<1>5. CASE PeerSpeaks \/ PeerCloses \/ LoseDatagram
  BY <1>3, <1>5 DEF PeerSpeaks, PeerCloses, LoseDatagram, probeVars
<1>6. CASE UNCHANGED vars
  BY <1>3, <1>6 DEF vars, greeterVars, probeVars
<1>7. ASSUME NEW tag \in Tag, Report(tag), todo # <<>>, cpc # "next"
      PROVE  Queue'
  <2> DEFINE r == [at |-> Head(todo), tag |-> tag, some |-> got # <<>>]
  <2>1. Head(todo) \in Listener /\ Head(todo) = todo[1] /\ Len(todo) >= 1
    BY <1>2, <1>7, HeadTailProperties, EmptySeq
  <2>2. r \in ReportType /\ r.at = todo[1]
    BY <2>1 DEF ReportType
  <2>3. /\ reports' = Append(reports, r) /\ cpc' = "next"
        /\ UNCHANGED <<table, todo, result>>
    BY <1>7 DEF Report, unlessProbe
  <2> HIDE DEF r
  <2>4. /\ reports' \in Seq(ReportType) /\ Len(reports') = Len(reports) + 1
        /\ \A i \in 1..Len(reports) : reports'[i] = reports[i]
        /\ reports'[Len(reports) + 1] = r
    BY <1>2, <2>2, <2>3, AppendProperties
  <2>5. Len(reports) + Len(todo) = Len(Listed) /\ result = "none"
    BY <1>7 DEF Queue
  <2>6. todo[1] = Listed[Len(reports) + 1]
    <3>0. 1 \in 1..Len(todo)
      BY <1>2, <2>1
    <3>1. todo[1] = Listed[Len(Listed) - Len(todo) + 1]
      BY <3>0 DEF Queue
    <3>2. Len(Listed) - Len(todo) + 1 = Len(reports) + 1
      BY <1>2, <2>5
    <3> QED BY <3>1, <3>2
  <2>7. \A i \in 1..Len(reports') : reports'[i].at = Listed[i]
    <3>1. \A i \in 1..Len(reports) : reports'[i].at = Listed[i]
      BY <2>4 DEF Queue
    <3> QED BY <1>2, <2>2, <2>4, <2>6, <3>1
  <2>8. Listed' = Listed
    BY <2>3 DEF Listed
  <2>9. Len(reports') + Len(todo) = Len(Listed) + 1
    BY <1>2, <2>4, <2>5
  <2> QED BY <1>1, <1>2, <1>7, <2>3, <2>4, <2>5, <2>7, <2>8, <2>9 DEF Queue
<1>8. CASE ProbeStep
  <2>1. CASE NextListener
    <3>1. todo # <<>> /\ cpc = "next" /\ todo' = Tail(todo) /\ cpc' = "connect"
          /\ UNCHANGED <<table, reports, result>>
      BY <2>1 DEF NextListener, Queue
    <3>2. /\ Tail(todo) \in Seq(Listener) /\ Len(Tail(todo)) = Len(todo) - 1
          /\ \A i \in 1..Len(Tail(todo)) : Tail(todo)[i] = todo[i + 1]
      BY <1>2, <3>1, HeadTailProperties
    <3>3. \A i \in 1..Len(todo') : todo'[i] = Listed[Len(Listed) - Len(todo') + i]
      <4> SUFFICES ASSUME NEW i \in 1..Len(todo) - 1
                   PROVE  todo'[i] = Listed[Len(Listed) - (Len(todo) - 1) + i]
        BY <3>1, <3>2
      <4>1. i + 1 \in 1..Len(todo) /\ todo'[i] = todo[i + 1]
        BY <1>2, <3>1, <3>2
      <4>2. todo[i + 1] = Listed[Len(Listed) - Len(todo) + (i + 1)]
        BY <4>1 DEF Queue
      <4>3. Len(Listed) - Len(todo) + (i + 1) = Len(Listed) - (Len(todo) - 1) + i
        BY <1>2
      <4> QED BY <4>1, <4>2, <4>3
    <3>4. Len(reports) + Len(Tail(todo)) = Len(Listed)
      BY <1>2, <3>1, <3>2 DEF Queue
    <3>5. result = "none" /\ Listed' = Listed
      BY <3>1 DEF Queue, Listed
    <3> QED BY <1>1, <1>2, <3>1, <3>2, <3>3, <3>4, <3>5 DEF Queue
  <2>2. CASE ProbeEnds
    <3>1. /\ cpc = "connect" /\ cpc' = "done" /\ todo = <<>>
          /\ UNCHANGED <<table, todo, reports>>
      BY <2>2 DEF ProbeEnds, Finish, unlessProbe
    <3> QED BY <1>1, <1>2, <3>1 DEF Queue, Listed
  <2>3. ASSUME ProbeConnects \/ GreetWindowEnds \/ Nudge \/ NudgeWindowEnds,
               ~ \E tag \in Tag : Report(tag)
        PROVE  /\ UNCHANGED <<table, todo, reports, result>> /\ todo # <<>>
               /\ cpc \in {"connect", "greet window", "nudge"}
               /\ cpc' \in {"greet window", "nudge", "nudge window"}
    BY <2>3 DEF ProbeConnects, GreetWindowEnds, Nudge, NudgeWindowEnds, Tag,
                unlessProbe, Queue
  <2>4. ASSUME ProbeConnects \/ GreetWindowEnds \/ Nudge \/ NudgeWindowEnds
        PROVE  Queue'
    <3>1. CASE \E tag \in Tag : Report(tag)
      <4>1. todo # <<>> /\ cpc # "next"
        BY <2>4 DEF ProbeConnects, GreetWindowEnds, Nudge, NudgeWindowEnds, Queue
      <4> QED BY <1>7, <3>1, <4>1
    <3>2. CASE ~ \E tag \in Tag : Report(tag)
      <4>1. /\ UNCHANGED <<table, todo, reports, result>> /\ todo # <<>>
            /\ cpc \in {"connect", "greet window", "nudge"}
            /\ cpc' \in {"greet window", "nudge", "nudge window"}
        BY <2>3, <2>4, <3>2
      <4> QED BY <1>1, <4>1 DEF Queue, Listed
    <3> QED BY <3>1, <3>2
  <2>5. CASE DrainChunk
    BY <1>3, <2>5 DEF DrainChunk, unlessProbe
  <2> QED BY <1>8, <2>1, <2>2, <2>4, <2>5 DEF ProbeStep
<1> QED BY <1>4, <1>5, <1>6, <1>8 DEF Next

(* A finished probe has one report for every endpoint that listens and     *)
(* that the filters let pass.                                              *)
LEMMA QueueDone ==
  ASSUME Queue
  PROVE  ListenersProbedOnce
<1> SUFFICES ASSUME client = "probe", result # "none"
             PROVE  LET at == [i \in DOMAIN reports |-> reports[i].at]
                    IN IsInjective(at) /\ ToSet(at) = Found(table)
  <2>1. ASSUME client = "probe"
        PROVE  \A c \in ToSet(table.conns) :
                 Listens(c) <=> /\ c.bound
                                /\ c.kind = "udp" => ~c.connected
                                /\ c.kind = "tcp" => c.listening
    <3>1. table.conns \in Seq(Conn)
      BY <2>1, ProbeAssumption DEF Queue
    <3>2. ToSet(table.conns) = {table.conns[i] : i \in 1..Len(table.conns)}
      BY <3>1, LenProperties DEF ToSet
    <3>3. ToSet(table.conns) \subseteq Conn
      BY <3>1, <3>2, ElementOfSeq
    <3> QED BY <3>3 DEF Conn, Listens
  <2>2. ASSUME client = "probe"
        PROVE  Found(table) =
                 {l \in {Endpoint(c) : c \in ToSet(table.conns)} :
                    /\ Wanted(table, l)
                    /\ \E c \in ToSet(table.conns) :
                         /\ c.bound /\ Endpoint(c) = l
                         /\ c.kind = "udp" => ~c.connected
                         /\ c.kind = "tcp" => c.listening}
    BY <2>1, <2>2 DEF Found
  <2> QED BY <2>2 DEF ListenersProbedOnce
<1> DEFINE at == [i \in DOMAIN reports |-> reports[i].at]
<1>1. /\ table \in Tables /\ Listed \in Seq(Listener)
      /\ reports \in Seq(ReportType) /\ DOMAIN reports = 1..Len(reports)
      /\ Len(Listed) \in Nat /\ Len(reports) \in Nat
  BY ListIsSorted, LenProperties DEF Queue, Listed
<1>2. Len(reports) = Len(Listed)
  <2>1. todo = <<>> /\ cpc # "next" /\ Len(<<>>) = 0
    BY DEF Queue
  <2>2. Len(reports) + Len(todo) = Len(Listed)
    BY <2>1 DEF Queue
  <2> QED BY <1>1, <2>1, <2>2
<1>3. /\ DOMAIN at = 1..Len(Listed)
      /\ \A i \in 1..Len(Listed) : at[i] = Listed[i]
  BY <1>1, <1>2 DEF Queue
<1> HIDE DEF at
<1>4. IsInjective(at)
  <2>1. \A i, j \in 1..Len(Listed) : Listed[i] = Listed[j] => i = j
    BY <1>1, ListIsSorted DEF Listed
  <2> QED BY <1>3, <2>1 DEF IsInjective
<1>5. ToSet(at) = Found(table)
  <2>1. {Listed[i] : i \in 1..Len(Listed)} = Found(table)
    BY <1>1, ListIsSorted DEF Listed
  <2> QED BY <1>3, <2>1 DEF ToSet
<1> QED BY <1>4, <1>5 DEF at

(* Every endpoint that listens and that the filters let pass is probed     *)
(* once, for every socket table: sorting and filtering lose none, and the  *)
(* loop's listener and the list never part (probe_greeter.py:106-174 and   *)
(* 591-654).                                                               *)
THEOREM EachListenerOnce == Spec => []ListenersProbedOnce
BY QueueInit, QueueStep, QueueDone, PTL DEF Spec

(* The types hold initially.                                               *)
LEMMA TypeInvInit ==
  ASSUME Init
  PROVE  TypeInv
<1>1. WireOK
  BY WireFresh DEF Init, GreeterInit
<1>2. <<>> \in Seq(Byte) /\ Len(<<>>) = 0
  BY EmptySeq
<1>3. Given
  <2>1. CASE client = "prelauncher" \/ client = "smoke"
    <3>1. client # "probe"
      BY <2>1
    <3>2. Told
      BY <3>1, HandshakeInvInit DEF HandshakeInv
    <3> QED BY <3>2 DEF Told, Given
  <2>2. CASE ProbeInit
    <3>1. PICK r \in Responses : flags = Flags(Magic, r, 4096)
      BY <2>2 DEF ProbeInit
    <3>2. PICK nudge \in Payloads : plan = Plan(nudge, <<>>, "fin")
      BY <2>2 DEF ProbeInit
    <3> QED BY <1>2, <3>1, <3>2, GreeterAssumption DEF Flags, Plan, Given
  <2> QED BY <2>1, <2>2 DEF Init
<1>4. todo \in Seq(Listener)
  <2>1. CASE NoProbe
    BY <2>1, EmptySeq DEF NoProbe
  <2>2. CASE ProbeInit
    BY <2>2, ListIsSorted DEF ProbeInit
  <2> QED BY <2>1, <2>2 DEF Init
<1>5. /\ client \in Clients /\ server = "starting" /\ handler = "none"
      /\ payload = <<>> /\ verdict = "none" /\ cpc = "connect" /\ result = "none"
      /\ paused = FALSE /\ got = <<>> /\ reports = <<>> /\ refused = FALSE
      /\ spokeFirst = FALSE
  BY DEF Init, GreeterInit
<1>6. reports \in Seq([at : Listener, tag : Tag, some : BOOLEAN])
  BY <1>5, EmptySeq
<1>7. 0 <= flags.max
  BY <1>3 DEF Given
<1>8. WireTyped
  BY <1>1, WireIsTyped
<1>9. GreeterTypeOK
  BY <1>2, <1>5, <1>7, <1>8 DEF GreeterTypeOK, WireTyped
<1>10. TypeOK
  BY <1>2, <1>4, <1>5, <1>6, <1>9 DEF TypeOK
<1> QED BY <1>1, <1>3, <1>5, <1>10 DEF TypeInv, Probing

(* Every step keeps them.                                                  *)
LEMMA TypeInvStep ==
  ASSUME TypeInv, [Next]_vars
  PROVE  TypeInv'
<1>1. UNCHANGED <<client, flags, plan>>
  BY NothingToldChanges
<1>2. Given'
  BY <1>1 DEF TypeInv, Given
<1>3. WireOK'
  BY WireStays DEF TypeInv, TypeOK, GreeterTypeOK
<1>4. client' \in Clients
  BY <1>1 DEF TypeInv, TypeOK, GreeterTypeOK
<1>5. WireTyped'
  BY <1>3, WireIsTyped, PTL
<1>6. GreeterTypeOK'
  BY <1>4, <1>5, StatesStay, PayloadStays DEF GreeterTypeOK, WireTyped
<1>7. TypeOK' /\ Probing'
  BY <1>6, ProbeTypesStay DEF TypeOK, ReportType
<1> QED BY <1>2, <1>3, <1>7 DEF TypeInv

(* Every variable keeps its type, for every payload, table and banner: no  *)
(* more is read than has arrived, and nothing past the maximum.            *)
THEOREM ProbeTypeCorrect == Spec => []TypeOK
<1>1. TypeInv => TypeOK
  BY DEF TypeInv
<1> QED BY <1>1, TypeInvInit, TypeInvStep, PTL DEF Spec

-----------------------------------------------------------------------------
(* What the probe, its listener and the wire know of each other.  A        *)
(* greet_server answers only what its validator accepted, which is a       *)
(* prefix of the nudge; the bytes of a peer that come before the nudge     *)
(* were written before it.                                                 *)
Exchange ==
  client = "probe" =>
    /\ PayloadIsPrefix /\ flags.cfg = build_validator_cfg(Magic)
    /\ cpc \in {"connect", "greet window", "nudge", "nudge window", "next", "done"}
    /\ sent["client"] \in {<<>>, plan.greet}
    /\ cpc \in {"connect", "greet window", "nudge"} => sent["client"] = <<>>
    /\ cpc = "connect" =>
         got = <<>> /\ handler = "none" /\ sent["server"] = <<>>
    /\ cpc = "nudge" => got = <<>> /\ plan.greet # <<>>
    /\ got # <<>> => taken["server"] > 0
    /\ handler \in {"none", "reading"} => verdict = "none"
    /\ verdict = "ACCEPTED" => parse_handshake(payload, flags.cfg) = "ACCEPTED"
    /\ handler = "responding" => verdict = "ACCEPTED" /\ flags.response # <<>>
    /\ handler # "peer" /\ sent["server"] # <<>> =>
         verdict = "ACCEPTED" /\ flags.response # <<>>
    /\ handler = "peer" /\ sent["server"] # <<>> /\ sent["client"] = <<>> =>
         spokeFirst
    /\ AtGreeter => handler # "peer"
    /\ ~AtGreeter /\ cpc \in {"greet window", "nudge", "nudge window"} =>
         handler = "peer"

(* It holds before anything was sent.                                      *)
LEMMA ExchangeInit ==
  ASSUME Init
  PROVE  Exchange
<1> SUFFICES ASSUME client = "probe" PROVE Exchange
  BY DEF Exchange
<1>1. ProbeInit
  BY DEF Init
<1>2. /\ sent = [s \in Side |-> <<>>] /\ taken = [s \in Side |-> 0]
      /\ payload = <<>> /\ verdict = "none" /\ handler = "none"
      /\ cpc = "connect" /\ got = <<>>
  BY DEF Init, GreeterInit, FreshWire
<1>3. flags.cfg = build_validator_cfg(Magic)
  BY <1>1 DEF ProbeInit, Flags
<1>4. sent["client"] = <<>> /\ sent["server"] = <<>> /\ taken["client"] = 0
  BY <1>2 DEF Side
<1>5. PayloadIsPrefix
  <2>1. flags.max \in Nat
    BY TypeInvInit DEF TypeInv, Given
  <2> QED BY <1>2, <1>4, <2>1, EmptySeq DEF PayloadIsPrefix
<1> QED BY <1>2, <1>3, <1>4, <1>5 DEF Exchange

(* PayloadIsPrefix in every step of a probe and its listener.              *)
LEMMA PrefixStays ==
  ASSUME TypeInv, Exchange, client = "probe", [Next]_vars
  PROVE  PayloadIsPrefix'
<1>1. /\ WireTypes /\ PayloadIsPrefix /\ flags.max \in Nat
      /\ flags' = flags /\ plan' = plan
  BY NothingToldChanges DEF TypeInv, WireOK, Given, Exchange
<1>2. CASE ReadChunk
  BY <1>1, <1>2, ReadKeepsPrefix
<1>3. CASE NextListener
  <2>1. payload' = <<>> /\ taken'["client"] = 0 /\ sent'["client"] = <<>>
    BY <1>3 DEF NextListener, Side
  <2> QED BY <1>1, <2>1, EmptySeq DEF PayloadIsPrefix
<1>4. ASSUME UNCHANGED payload, UNCHANGED taken["client"],
             \/ sent'["client"] = sent["client"]
             \/ \E bytes \in Seq(Byte) : sent'["client"] = sent["client"] \o bytes
      PROVE  PayloadIsPrefix'
  BY <1>1, <1>4, PrefixKept
<1>5. CASE Nudge
  <2>1. UNCHANGED payload /\ UNCHANGED taken
    BY <1>5 DEF Nudge, Report, Close, Write, unlessProbe, unlessClient
  <2>2. \/ sent' = sent
        \/ sent'["client"] = sent["client"] \o plan.greet /\ plan.greet \in Seq(Byte)
    BY <1>1, <1>5 DEF Nudge, Report, Close, Write, WireTypes, Side, TypeInv, Given
  <2> QED BY <1>4, <2>1, <2>2
<1>6. CASE DrainChunk
  <2>1. UNCHANGED payload /\ UNCHANGED sent /\ UNCHANGED taken["client"]
    BY <1>1, <1>6 DEF DrainChunk, Read, Other, unlessProbe, unlessClient, WireTypes,
                      Side
  <2> QED BY <1>4, <2>1
<1>7. CASE PeerSpeaks \/ LoseDatagram \/ Respond
  <2>1. /\ UNCHANGED payload /\ UNCHANGED taken["client"]
        /\ sent'["client"] = sent["client"]
    BY <1>1, <1>7 DEF PeerSpeaks, LoseDatagram, Respond, Write, unlessClient,
                      WireTypes, Side, wireVars
  <2> QED BY <1>4, <2>1
<1>8. CASE UNCHANGED <<payload, taken, sent>>
  BY <1>4, <1>8
<1>9. ~Prelauncher /\ ~Smoke
  BY DEF Prelauncher, Smoke, SmokeTerminates
<1>10. CASE Wire \/ StartServer \/ ReadEnds \/ ReadBreaks \/ CloseClient
              \/ StopServer("exit 0")
  BY <1>8, <1>10 DEF Wire, Deliver, DeliverReset, serverVars, StartServer, ReadEnds,
                     ReadBreaks, CloseClient, StopServer, Close, wireVars
<1>11. CASE PeerCloses \/ ProbeEnds \/ ProbeConnects \/ GreetWindowEnds
              \/ NudgeWindowEnds
  BY <1>8, <1>11 DEF PeerCloses, ProbeEnds, ProbeConnects, GreetWindowEnds,
                     NudgeWindowEnds, Report, Close, unlessProbe, unlessClient,
                     wireVars
<1>12. CASE UNCHANGED vars
  BY <1>8, <1>12 DEF vars, greeterVars, serverVars, wireVars
<1> QED BY <1>2, <1>3, <1>5, <1>6, <1>7, <1>9, <1>10, <1>11, <1>12
        DEF Next, ServerNext, Handler, ProbeStep

(* Every step keeps it.                                                    *)
LEMMA ExchangeStep ==
  ASSUME TypeInv, Exchange, [Next]_vars
  PROVE  Exchange'
<1>1. UNCHANGED <<client, flags, plan>>
  BY NothingToldChanges
<1> SUFFICES ASSUME client = "probe" PROVE Exchange'
  BY <1>1 DEF Exchange
<1>2. PayloadIsPrefix'
  BY PrefixStays
<1>3. WireTypes /\ plan.greet \in Seq(Byte)
  BY DEF TypeInv, WireOK, Given
<1>4. ~Prelauncher /\ ~Smoke
  BY DEF Prelauncher, Smoke, SmokeTerminates
<1> USE DEF AtGreeter
<1>5. CASE (Wire \/ StartServer) /\ UNCHANGED probeVars
  <2>1. UNCHANGED <<handler, payload, verdict, cpc, sent, taken, probeVars>>
    BY <1>5 DEF Wire, Deliver, DeliverReset, serverVars, StartServer, unlessServer,
                wireVars
  <2> QED BY <1>1, <1>2, <2>1 DEF Exchange, probeVars
<1>6. CASE ReadChunk /\ UNCHANGED probeVars
  <2>1. /\ UNCHANGED <<handler, verdict, cpc, sent, probeVars>>
        /\ taken'["server"] = taken["server"] /\ handler = "reading"
    BY <1>3, <1>6 DEF ReadChunk, Read, Other, unlessServer, WireTypes, Side
  <2>2. verdict = "none"
    BY <2>1 DEF Exchange
  <2> QED BY <1>1, <1>2, <2>1, <2>2 DEF Exchange, probeVars
<1>7. CASE ReadEnds /\ UNCHANGED probeVars
  <2>1. /\ UNCHANGED <<payload, cpc, wireVars, probeVars>> /\ handler = "reading"
        /\ verdict' = parse_handshake(payload, flags.cfg)
        /\ handler' = IF verdict' = "ACCEPTED" /\ flags.response # <<>>
                      THEN "responding" ELSE "closing"
    BY <1>7 DEF ReadEnds, unlessServer
  <2>2. verdict = "none" /\ sent["server"] = <<>> /\ cpc # "connect"
    BY <2>1 DEF Exchange
  <2>3. AtGreeter \/ cpc \in {"next", "done"}
    BY <2>1, <2>2 DEF Exchange
  <2> QED BY <1>1, <1>2, <2>1, <2>2, <2>3 DEF Exchange, wireVars, probeVars
<1>8. CASE (ReadBreaks \/ CloseClient) /\ UNCHANGED probeVars
  <2>1. /\ UNCHANGED <<payload, verdict, cpc, sent, taken, probeVars>>
        /\ handler \in {"reading", "closing"} /\ handler' \in {"closing", "closed"}
    BY <1>8 DEF ReadBreaks, CloseClient, Close, unlessServer, wireVars
  <2> QED BY <1>1, <1>2, <2>1 DEF Exchange, probeVars
<1>9. CASE Respond /\ UNCHANGED probeVars
  <2>1. /\ UNCHANGED <<payload, verdict, cpc, taken, probeVars>>
        /\ handler = "responding" /\ handler' = "closing"
        /\ sent'["client"] = sent["client"]
    BY <1>3, <1>9 DEF Respond, Write, unlessServer, wireVars, WireTypes, Side
  <2> QED BY <1>1, <1>2, <2>1 DEF Exchange, probeVars
<1>10. CASE StopServer("exit 0") /\ UNCHANGED probeVars
  <2>1. /\ UNCHANGED <<payload, verdict, cpc, sent, taken, probeVars>>
        /\ \/ handler' = handler
           \/ /\ handler \in {"reading", "responding", "closing"}
              /\ handler' = "closed"
    BY <1>10 DEF StopServer, Close, unlessServer, wireVars
  <2> QED BY <1>1, <1>2, <2>1 DEF Exchange, probeVars
<1>11. CASE PeerSpeaks
  <2>1. /\ UNCHANGED <<payload, verdict, cpc, taken, handler, todo, got>>
        /\ handler = "peer" /\ sent'["client"] = sent["client"]
        /\ spokeFirst' = (spokeFirst \/ sent["client"] = <<>>)
    BY <1>3, <1>11 DEF PeerSpeaks, Write, unlessClient, WireTypes, Side
  <2> QED BY <1>1, <1>2, <2>1 DEF Exchange
<1>12. CASE PeerCloses
  <2>1. UNCHANGED <<payload, verdict, cpc, sent, taken, handler, probeVars>>
    BY <1>12 DEF PeerCloses, Close, unlessClient
  <2> QED BY <1>1, <1>2, <2>1 DEF Exchange, probeVars
<1>13. CASE LoseDatagram
  <2>1. /\ UNCHANGED <<payload, verdict, cpc, taken, handler, probeVars>>
        /\ handler = "peer" /\ sent'["client"] = sent["client"]
        /\ sent["server"] # <<>>
    <3>1. sent["server"] # <<>>
      <4>1. /\ arrived["server"] \in Nat /\ arrived["server"] < Len(sent["server"])
        BY <1>3, <1>13 DEF LoseDatagram, WireTypes, Side
      <4> QED BY <4>1, EmptySeq
    <3> QED BY <1>3, <1>13, <3>1 DEF LoseDatagram, unlessClient, WireTypes, Side
  <2> QED BY <1>1, <1>2, <2>1 DEF Exchange, probeVars
<1>14. ASSUME NEW tag, Report(tag), cpc # "next"
       PROVE  Exchange'
  <2>1. /\ UNCHANGED <<payload, verdict, sent, taken, handler, todo, got, spokeFirst>>
        /\ cpc' = "next"
    BY <1>14 DEF Report, Close, unlessProbe, unlessClient
  <2> QED BY <1>1, <1>2, <2>1 DEF Exchange
<1>15. CASE NextListener
  <2>1. /\ payload' = <<>> /\ verdict' = "none" /\ handler' = "none"
        /\ cpc' = "connect" /\ got' = <<>> /\ sent'["client"] = <<>>
        /\ sent'["server"] = <<>>
    BY <1>15 DEF NextListener, Side
  <2> QED BY <1>1, <1>2, <2>1 DEF Exchange
<1>16. CASE ProbeEnds
  <2>1. /\ UNCHANGED <<payload, verdict, sent, taken, handler, todo, got, spokeFirst>>
        /\ cpc' = "done" /\ cpc = "connect"
    BY <1>16 DEF ProbeEnds, Finish, wireVars, unlessProbe, unlessClient
  <2> QED BY <1>1, <1>2, <2>1 DEF Exchange
<1>17. CASE ProbeConnects
  <2>1. CASE \E tag : Report(tag)
    BY <1>14, <1>17, <2>1 DEF ProbeConnects
  <2>2. CASE ~ \E tag : Report(tag)
    <3>1. /\ UNCHANGED <<payload, verdict, sent, taken, todo, got, spokeFirst>>
          /\ cpc = "connect" /\ cpc' = "greet window"
          /\ handler' = IF AtGreeter THEN "reading" ELSE "peer"
      BY <1>17, <2>2 DEF ProbeConnects, wireVars, unlessProbe, unlessClient
    <3> QED BY <1>1, <1>2, <3>1 DEF Exchange
  <2> QED BY <2>1, <2>2
<1>18. CASE DrainChunk
  <2>1. /\ UNCHANGED <<payload, verdict, sent, todo, handler, cpc, spokeFirst>>
        /\ cpc \in {"greet window", "nudge window"}
    BY <1>18 DEF DrainChunk, Read, Windows, unlessProbe, unlessClient
  <2>2. taken'["server"] > 0
    <3> DEFINE n == IF Head(todo).kind = "udp" THEN 1 ELSE Len(Here("server"))
    <3>1. taken' = [taken EXCEPT !["server"] = @ + n]
      BY <1>18 DEF DrainChunk, Read, Other
    <3>2. Len(Here("server")) \in Nat /\ Len(Here("server")) > 0
      <4>1. Here("server") \in Seq(Byte) /\ Here("server") # <<>>
        BY <1>18, HereBytes DEF DrainChunk, TypeInv, Side
      <4> QED BY <4>1, EmptySeq
    <3>3. n \in Nat /\ n > 0
      BY <3>2
    <3>4. taken["server"] \in Nat /\ taken'["server"] = taken["server"] + n
      BY <1>3, <3>1 DEF WireTypes, Side
    <3> HIDE DEF n
    <3> QED BY <3>3, <3>4
  <2> QED BY <1>1, <1>2, <2>1, <2>2 DEF Exchange
<1>19. CASE GreetWindowEnds
  <2>1. CASE \E tag : Report(tag)
    BY <1>14, <1>19, <2>1 DEF GreetWindowEnds
  <2>2. CASE ~ \E tag : Report(tag)
    <3>1. /\ UNCHANGED <<payload, verdict, sent, taken, todo, got, handler, spokeFirst>>
          /\ cpc = "greet window" /\ cpc' = "nudge"
          /\ got = <<>> /\ plan.greet # <<>>
      BY <1>19, <2>2 DEF GreetWindowEnds, wireVars, unlessProbe, unlessClient
    <3> QED BY <1>1, <1>2, <3>1 DEF Exchange
  <2> QED BY <2>1, <2>2
<1>20. CASE Nudge
  <2>1. CASE \E tag : Report(tag)
    BY <1>14, <1>20, <2>1 DEF Nudge
  <2>2. CASE ~ \E tag : Report(tag)
    <3>1. /\ UNCHANGED <<payload, verdict, taken, todo, got, handler, spokeFirst>>
          /\ cpc = "nudge" /\ cpc' = "nudge window"
          /\ sent' = [sent EXCEPT !["client"] = @ \o plan.greet]
      BY <1>20, <2>2 DEF Nudge, Write, unlessProbe, unlessClient
    <3>2. sent["client"] = <<>> /\ plan.greet # <<>>
      BY <3>1 DEF Exchange
    <3>3. /\ sent'["client"] = plan.greet
          /\ sent'["server"] = sent["server"]
      BY <1>3, <3>1, <3>2, ConcatEmptySeq DEF WireTypes, Side
    <3> QED BY <1>1, <1>2, <3>1, <3>2, <3>3 DEF Exchange
  <2> QED BY <2>1, <2>2
<1>21. CASE NudgeWindowEnds
  BY <1>14, <1>21 DEF NudgeWindowEnds
<1>22. CASE UNCHANGED vars
  <2>1. UNCHANGED <<payload, verdict, cpc, sent, taken, handler, probeVars>>
    BY <1>22 DEF vars, greeterVars, serverVars, wireVars
  <2> QED BY <1>1, <1>2, <2>1 DEF Exchange, probeVars
<1> QED BY <1>4, <1>5, <1>6, <1>7, <1>8, <1>9, <1>10, <1>11, <1>12, <1>13, <1>15,
           <1>16, <1>17, <1>18, <1>19, <1>20, <1>21, <1>22
        DEF Next, ServerNext, Handler, ProbeStep

(* A magic number that a string starts with is at the start of every       *)
(* longer one: the probe's validator accepts no prefix of a nudge that it  *)
(* would not accept whole.                                                 *)
LEMMA MagicOnly ==
  ASSUME NEW cfg, cfg = build_validator_cfg(Magic), NEW p \in Seq(Byte),
         NEW q \in Seq(Byte), Len(p) <= Len(q),
         \A i \in 1..Len(p) : p[i] = q[i],
         parse_handshake(p, cfg) = "ACCEPTED"
  PROVE  parse_handshake(q, cfg) = "ACCEPTED"
<1>1. /\ cfg.magic = {MagicBytes} /\ cfg.prefixLen = 0 /\ cfg.version = {}
      /\ cfg.version_min = {} /\ cfg.version_max = {} /\ cfg.token = {}
  BY CatalogueCfgs DEF Cfg
<1>2. p # <<>> /\ IsPrefix(MagicBytes, p)
  BY <1>1 DEF parse_handshake, validate_handshake
<1>3. Len(p) \in Nat /\ Len(q) \in Nat /\ Len(p) > 0
  BY <1>2, EmptySeq, LenProperties
<1>4. q # <<>>
  BY <1>3, EmptySeq
<1>5. MagicBytes \in Seq(Byte) /\ Len(MagicBytes) = 2
  BY DEF MagicBytes, Byte
<1>6. IsPrefix(MagicBytes, q)
  <2>1. /\ Len(MagicBytes) <= Len(p)
        /\ \A i \in 1..Len(MagicBytes) : MagicBytes[i] = p[i]
    BY <1>2, <1>5, PrefixByPlaces
  <2>2. /\ Len(MagicBytes) <= Len(q)
        /\ \A i \in 1..Len(MagicBytes) : MagicBytes[i] = q[i]
    BY <1>3, <1>5, <2>1
  <2> QED BY <1>5, <2>2, PrefixByPlaces
<1>7. validate_handshake(q, cfg) /\ validator_cfg_has_any(cfg)
  BY <1>1, <1>6 DEF validate_handshake, LengthOK, VersionOK, HasVersion,
                    validator_cfg_has_any
<1> QED BY <1>4, <1>7 DEF parse_handshake

(* A greet_server has answered only a nudge that its validator accepts.    *)
LEMMA AnswerIsDeserved ==
  ASSUME TypeInv, Exchange, client = "probe", handler # "peer",
         sent["server"] # <<>>
  PROVE  /\ sent["client"] # <<>>
         /\ parse_handshake(plan.greet, flags.cfg) = "ACCEPTED"
         /\ flags.response # <<>>
<1>1. /\ parse_handshake(payload, flags.cfg) = "ACCEPTED"
      /\ flags.response # <<>> /\ flags.cfg = build_validator_cfg(Magic)
      /\ PayloadIsPrefix /\ sent["client"] \in {<<>>, plan.greet}
  BY DEF Exchange
<1>2. /\ payload \in Seq(Byte) /\ sent["client"] \in Seq(Byte)
      /\ Len(payload) <= Len(sent["client"])
      /\ \A i \in 1..Len(payload) : payload[i] = sent["client"][i]
  BY <1>1 DEF PayloadIsPrefix, TypeInv, WireOK, WireTypes, Side
<1>3. payload # <<>>
  BY <1>1 DEF parse_handshake
<1>4. sent["client"] # <<>>
  BY <1>2, <1>3, EmptySeq
<1>5. sent["client"] = plan.greet
  BY <1>1, <1>4
<1>6. parse_handshake(sent["client"], flags.cfg) = "ACCEPTED"
  BY <1>1, <1>2, MagicOnly
<1> QED BY <1>1, <1>4, <1>5, <1>6

(* What the probe has read its listener has written, lost datagrams apart. *)
LEMMA ReadWasSent ==
  ASSUME TypeInv, Exchange, client = "probe", got # <<>>
  PROVE  sent["server"] # <<>>
<1> SUFFICES ASSUME sent["server"] = <<>> PROVE FALSE
  OBVIOUS
<1>1. /\ taken["server"] > 0 /\ taken["server"] <= Len(sent["server"])
      /\ taken["server"] \in Nat
  BY DEF Exchange, TypeInv, WireOK, WireTypes, Side
<1> QED BY <1>1

(* A report is made from one of these places.                              *)
LEMMA ReportTellsTruth ==
  ASSUME TypeInv, Exchange, client = "probe", NEW tag \in Tag, todo # <<>>,
         \/ /\ cpc = "connect" /\ tag \in {"refused", "connect-failed"}
         \/ /\ cpc = "nudge" /\ tag = "send-failed"
         \/ /\ cpc = "greet window" /\ tag = "greet" /\ got # <<>>
         \/ /\ cpc = "greet window" /\ tag = "silent" /\ plan.greet = <<>>
            /\ got = <<>> \/ Head(todo).kind # "udp"
         \/ /\ cpc = "nudge window"
            /\ tag = IF got = <<>> THEN "silent-nudged" ELSE "post-nudge"
  PROVE  /\ tag = "greet" =>
              spokeFirst /\ sent["client"] = <<>> /\ Head(todo) # GreeterEndpoint
         /\ got # <<>> =>
              \/ tag \in {"greet", "post-nudge"}
              \/ tag = "silent" /\ plan.greet = <<>> /\ Head(todo).kind = "tcp"
         /\ tag = "post-nudge" /\ Head(todo) = GreeterEndpoint =>
              parse_handshake(plan.greet, flags.cfg) = "ACCEPTED"
                /\ flags.response # <<>>
<1>1. got # <<>> => sent["server"] # <<>>
  BY ReadWasSent
<1>2. Head(todo).kind \in {"tcp", "udp"}
  <2>1. Head(todo) \in Listener
    BY HeadTailProperties DEF TypeInv, TypeOK
  <2> QED BY <2>1 DEF Listener
<1>3. cpc \in {"connect", "nudge"} => got = <<>>
  BY DEF Exchange
<1>4. ASSUME tag = "greet"
      PROVE  spokeFirst /\ sent["client"] = <<>> /\ ~AtGreeter
  <2>1. cpc = "greet window" /\ got # <<>> /\ sent["client"] = <<>>
    BY <1>4 DEF Exchange
  <2>2. handler = "peer"
    BY <1>1, <2>1, AnswerIsDeserved
  <2> QED BY <1>1, <2>1, <2>2 DEF Exchange
<1>5. ASSUME tag = "post-nudge", AtGreeter
      PROVE  parse_handshake(plan.greet, flags.cfg) = "ACCEPTED"
               /\ flags.response # <<>>
  <2>1. got # <<>> /\ handler # "peer"
    BY <1>5 DEF Exchange
  <2> QED BY <1>1, <2>1, AnswerIsDeserved
<1> QED BY <1>2, <1>3, <1>4, <1>5 DEF AtGreeter

(* Whatever a listener says and whenever its bytes come or go missing, the *)
(* probe's tag tells who spoke first, and a greet_server's answer is to a  *)
(* nudge that its validator accepts (probe_greeter.py:290-456,             *)
(* greet_server.py:248-397).                                               *)
THEOREM TagsTellTruth == Spec => TagTellsTruth
<1>1. TypeInv /\ Exchange /\ [Next]_vars =>
        [\A i \in DOMAIN reports' \ DOMAIN reports :
           LET r == reports'[i] IN
           /\ r.tag = "greet" =>
                spokeFirst /\ sent["client"] = <<>> /\ r.at # GreeterEndpoint
           /\ r.some =>
                \/ r.tag \in {"greet", "post-nudge"}
                \/ r.tag = "silent" /\ plan.greet = <<>> /\ r.at.kind = "tcp"
           /\ r.tag = "post-nudge" /\ r.at = GreeterEndpoint =>
                parse_handshake(plan.greet, flags.cfg) = "ACCEPTED"
                  /\ flags.response # <<>>]_vars
  <2> SUFFICES ASSUME TypeInv, Exchange, [Next]_vars,
                      NEW i \in DOMAIN reports' \ DOMAIN reports
               PROVE  LET r == reports'[i] IN
                      /\ r.tag = "greet" =>
                           spokeFirst /\ sent["client"] = <<>> /\ r.at # GreeterEndpoint
                      /\ r.some =>
                           \/ r.tag \in {"greet", "post-nudge"}
                           \/ r.tag = "silent" /\ plan.greet = <<>>
                                /\ r.at.kind = "tcp"
                      /\ r.tag = "post-nudge" /\ r.at = GreeterEndpoint =>
                           parse_handshake(plan.greet, flags.cfg) = "ACCEPTED"
                             /\ flags.response # <<>>
    OBVIOUS
  <2>1. ~ UNCHANGED reports
    OBVIOUS
  <2>2. /\ client = "probe"
        /\ ProbeConnects \/ GreetWindowEnds \/ Nudge \/ NudgeWindowEnds
    BY <2>1 DEF Next, probeVars, PeerSpeaks, PeerCloses, LoseDatagram, ProbeStep,
                NextListener, ProbeEnds, DrainChunk, vars
  <2>3. todo # <<>>
    BY <2>2 DEF ProbeConnects, GreetWindowEnds, Nudge, NudgeWindowEnds, TypeInv,
                Probing
  <2>4. PICK tag \in Tag :
          /\ Report(tag)
          /\ \/ /\ cpc = "connect" /\ tag \in {"refused", "connect-failed"}
             \/ /\ cpc = "nudge" /\ tag = "send-failed"
             \/ /\ cpc = "greet window" /\ tag = "greet" /\ got # <<>>
             \/ /\ cpc = "greet window" /\ tag = "silent" /\ plan.greet = <<>>
                /\ got = <<>> \/ Head(todo).kind # "udp"
             \/ /\ cpc = "nudge window"
                /\ tag = IF got = <<>> THEN "silent-nudged" ELSE "post-nudge"
    <3>1. CASE ProbeConnects
      BY <2>1, <3>1 DEF ProbeConnects, Tag
    <3>2. CASE GreetWindowEnds
      BY <2>1, <3>2 DEF GreetWindowEnds, Tag
    <3>3. CASE Nudge
      BY <2>1, <3>3 DEF Nudge, Tag
    <3>4. CASE NudgeWindowEnds
      BY <2>1, <3>4 DEF NudgeWindowEnds, Tag
    <3> QED BY <2>2, <3>1, <3>2, <3>3, <3>4
  <2> DEFINE r == [at |-> Head(todo), tag |-> tag, some |-> got # <<>>]
  <2>5. reports' = Append(reports, r) /\ reports \in Seq(ReportType)
    BY <2>4 DEF Report, TypeInv, TypeOK, ReportType
  <2>6. r \in ReportType
    <3>1. Head(todo) \in Listener
      BY <2>3, HeadTailProperties DEF TypeInv, TypeOK
    <3> QED BY <3>1 DEF ReportType
  <2>7. r.at = Head(todo) /\ r.tag = tag /\ r.some = (got # <<>>)
    OBVIOUS
  <2> HIDE DEF r
  <2>8. reports'[i] = r
    <3>1. /\ Append(reports, r) \in Seq(ReportType)
          /\ Len(Append(reports, r)) = Len(reports) + 1
          /\ Append(reports, r)[Len(reports) + 1] = r
      BY <2>5, <2>6, AppendProperties
    <3>2. /\ DOMAIN reports = 1..Len(reports) /\ Len(reports) \in Nat
          /\ DOMAIN reports' = 1..Len(reports) + 1
      BY <2>5, <3>1, LenProperties
    <3>3. i = Len(reports) + 1
      BY <3>2
    <3> QED BY <2>5, <3>1, <3>3
  <2> QED BY <2>2, <2>3, <2>4, <2>7, <2>8, ReportTellsTruth
<1> QED BY <1>1, TypeInvInit, TypeInvStep, ExchangeInit, ExchangeStep, PTL
        DEF Spec, TagTellsTruth
=============================================================================
