----------------------------- MODULE MCGreeter -------------------------------
(***************************************************************************)
(* Small values for Probe: handshakes that end in the middle of a field, a *)
(* maximum that cuts one, and socket tables with duplicates, connections,  *)
(* both kinds of listener and both families of address.                    *)
(***************************************************************************)
EXTENDS Probe

MCPayloads == {<<>>, <<170, 85, 2>>, <<170>>, <<85, 2>>, <<0, 0, 0, 0>>}
MCResponses == {<<>>, <<79, 75>>}
MCMaxHandshake == {2, 4096}
MCBanner == <<72>>

Socket(kind, ip, port, up) ==
  [kind |-> kind, ip |-> ip, port |-> port, bound |-> TRUE,
   listening |-> up, connected |-> ~up]
Table(conns, skip, port) == [conns |-> conns, skip_udp |-> skip, port |-> port]

Mixed == <<Socket("udp", 4, 2, TRUE), Socket("tcp", 4, 1, TRUE),
           Socket("tcp", 4, 1, TRUE), Socket("tcp", 4, 1, FALSE),
           Socket("udp", 4, 3, FALSE)>>
DualStack == <<Socket("tcp", 6, 2, TRUE), Socket("udp", 4, 3, TRUE),
               Socket("tcp", 4, 2, TRUE)>>
MCTables == {Table(Mixed, FALSE, 0), Table(Mixed, TRUE, 0),
             Table(Mixed, FALSE, 3), Table(DualStack, FALSE, 2)}
=============================================================================
