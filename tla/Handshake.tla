----------------------------- MODULE Handshake -------------------------------
(***************************************************************************)
(* What tools/greet_server.py decides of a handshake's bytes, and the      *)
(* scenarios tools/_validator_smoke.py expects a verdict for.  A byte is a *)
(* number, an option that may be missing a set of at most one value.       *)
(***************************************************************************)
EXTENDS Integers, Sequences, SequencesExt

Byte == 0..255

(* The command line's --validator options, all missing.                    *)
NoFlags == [magic |-> {}, prefixLen |-> 0, version |-> {}, version_min |-> {},
            version_max |-> {}, token |-> {}]

(* An exact version hides the range.                                       *)
build_validator_cfg(flags) ==
  IF flags.version = {} THEN flags
  ELSE [flags EXCEPT !.version_min = {}, !.version_max = {}]

HasVersion(cfg) == cfg.version \union cfg.version_min \union cfg.version_max # {}

validator_cfg_has_any(cfg) ==
  cfg.magic # {} \/ cfg.prefixLen > 0 \/ HasVersion(cfg) \/ cfg.token # {}

LittleEndian(bytes) ==
  LET value[i \in 0..Len(bytes)] ==
        IF i = Len(bytes) THEN 0 ELSE bytes[i + 1] + 256 * value[i + 1]
  IN value[0]

Occurs(part, bytes) ==
  \E i \in 0..Len(bytes) - Len(part) :
    part = SubSeq(bytes, i + 1, i + Len(part))

(* Where the cursor stands after the magic and after the length prefix.    *)
AfterMagic(cfg) == IF cfg.magic = {} THEN 0
                   ELSE Len(CHOOSE m \in cfg.magic : TRUE)
AfterPrefix(cfg) == AfterMagic(cfg) + cfg.prefixLen

(* Mutant: the version byte is read at the start of the payload.           *)
VersionOK_unmoved(p, cfg) ==
  HasVersion(cfg) =>
    /\ Len(p) > 0
    /\ \A v \in cfg.version : p[1] = v
    /\ \A v \in cfg.version_min : p[1] >= v
    /\ \A v \in cfg.version_max : p[1] <= v

VersionOK(p, cfg) ==
  LET at == AfterPrefix(cfg) + 1 IN
  HasVersion(cfg) =>
    /\ Len(p) >= at
    /\ \A v \in cfg.version : p[at] = v
    /\ \A v \in cfg.version_min : p[at] >= v
    /\ \A v \in cfg.version_max : p[at] <= v

(* The declared length may count the version byte and may be too small.    *)
LengthOK(p, cfg) ==
  LET at == AfterPrefix(cfg) IN
  cfg.prefixLen > 0 =>
    /\ Len(p) >= at
    /\ LittleEndian(SubSeq(p, AfterMagic(cfg) + 1, at)) <= Len(p) - at

validate_handshake(p, cfg) ==
  /\ \A m \in cfg.magic : IsPrefix(m, p)
  /\ LengthOK(p, cfg)
  /\ VersionOK(p, cfg)
  /\ \A t \in cfg.token : Occurs(t, p)

parse_handshake(p, cfg) ==
  IF p # <<>> /\ validator_cfg_has_any(cfg) /\ validate_handshake(p, cfg)
  THEN "ACCEPTED" ELSE "REJECTED"

-----------------------------------------------------------------------------
Magic == [NoFlags EXCEPT !.magic = {<<170, 85>>}]
Exact(v) == [Magic EXCEPT !.version = {v}]
Between(a, b) == [Magic EXCEPT !.version_min = {a}, !.version_max = {b}]
Prefixed == [Exact(7) EXCEPT !.prefixLen = 4]
Secret == <<115, 51, 99, 114, 51, 116>>
Token == [NoFlags EXCEPT !.token = {Secret}]

Scenario(cli, payload, expect) ==
  [cli |-> cli, payload |-> payload, expect |-> expect]

DEFAULT_SCENARIOS == {
  Scenario(NoFlags, <<170, 85>>, "REJECTED"),
  Scenario(Magic, <<170, 85, 255, 1>>, "ACCEPTED"),
  Scenario(Magic, <<187, 85, 255, 1>>, "REJECTED"),
  Scenario(Exact(2), <<170, 85, 2>>, "ACCEPTED"),
  Scenario(Exact(2), <<170, 85, 3>>, "REJECTED"),
  Scenario(Between(1, 3), <<170, 85, 2>>, "ACCEPTED"),
  Scenario(Between(1, 3), <<170, 85, 4>>, "REJECTED"),
  Scenario(Prefixed, <<170, 85, 1, 0, 0, 0, 7, 238>>, "ACCEPTED"),
  Scenario(Prefixed, <<170, 85, 231, 3, 0, 0, 7>>, "REJECTED"),
  Scenario(Token, <<222, 173, 190, 239>> \o Secret \o <<0>>, "ACCEPTED"),
  Scenario(Token, <<222, 173, 190, 239, 202, 254, 186, 190>>, "REJECTED") }
=============================================================================
