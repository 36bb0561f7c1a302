--------------------------------- MODULE Setup ---------------------------------
(***************************************************************************)
(* Who listens and who dials is worked out four times: by the two wizards  *)
(* (wizard.go), by the tunnel editor (tunnels.go) and by the process that  *)
(* loads the file (config.go).  Two boxes, each with one tunnel, are set   *)
(* up and edited here, in any order and with any answers; an address is    *)
(* only set or blank, and of the kcp numbers the FEC shards are kept.      *)
(***************************************************************************)
EXTENDS Naturals, Sequences, FiniteSets

CONSTANTS None,
          MaxDisguises,  \* entries of one disguise list
          Presets        \* the named kcp presets that are picked

VARIABLE conf  \* [Roles -> None or the configuration on disk]

Roles == {"server", "client"}
Directions == {"reverse", "direct"}
Types == <<"wss", "noise", "plain", "kcp", "quic">>  \* the order askDisguises has
NoFEC == <<0, 0>>
Unset == "unset"  \* an empty preset
Named == {"balance", "turbo", "throughput"}

ASSUME SetupAssumption == MaxDisguises \in Nat /\ Presets \subseteq Named

\* dialsOut, in the loaded configuration.
DialsOut(r, direction) == (r = "server") = (direction = "direct")

\* applyKCPPreset: data and parity shards of a named preset.
Shards(preset) ==
  CASE preset = "balance" -> <<10, 2>> [] preset = "turbo" -> <<10, 3>>
    [] preset = "throughput" -> <<10, 1>>

\* askKCPSettings: a preset with its numbers, or numbers typed by hand (others
\* than these two load like a preset's).
KCPSettings ==
  {[preset |-> p, fec |-> Shards(p)] : p \in Presets}
    \cup {[preset |-> "custom", fec |-> f] : f \in {NoFEC, <<10, 0>>}}

\* The ask*DisguiseAnswer questions, and the block written from their answers.
Answer(type, listens) ==
  {[type |-> type, listen |-> listens, dial |-> ~listens, kcp |-> k] :
     k \in IF type = "kcp" THEN KCPSettings ELSE {[preset |-> Unset, fec |-> NoFEC]}}

\* askDisguises: some of the types not excluded, at least one, in this order.
AskDisguises(listens, exclude) ==
  LET answers == UNION {Answer(Types[i], listens) : i \in {j \in 1..5 : Types[j] \notin exclude}}
      Place(a) == CHOOSE i \in 1..5 : Types[i] = a.type
  IN {l \in UNION {[1..n -> answers] : n \in 1..(MaxDisguises - Cardinality(exclude))} :
        \A i, j \in DOMAIN l : i < j => Place(l[i]) < Place(l[j])}

\* askTransportMode: the mode and type of each menu entry.
Transports(direction) ==
  {<<"tcp", "plain">>, <<"tcpmux", "plain">>, <<"tcpmux", "noise">>,
   <<"tcpmux", "wss">>, <<"tcpmux", "kcp">>, <<"tcpmux", "quic">>}
    \cup IF direction = "reverse" THEN {<<"udp", "plain">>} ELSE {}

\* askTransportMode: one disguise, and backups if asked for, never in mode udp.
Lists(mode, type, listens) ==
  LET backups == {<<>>} \cup IF mode = "udp" THEN {} ELSE AskDisguises(listens, {type})
  IN UNION {{<<a>> \o more : more \in backups} : a \in Answer(type, listens)}

\* validate, of a configuration with a token, ports and idle bounds in order.
Loads(r, c) ==
  /\ c.mode = "udp" => c.direction = "reverse"
  /\ c.dis # <<>>
  /\ \A i \in 1..Len(c.dis) :
       LET d == c.dis[i]
       IN /\ d.type = "kcp" /\ d.kcp.preset \in {Unset, "custom"} => ~(d.kcp.fec[1] > 0 /\ d.kcp.fec[2] = 0)
          /\ IF DialsOut(r, c.direction) THEN d.dial ELSE d.listen

-------------------------------------------------------------------------------
\* A file copied from examples/, or one with a kcp entry and a preset's name.
ByHand(r) ==
  {None} \cup {[mode |-> "tcpmux", direction |-> "reverse",
                dis |-> <<[type |-> t, listen |-> r = "server", dial |-> r = "client",
                           kcp |-> [preset |-> IF t = "kcp" THEN "turbo" ELSE Unset, fec |-> NoFEC]]>>] :
                  t \in {"plain", "kcp"}}

Init ==
  conf \in {[r \in Roles |-> IF r = "server" THEN s ELSE c] :
              s \in ByHand("server"), c \in ByHand("client")}

Save(r, c) == conf' = [conf EXCEPT ![r] = c]

\* wizardServerBody and renderServerTOML.
WizardServer ==
  \E direction \in Directions :
    LET listens == direction # "direct"
    IN \E t \in Transports(direction) : \E ds \in Lists(t[1], t[2], listens) :
         Save("server", [mode |-> t[1], direction |-> direction, dis |-> ds])

\* Mutant of the next action: the client never listens.
WizardClientDials ==
  \E direction \in Directions :
    \E t \in Transports(direction) : \E ds \in Lists(t[1], t[2], FALSE) :
      Save("client", [mode |-> t[1], direction |-> direction, dis |-> ds])

\* wizardClientBody and renderClientTOML.
WizardClient ==
  \E direction \in Directions :
    LET listens == direction = "direct"
    IN \E t \in Transports(direction) : \E ds \in Lists(t[1], t[2], listens) :
         Save("client", [mode |-> t[1], direction |-> direction, dis |-> ds])

\* editTunnelBody: a configuration that loads gets other disguises, and is saved
\* as it is.
EditDisguises(r) ==
  /\ conf[r] # None /\ Loads(r, conf[r])
  /\ \E ds \in AskDisguises(~DialsOut(r, conf[r].direction), {}) :
       Save(r, [conf[r] EXCEPT !.dis = ds])

Next == WizardServer \/ WizardClient \/ \E r \in Roles : EditDisguises(r)

Spec == Init /\ [][Next]_conf

-------------------------------------------------------------------------------
(* Properties.                                                             *)

\* Part of PeersMeet: a configuration the menus wrote is one the process loads and the menus can
\* edit again, unless FEC was asked for with data shards and no parity.
WrittenLoads ==
  \A r \in Roles :
    conf[r] # None /\ ~Loads(r, conf[r]) =>
      \E i \in 1..Len(conf[r].dis) : conf[r].dis[i].kcp = [preset |-> "custom", fec |-> <<10, 0>>]

\* Two boxes given the same direction, whoever wrote and edited their files,
\* have one that listens and one that dials on every disguise they share, and
\* both load.
PeersMeet ==
  LET s == conf["server"] c == conf["client"]
  IN /\ WrittenLoads
     /\ s # None /\ c # None /\ s.direction = c.direction =>
         \A i \in 1..Len(s.dis), j \in 1..Len(c.dis) :
           s.dis[i].type = c.dis[j].type =>
             s.dis[i].listen = c.dis[j].dial /\ s.dis[i].dial = c.dis[j].listen
             /\ s.dis[i].listen # s.dis[i].dial

-------------------------------------------------------------------------------
(* What the documentation says, and the code does not do.                  *)

\* config.go:74: a preset's name "fills every field below" and the fields in the
\* file are ignored.
PresetFills ==
  \A r \in {q \in Roles : conf[q] # None} : \A i \in 1..Len(conf[r].dis) :
    LET k == conf[r].dis[i].kcp IN k.preset \in Named => k.fec = Shards(k.preset)

\* startDisguiseListener and runUDPCarrier: the tunnel binds no UDP address
\* twice.  In mode udp the pool's socket takes the first disguise's address,
\* and the editor offers that mode kcp and quic, which bind theirs.
UDPBoundOnce ==
  LET s == conf["server"]
  IN s # None => ~(s.mode = "udp" /\ s.dis[1].type \in {"kcp", "quic"})
===============================================================================
