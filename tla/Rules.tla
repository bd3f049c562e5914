------------------------------- MODULE Rules -------------------------------
(***************************************************************************)
(* The firewall rule model of internal/rules: what a rule set says, which  *)
(* rule sets are refused, what Save adds, and the rule sets the program    *)
(* writes by itself (starter set, migration of allowlist.conf, templates). *)
(*                                                                         *)
(* Addresses stand for themselves: a source is the set of the addresses    *)
(* its literal denotes, {} when it does not parse.  Optional fields are    *)
(* sequences of length at most one.  Ids, names and notes are reduced to   *)
(* "well formed or not" and to which ids are equal; 0 is the empty id.     *)
(***************************************************************************)
EXTENDS Integers, Sequences, FiniteSets, SequencesExt

CONSTANTS
    V4, V6,            \* addresses of each family
    MaxRules,          \* size caps of Validate (256, 128, 128 and 32)
    MaxPortsPerRule,
    MaxV6DropPorts,
    MaxRuleCountries,
    LastMinute         \* the last minute of a day (23:59)

ASSUME RulesAssumption ==
    /\ V4 \cap V6 = {}
    /\ {MaxRules, MaxPortsPerRule, MaxV6DropPorts, MaxRuleCountries} \subseteq Nat
    /\ LastMinute \in Nat

MaxPort == 65535
Weekdays == {"mon", "tue", "wed", "thu", "fri", "sat", "sun"}

----------------------------------------------------------------------------
(* Building rules. *)

AnySource == [type |-> "any", addrs |-> {}, codes |-> <<>>]
From(addrs) == [AnySource EXCEPT !.type = "range", !.addrs = addrs]
FromCountries(codes) == [AnySource EXCEPT !.type = "country", !.codes = codes]

AllPorts == [type |-> "all", list |-> <<>>, from |-> 0, to |-> 0]
PortList(list) == [AllPorts EXCEPT !.type = "list", !.list = list]
PortRange(from, to) == [AllPorts EXCEPT !.type = "range", !.from = from, !.to = to]

BareRule(order, action, source, ports, protocol, zone) ==
    [id |-> 0, wellNamed |-> TRUE, order |-> order, enabled |-> TRUE,
     action |-> action, source |-> source, ports |-> ports,
     protocol |-> protocol, zone |-> zone, schedule |-> <<>>, log |-> FALSE,
     rateLimit |-> <<>>, direction |-> "", containerID |-> ""]

BareRuleSet(lan, hostIP, rules) ==
    [lan |-> lan, hostIP |-> hostIP, policy |-> "deny", v6Drop |-> <<>>, rules |-> rules]

IsOutbound(r) == r.direction = "outbound"

\* A source literal with a colon in it.  A country code has none.
IsIPv6Source(source) == source.type \in {"ip", "range"} /\ source.addrs \cap V6 # {}

----------------------------------------------------------------------------
(* Validation. *)

ValidPort(p) == p \in 1..MaxPort

ValidSource(s) ==
    \/ s.type = "any"
    \/ s.type \in {"ip", "range"} /\ s.addrs # {}
    \/ /\ s.type = "country"
       /\ Len(s.codes) \in 1..MaxRuleCountries

ValidPorts(p) ==
    \/ p.type = "all"
    \/ /\ p.type = "list"
       /\ Len(p.list) \in 1..MaxPortsPerRule
       /\ \A i \in DOMAIN p.list : ValidPort(p.list[i])
    \/ p.type = "range" /\ ValidPort(p.from) /\ ValidPort(p.to) /\ p.from <= p.to

ValidSchedule(s) == {s.from, s.to} \subseteq 0..LastMinute /\ s.days \subseteq Weekdays

ValidRateLimit(l) == l.conn \in 1..1000 /\ l.seconds \in 1..3600

ValidRule(r) ==
    /\ r.wellNamed
    /\ r.action \in {"allow", "deny"}
    /\ ValidSource(r.source)
    /\ ValidPorts(r.ports)
    /\ r.protocol \in {"tcp", "udp", "both"}
    /\ r.zone \in {"auto", "host", "docker"}
    /\ \A i \in DOMAIN r.schedule : ValidSchedule(r.schedule[i])
    /\ \A i \in DOMAIN r.rateLimit : ValidRateLimit(r.rateLimit[i])
    /\ r.direction \in {"", "inbound", "outbound"}

\* Two rules may both have the empty id, which Save replaces.
DistinctIds(rules) ==
    \A i, j \in DOMAIN rules : (i # j /\ rules[i].id # 0) => (rules[i].id # rules[j].id)

Validate(rs) ==
    /\ rs.policy \in {"deny", "allow"}
    /\ Len(rs.rules) <= MaxRules
    /\ Len(rs.v6Drop) <= MaxV6DropPorts
    /\ rs.lan \subseteq V4
    /\ rs.hostIP \subseteq V4
    /\ \A i \in DOMAIN rs.v6Drop : ValidPort(rs.v6Drop[i])
    /\ \A i \in DOMAIN rs.rules : ValidRule(rs.rules[i])
    /\ DistinctIds(rs.rules)

----------------------------------------------------------------------------
(* Save, and the rule sets the program writes itself. *)

\* NewID draws 32 random bits: taken to differ from every id in the file.
FillIds(rs) ==
    LET used == {rs.rules[i].id : i \in DOMAIN rs.rules}
        fresh(i) == i + Max(used)
    IN  [rs EXCEPT !.rules = [i \in DOMAIN rs.rules |->
            IF rs.rules[i].id = 0 THEN [rs.rules[i] EXCEPT !.id = fresh(i)]
                                  ELSE rs.rules[i]]]

Saved(rs) == IF rs.rules = <<>> THEN rs ELSE FillIds(rs)

\* The elements of S, each behind those that come before it.
Ranked(S, before(_, _)) ==
    [k \in 1..Cardinality(S) |-> CHOOSE x \in S : Cardinality({y \in S : before(y, x)}) = k - 1]

Ascending(ports) == Ranked(ports, <)

\* Mutant: the published ports are opened in the host zone.
DefaultsOnHost(lan, hostIP, dockerPorts) ==
    BareRuleSet(lan, hostIP,
        <<BareRule(20, "allow", From(lan), PortList(<<22, 80, 443>>), "tcp", "host"),
          BareRule(60, "allow", From(lan), PortList(Ascending(dockerPorts)), "tcp", "host")>>)

\* Defaults: host services, then one rule per port Docker publishes.
Defaults(lan, hostIP, dockerPorts) ==
    LET published == Ascending(dockerPorts)
        host(order, protocol, list) ==
            BareRule(order, "allow", From(lan), PortList(list), protocol, "host")
    IN  BareRuleSet(lan, hostIP,
            << host(10, "tcp", <<80, 443>>), host(20, "tcp", <<22>>),
               host(30, "tcp", <<139, 445>>), host(40, "udp", <<137, 138>>),
               host(50, "udp", <<5353>>) >>
            \o [i \in DOMAIN published |->
                  BareRule(50 + 10 * i, "allow", From(lan), PortList(<<published[i]>>),
                           "tcp", "docker")])

\* What Op gives for each element of a sequence, in order.
Each(seq, Op(_)) == FlattenSeq([i \in DOMAIN seq |-> Op(seq[i])])
Only(seq, Test(_)) == Each(seq, LAMBDA x : IF Test(x) THEN <<x>> ELSE <<>>)

LanSource(lan) == IF lan = {} THEN AnySource ELSE From(lan)

\* FromTiers: the legacy allowlist.conf, one rule per non-empty tier.
FromTiers(tiers, dockerListening) ==
    LET dropped == ToSet(tiers.dockerDropLAN)
        rules == << <<"tcp", "host", tiers.hostTCPLAN>>,
                    <<"udp", "host", tiers.hostUDPLAN>>,
                    <<"tcp", "docker", Ascending(dockerListening \ dropped)>> >>
        kept == Only(rules, LAMBDA t : t[3] # <<>>)
    IN  [BareRuleSet(tiers.lan, tiers.hostIP,
            [i \in DOMAIN kept |-> BareRule(10 * i, "allow", LanSource(tiers.lan),
                                            PortList(kept[i][3]), kept[i][1], kept[i][2])])
         EXCEPT !.v6Drop = tiers.v6Drop]

\* Templates: what each entry of the catalogue adds (protocol, ports), all
\* of it "allow from the LAN, zone auto" except the two blocks.
Opens ==
    [plex |-> << <<"tcp", <<32400>> >> >>,
     termina |-> << <<"tcp", <<7681>> >> >>,
     portainer |-> << <<"tcp", <<9000, 9443>> >> >>,
     jellyfin |-> << <<"tcp", <<8096, 8920>> >>, <<"udp", <<7359, 1900>> >> >>,
     immich |-> << <<"tcp", <<2283>> >> >>,
     homeAssistant |-> << <<"tcp", <<8123>> >> >>,
     adguard |-> << <<"tcp", <<3000, 53>> >>, <<"udp", <<53>> >> >>,
     vaultwarden |-> << <<"tcp", <<8222>> >> >>,
     syncthing |-> << <<"tcp", <<8384, 22000>> >>, <<"udp", <<22000, 21027>> >> >>,
     nextcloud |-> << <<"tcp", <<8080>> >> >>,
     photoprism |-> << <<"tcp", <<2342>> >> >>,
     arrStack |-> << <<"tcp", <<8989, 7878, 8686, 8787, 6767, 9696>> >> >>,
     qbittorrent |-> << <<"tcp", <<8080>> >> >>,
     paperless |-> << <<"tcp", <<8000>> >> >>,
     mealie |-> << <<"tcp", <<9000>> >> >>,
     dozzle |-> << <<"tcp", <<8080>> >> >>,
     n8n |-> << <<"tcp", <<5678>> >> >>,
     openwebui |-> << <<"tcp", <<3000>> >> >>]

Blocks ==
    [vnc |-> << <<"tcp", PortRange(5900, 5999)>> >>,
     nfs |-> << <<"tcp", PortList(<<111, 2049, 20048>>)>>,
                <<"udp", PortList(<<111, 2049, 20048>>)>> >>]

Template(name, lan) ==
    IF name \in DOMAIN Blocks
    THEN [i \in DOMAIN Blocks[name] |->
            BareRule(0, "deny", AnySource, Blocks[name][i][2], Blocks[name][i][1], "host")]
    ELSE [i \in DOMAIN Opens[name] |->
            BareRule(0, "allow", LanSource(lan), PortList(Opens[name][i][2]),
                     Opens[name][i][1], "auto")]
=============================================================================
