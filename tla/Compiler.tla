------------------------------ MODULE Compiler ------------------------------
(***************************************************************************)
(* internal/compiler: which iptables lines a rule set becomes, chain by    *)
(* chain, in both forms (compiled.sh and compiled.restore.sh).             *)
(*                                                                         *)
(* A line is [m, to, n, key]: m is the set of its clauses, each of them a   *)
(* packet field and the values that match; to is its target, SET and LOG   *)
(* let the packet go on; n is the number of ports the line lists; key is   *)
(* the rule id in its xt_recent or LOG name.  What a clause means          *)
(* (conntrack, xt_time, xt_recent, ipset) is the kernel's and external.    *)
(***************************************************************************)
EXTENDS Rules

CONSTANTS
    Loopback4,      \* the addresses of 127.0.0.0/8
    Unroutable6,    \* the addresses of fe80::/10 and ff00::/8
    GeoNet,         \* country code -> the IPv4 addresses of its ipset
    ExtraBypass,    \* interfaces of ZFW_EXTRA_BYPASS
    MaxMultiport,   \* ports per multiport match (15)
    MaxHits         \* bound: the connections of a window that are told apart

ASSUME CompilerAssumption ==
    /\ Loopback4 \subseteq V4 /\ Unroutable6 \subseteq V6
    /\ \A cc \in DOMAIN GeoNet : GeoNet[cc] \subseteq V4
    /\ MaxMultiport \in Nat \ {0} /\ MaxHits \in Nat

Bridges == {"lo", "docker0", "br-", "virbr0"}
Tunnels == {"tailscale0", "zt", "wg"} \cup ExtraBypass

Line(m, to) == [m |-> m, to |-> to, n |-> 0, key |-> 0]
Is(field, values) == {<<field, values>>}
Anything == {}

\* sort.SliceStable by Order, and the rules that are switched on.
Sorted(rules) ==
    LET before(i, j) == \/ rules[i].order < rules[j].order
                        \/ rules[i].order = rules[j].order /\ i < j
        place == Ranked(DOMAIN rules, before)
    IN  Only([k \in DOMAIN rules |-> rules[place[k]]], LAMBDA r : r.enabled)

----------------------------------------------------------------------------
(* Selectors. *)

Protocols(protocol) == IF protocol = "both" THEN <<"tcp", "udp">> ELSE <<protocol>>

\* Mutant: the chunk that is not full is forgotten.
FullChunks(list) ==
    [c \in 1..(Len(list) \div MaxMultiport) |->
        SubSeq(list, (c - 1) * MaxMultiport + 1, c * MaxMultiport)]

\* multiport: at most MaxMultiport ports a line.
Multiport(list) ==
    [c \in 1..((Len(list) + MaxMultiport - 1) \div MaxMultiport) |->
        SubSeq(list, (c - 1) * MaxMultiport + 1,
               IF c * MaxMultiport < Len(list) THEN c * MaxMultiport ELSE Len(list))]

\* The part of a rule's ports that belongs to the chains of one zone.
NoPorts == PortList(<<>>)
PortsForZone(r, dockerPorts, zone) ==
    CASE r.zone = "auto" /\ r.ports.type = "list" ->
            PortList(Only(r.ports.list, LAMBDA p : (p \in dockerPorts) <=> (zone = "docker")))
      [] r.zone = "auto" /\ r.ports.type # "list" /\ zone = "host" -> r.ports
      [] r.zone = zone -> r.ports
      [] OTHER -> NoPorts

SourceArgs(source, field) ==
    CASE source.type = "any" -> <<Anything>>
      [] source.type = "country" ->
            [i \in DOMAIN source.codes |-> Is(field, GeoNet[source.codes[i]])]
      [] OTHER -> <<Is(field, source.addrs)>>

\* For the IPv6 chains: no line at all when the source is IPv4 or a country.
Source6Args(source, field) ==
    IF source.type = "any" \/ IsIPv6Source(source) THEN SourceArgs(source, field) ELSE <<>>

\* xt_time: a window that ends before it starts wraps around midnight.
ActiveAt(s) ==
    {t \in (IF s.days = {} THEN Weekdays ELSE s.days) \X (0..LastMinute) :
        IF s.from < s.to THEN t[2] \in s.from..s.to ELSE t[2] >= s.from \/ t[2] <= s.to}

ScheduleArg(r) ==
    IF r.schedule = <<>> THEN Anything ELSE Is("at", ActiveAt(r.schedule[1]))

----------------------------------------------------------------------------
(* The lines of one rule. *)

\* xt_recent's --hitcount matches from the conn-th hit of the window on, the
\* one the SET line has just recorded included.
WrapEmit(match, n, r, target) ==
    LET line(m, to) == [m |-> m, to |-> to, n |-> n, key |-> r.id]
        limit == r.rateLimit
    IN  (IF limit = <<>> THEN <<>>
         ELSE << line(match, "SET"),
                 line(match \cup Is("hits", limit[1].conn..MaxHits), "DROP") >>)
        \o (IF r.log THEN <<line(match, "LOG")>> ELSE <<>>)
        \o <<line(match, target)>>

\* One emission per protocol and per port argument of the rule.
PortLines(r, base, ports, args, target) ==
    LET with(protocol) == base \cup Is("proto", {protocol})
        each(protocol) ==
            Each(args, LAMBDA a : WrapEmit(with(protocol) \cup a.m, a.n, r, target))
    IN  CASE ports.type # "all" -> Each(Protocols(r.protocol), each)
          [] ports.type = "all" /\ r.protocol = "both" -> WrapEmit(base, 0, r, target)
          [] OTHER -> WrapEmit(with(r.protocol), 0, r, target)

\* --dport, over chunks of the list or a range.
PortArgs(ports) ==
    IF ports.type = "range" THEN <<[m |-> Is("dport", ports.from..ports.to), n |-> 1]>>
    ELSE LET chunks == Multiport(ports.list)
         IN  [i \in DOMAIN chunks |->
                 [m |-> Is("dport", ToSet(chunks[i])), n |-> Len(chunks[i])]]

\* --ctorigdstport: the port before Docker's DNAT, one line a port.
OrigPortArgs(ports) ==
    IF ports.type = "range" THEN <<[m |-> Is("orig", ports.from..ports.to), n |-> 1]>>
    ELSE [i \in DOMAIN ports.list |-> [m |-> Is("orig", {ports.list[i]}), n |-> 1]]

Target(r, allow) == IF r.action = "deny" THEN "DROP" ELSE allow

InboundLines(r, ports, sources, args, allow) ==
    IF IsOutbound(r) \/ ports = NoPorts THEN <<>>
    ELSE Each(sources, LAMBDA s :
                 PortLines(r, s \cup ScheduleArg(r), ports, args, Target(r, allow)))

\* Mutant: as before v0.2.22, an IPv6 source is written into ZFW-IN.
HostLinesAnyFamily(r, dockerPorts) ==
    LET ports == PortsForZone(r, dockerPorts, "host")
    IN  InboundLines(r, ports, SourceArgs(r.source, "src"), PortArgs(ports), "ACCEPT")

HostLines(r, dockerPorts) ==
    LET ports == PortsForZone(r, dockerPorts, "host")
    IN  IF IsIPv6Source(r.source) THEN <<>>
        ELSE InboundLines(r, ports, SourceArgs(r.source, "src"), PortArgs(ports), "ACCEPT")

HostLines6(r, dockerPorts) ==
    LET ports == PortsForZone(r, dockerPorts, "host")
    IN  InboundLines(r, ports, Source6Args(r.source, "src"), PortArgs(ports), "RETURN")

DockerLines(r, dockerPorts) ==
    LET ports == PortsForZone(r, dockerPorts, "docker")
    IN  IF IsIPv6Source(r.source) THEN <<>>
        ELSE InboundLines(r, ports, SourceArgs(r.source, "src"), OrigPortArgs(ports), "RETURN")

\* Outbound rules: the source is the peer, matched as the destination.
OutLines(r, peers) ==
    Each(peers, LAMBDA d : PortLines(r, d \cup ScheduleArg(r), r.ports, PortArgs(r.ports),
                                     Target(r, "ACCEPT")))
OutboundLines(r) == OutLines(r, SourceArgs(r.source, "dst"))
OutboundLines6(r) == OutLines(r, Source6Args(r.source, "dst"))

----------------------------------------------------------------------------
(* The chains of compiled.sh. *)

HostBypass ==
    << Line(Is("ct", {"ESTABLISHED"}), "ACCEPT"), Line(Is("ct", {"INVALID"}), "DROP"),
       Line(Is("iface", Bridges \cup Tunnels), "ACCEPT"),
       Line(Is("proto", {"icmp"}), "ACCEPT"),
       Line(Is("proto", {"udp"}) \cup Is("dport", {68, 41641, 9993}), "ACCEPT") >>

DockerBypass(rs) ==
    << Line(Is("ct", {"ESTABLISHED"}), "RETURN"), Line(Is("src", Loopback4), "RETURN") >>
    \o (IF rs.hostIP = {} THEN <<>> ELSE <<Line(Is("src", rs.hostIP), "RETURN")>>)
    \o <<Line(Is("iface", Tunnels), "RETURN")>>

V6Bypass ==
    << Line(Is("ct", {"ESTABLISHED"}), "RETURN"), Line(Is("ct", {"INVALID"}), "DROP"),
       Line(Is("iface", Bridges \cup Tunnels), "RETURN"),
       Line(Is("proto", {"ipv6-icmp"}), "RETURN"),
       Line(Is("proto", {"udp"}) \cup Is("dport", {546}), "RETURN"),
       Line(Is("src", Unroutable6), "RETURN") >>

\* The end of a chain that filters; source is the match of its two lines.
Policy(source) ==
    <<Line(source \cup Is("ct", {"NEW"}), "LOG"), Line(source, "DROP")>>
ReturnAll == <<Line(Anything, "RETURN")>>

HostChain(rs, rl, dockerPorts) ==
    HostBypass
    \o Each(rl, LAMBDA r : HostLines(r, dockerPorts))
    \o (IF rs.policy = "allow" THEN ReturnAll ELSE Policy(Anything))

DockerChain(rs, rl, dockerPorts) ==
    DockerBypass(rs)
    \o Each(rl, LAMBDA r : DockerLines(r, dockerPorts))
    \o (IF rs.policy = "deny" /\ rs.lan # {} THEN Policy(Is("src", rs.lan)) ELSE <<>>)
    \o ReturnAll

V6Chain(rs, rl, dockerPorts) ==
    V6Bypass
    \o Each(rl, LAMBDA r : HostLines6(r, dockerPorts))
    \o [i \in DOMAIN rs.v6Drop |->
          Line(Is("proto", {"tcp"}) \cup Is("dport", {rs.v6Drop[i]}), "DROP")]
    \o (IF rs.policy = "allow" THEN ReturnAll ELSE Policy(Anything))

\* The outbound rules of a zone; a chain is written only when there is one.
OutboundOf(rl, zone) == Only(rl, LAMBDA r : IsOutbound(r) /\ r.zone \in {zone, "auto"})

\* A chain that closes with RETURN only; pass is the target of its bypass.
OutChain(bypass, lines, pass) ==
    [i \in DOMAIN bypass |-> Line(bypass[i], pass)] \o lines \o ReturnAll

OutboundChains(rl) ==
    LET host == OutboundOf(rl, "host")
        docker == OutboundOf(rl, "docker")
        lines4(r) == IF IsIPv6Source(r.source) THEN <<>> ELSE OutboundLines(r)
        replies == Is("ct", {"ESTABLISHED"})
        local == Is("iface", {"lo"})
    IN  [c \in (IF host = <<>> THEN {} ELSE {"ZFW-OUT", "ZFW-OUT6"})
               \cup (IF docker = <<>> THEN {} ELSE {"ZFW-FWD-OUT"}) |->
            CASE c = "ZFW-OUT" -> OutChain(<<replies, local>>, Each(host, lines4), "ACCEPT")
              [] c = "ZFW-OUT6" ->
                    OutChain(<<replies, local>>, Each(host, OutboundLines6), "RETURN")
              [] c = "ZFW-FWD-OUT" -> OutChain(<<replies>>, Each(docker, lines4), "RETURN")]

\* Chain name -> lines.
Compile(rs, dockerPorts) ==
    LET rl == Sorted(rs.rules)
        outbound == OutboundChains(rl)
    IN  [c \in {"ZFW-IN", "DOCKER-USER", "ZFW-IN6"} \cup DOMAIN outbound |->
            CASE c = "ZFW-IN" -> HostChain(rs, rl, dockerPorts)
              [] c = "DOCKER-USER" -> DockerChain(rs, rl, dockerPorts)
              [] c = "ZFW-IN6" -> V6Chain(rs, rl, dockerPorts)
              [] OTHER -> outbound[c]]

----------------------------------------------------------------------------
(* The chains of compiled.restore.sh: the same helpers for the rules' lines, *)
(* the lines around them written a second time.                              *)

\* The lines before and after the rules of ZFW-IN (pass is ACCEPT) and of
\* ZFW-IN6 (RETURN), given the lines only one of them has.
ZfwRules(rs, pass, always, rules) ==
    << Line(Is("ct", {"ESTABLISHED"}), pass), Line(Is("ct", {"INVALID"}), "DROP"),
       Line(Is("iface", Bridges \cup Tunnels), pass) >>
    \o [i \in DOMAIN always |-> Line(always[i], pass)]
    \o rules
    \o (IF rs.policy = "allow" THEN <<Line(Anything, "RETURN")>>
       ELSE <<Line(Is("ct", {"NEW"}), "LOG"), Line(Anything, "DROP")>>)

ZfwInRules(rs, rl, dockerPorts) ==
    ZfwRules(rs, "ACCEPT",
             << Is("proto", {"icmp"}),
                Is("proto", {"udp"}) \cup Is("dport", {68, 41641, 9993}) >>,
             Each(rl, LAMBDA r : HostLines(r, dockerPorts)))

\* Mutant: the second writing of ZFW-IN6 lacks v6_drop.
ZfwIn6WithoutDrops(rs, rl, dockerPorts) ==
    ZfwRules(rs, "RETURN",
             << Is("proto", {"ipv6-icmp"}), Is("proto", {"udp"}) \cup Is("dport", {546}),
                Is("src", Unroutable6) >>,
             Each(rl, LAMBDA r : HostLines6(r, dockerPorts)))

ZfwIn6Rules(rs, rl, dockerPorts) ==
    LET drop(p) == <<Line(Is("proto", {"tcp"}) \cup Is("dport", {p}), "DROP")>>
    IN  ZfwRules(rs, "RETURN",
                 << Is("proto", {"ipv6-icmp"}), Is("proto", {"udp"}) \cup Is("dport", {546}),
                    Is("src", Unroutable6) >>,
                 Each(rl, LAMBDA r : HostLines6(r, dockerPorts)) \o Each(rs.v6Drop, drop))

DockerUserRules(rs, rl, dockerPorts) ==
    LET own == IF rs.hostIP = {} THEN <<>> ELSE <<Is("src", rs.hostIP)>>
        bypass == <<Is("ct", {"ESTABLISHED"}), Is("src", Loopback4)>>
                  \o own \o <<Is("iface", Tunnels)>>
        lan == Is("src", rs.lan)
    IN  [i \in DOMAIN bypass |-> Line(bypass[i], "RETURN")]
        \o Each(rl, LAMBDA r : DockerLines(r, dockerPorts))
        \o (IF rs.policy = "deny" /\ rs.lan # {}
           THEN <<Line(lan \cup Is("ct", {"NEW"}), "LOG"), Line(lan, "DROP")>> ELSE <<>>)
        \o <<Line(Anything, "RETURN")>>

\* zfwOutRules, zfwOut6Rules, zfwFwdOutRules: lines[i] are the lines of rl[i].
ZfwOutRules(rl, zone, pass, bypass, lines) ==
    LET mine(r) == IsOutbound(r) /\ r.zone \in {zone, "auto"}
    IN  [i \in DOMAIN bypass |-> Line(bypass[i], pass)]
        \o FlattenSeq([i \in DOMAIN rl |-> IF mine(rl[i]) THEN lines[i] ELSE <<>>])
        \o <<Line(Anything, "RETURN")>>

\* outboundZones
OutboundZones(rl) ==
    {zone \in {"host", "docker"} :
        \E i \in DOMAIN rl : IsOutbound(rl[i]) /\ rl[i].zone \in {zone, "auto"}}

CompileRestore(rs, dockerPorts) ==
    LET rl == Sorted(rs.rules)
        replies == Is("ct", {"ESTABLISHED"})
        local == Is("iface", {"lo"})
        lines4 == [i \in DOMAIN rl |->
                      IF IsIPv6Source(rl[i].source) THEN <<>> ELSE OutboundLines(rl[i])]
        lines6 == [i \in DOMAIN rl |-> OutboundLines6(rl[i])]
    IN  [c \in {"ZFW-IN", "DOCKER-USER", "ZFW-IN6"}
               \cup (IF "host" \in OutboundZones(rl) THEN {"ZFW-OUT", "ZFW-OUT6"} ELSE {})
               \cup (IF "docker" \in OutboundZones(rl) THEN {"ZFW-FWD-OUT"} ELSE {}) |->
            CASE c = "ZFW-IN" -> ZfwInRules(rs, rl, dockerPorts)
              [] c = "DOCKER-USER" -> DockerUserRules(rs, rl, dockerPorts)
              [] c = "ZFW-IN6" -> ZfwIn6Rules(rs, rl, dockerPorts)
              [] c = "ZFW-OUT" -> ZfwOutRules(rl, "host", "ACCEPT", <<replies, local>>, lines4)
              [] c = "ZFW-OUT6" -> ZfwOutRules(rl, "host", "RETURN", <<replies, local>>, lines6)
              [] c = "ZFW-FWD-OUT" -> ZfwOutRules(rl, "docker", "RETURN", <<replies>>, lines4)]
=============================================================================
