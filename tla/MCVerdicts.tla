---------------------------- MODULE MCVerdicts ----------------------------
(***************************************************************************)
(* A small instance of Verdicts: one LAN, one remote network per country,  *)
(* every pair out of fifteen rules, three inventories.  The ports are the  *)
(* real ones; the size caps are scaled down so that lists reach them.      *)
(***************************************************************************)
EXTENDS Verdicts

Addresses4 == {"lan4", "host4", "de4", "fr4", "lo4"}
Addresses6 == {"lan6", "wan6", "fe80"}
Loopback == {"lo4"}
LinkLocal == {"fe80"}
Nets == [de |-> {"de4"}, fr |-> {"fr4"}]
Vpn == {"vpn"}

Lan == {"lan4", "host4"}
Host == {"host4"}
Detections == {[lan |-> Lan, hostIP |-> Host], [lan |-> {"fr4"}, hostIP |-> {}]}

Container(id, name, tcp, udp) == [id |-> id, name |-> name, tcp |-> tcp, udp |-> udp]
Running ==
    { {}, {Container("c1", "web", <<8096>>, {7359})},
      {Container("c2", "web", <<22, 80, 8096, 9000>>, {}), Container("c3", "c1", <<85>>, {})} }

Files ==
    { [lan |-> Lan, hostIP |-> Host, v6Drop |-> <<22>>, dockerDropLAN |-> <<80>>,
       hostTCPLAN |-> <<22, 80>>, hostUDPLAN |-> <<>>],
      [lan |-> {}, hostIP |-> {}, v6Drop |-> <<>>, dockerDropLAN |-> <<>>,
       hostTCPLAN |-> <<22, 70000>>, hostUDPLAN |-> <<68>>] }

Rule(order, action, source, ports, protocol, zone) ==
    BareRule(order, action, source, ports, protocol, zone)
Window(from, to, days) == <<[from |-> from, to |-> to, days |-> days]>>
Limit(conn) == <<[conn |-> conn, seconds |-> 60]>>

Good ==
    { Rule(10, "allow", AnySource, PortList(<<22>>), "tcp", "host"),
      Rule(10, "deny", From(Lan), PortList(<<22, 80, 8096>>), "both", "auto"),
      Rule(20, "allow", FromCountries(<<"de", "fr">>), PortRange(80, 90), "tcp", "host"),
      Rule(5, "deny", From({"wan6"}), AllPorts, "both", "host"),
      [Rule(20, "allow", From(Lan), PortList(<<80, 8096>>), "tcp", "docker")
         EXCEPT !.rateLimit = Limit(2), !.log = TRUE],
      Rule(30, "allow", AnySource, AllPorts, "udp", "auto"),
      [Rule(15, "allow", AnySource, PortList(<<9000>>), "tcp", "auto") EXCEPT !.containerID = "web"],
      [Rule(15, "deny", AnySource, PortList(<<8096>>), "tcp", "docker") EXCEPT !.containerID = "c1"],
      [Rule(1, "allow", From(Lan), PortList(<<22>>), "tcp", "host")
         EXCEPT !.schedule = Window(2, 0, {"mon"})],
      [Rule(12, "allow", AnySource, AllPorts, "both", "host")
         EXCEPT !.rateLimit = Limit(2), !.schedule = Window(0, 1, {})],
      Rule(11, "deny", FromCountries(<<"fr">>), PortRange(8000, 8100), "both", "docker"),
      [Rule(0, "deny", AnySource, AllPorts, "both", "host") EXCEPT !.enabled = FALSE],
      [Rule(10, "deny", From({"de4"}), PortRange(80, 90), "both", "auto")
         EXCEPT !.direction = "outbound"],
      [Rule(20, "allow", From({"wan6"}), PortList(<<22, 80, 8096>>), "tcp", "host")
         EXCEPT !.direction = "outbound", !.log = TRUE],
      [Rule(5, "deny", FromCountries(<<"de">>), AllPorts, "tcp", "docker")
         EXCEPT !.direction = "outbound", !.rateLimit = Limit(1)] }

Bad ==
    { Rule(1, "allow", AnySource, PortList(<<0>>), "tcp", "host"),
      Rule(1, "allow", AnySource, PortList(<<1, 2, 3, 4>>), "tcp", "host"),
      Rule(1, "allow", AnySource, PortRange(90, 80), "tcp", "host"),
      Rule(1, "allow", From({}), AllPorts, "tcp", "host"),
      Rule(1, "allow", FromCountries(<<"de", "fr", "de">>), AllPorts, "tcp", "host"),
      [Rule(1, "allow", AnySource, AllPorts, "tcp", "host") EXCEPT !.direction = "sideways"] }

Frames ==
    { [BareRuleSet(Lan, Host, <<>>) EXCEPT !.v6Drop = <<22>>],
      [BareRuleSet(Lan, {}, <<>>) EXCEPT !.policy = "allow", !.v6Drop = <<80>>],
      BareRuleSet({}, {}, <<>>) }

Pairs == {<<x>> : x \in Good} \cup {<<x, y>> : x, y \in Good} \cup {<<x>> : x \in Bad}
Sent ==
    {[f EXCEPT !.rules = s] : f \in Frames, s \in Pairs}
    \cup {[f EXCEPT !.rules = <<[x EXCEPT !.id = 7], [x EXCEPT !.id = 7]>>] : f \in Frames, x \in Good}
    \cup {BareRuleSet({"lan6"}, {}, <<>>)}

Packet(proto, src, dst, port) ==
    [iface |-> "eth0", ct |-> "NEW", proto |-> proto, src |-> src, dst |-> dst,
     dport |-> port, orig |-> port, at |-> <<"mon", 1>>, hits |-> 1]

Ports == {22, 80, 85, 8096, 9000}
Odd(p) ==
    {[p EXCEPT !.at = t, !.hits = h] : t \in {<<"mon", 0>>, <<"mon", 2>>, <<"tue", 2>>}, h \in 1..3}
    \cup {[p EXCEPT !.ct = x] : x \in {"ESTABLISHED", "INVALID"}}
    \cup {[p EXCEPT !.iface = x] : x \in Bridges \cup Tunnels}
    \cup {[p EXCEPT !.proto = x] : x \in {"icmp", "ipv6-icmp", "gre"}}
    \cup {[p EXCEPT !.proto = "udp", !.dport = x, !.orig = x] : x \in {68, 546, 7359}}

\* Inbound packets come from somewhere to the host, outbound ones leave it; a
\* packet in DOCKER-USER has the container's port as its destination.
Tried(c) ==
    LET family == IF c \in {"ZFW-IN6", "ZFW-OUT6"} THEN Addresses6 ELSE Addresses4
        near == IF c \in {"ZFW-IN6", "ZFW-OUT6"} THEN "lan6" ELSE "lan4"
        plain == IF c \in Inbound
                 THEN {Packet(x, a, "host", n) : x \in {"tcp", "udp"}, a \in family, n \in Ports}
                 ELSE {Packet(x, "host", a, n) : x \in {"tcp", "udp"}, a \in family, n \in Ports}
        all == plain \cup Odd(Packet("tcp", near, near, 22)) \cup Odd(Packet("tcp", near, near, 8096))
    IN  IF c = "DOCKER-USER" THEN {[p EXCEPT !.dport = 85] : p \in all} ELSE all
=============================================================================
