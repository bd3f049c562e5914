------------------------------ MODULE Verdicts ------------------------------
(***************************************************************************)
(* What the compiled chains do to packets, against what the rules say.     *)
(*                                                                         *)
(* rulesJSON is the saved rule set, containers the inventory of the last   *)
(* compilation and scripts what compiled.sh (bash) and compiled.restore.sh *)
(* (restore) hold.  A step is a whole save-and-recompile: how such steps   *)
(* interleave and fail is ControlPlane's subject.  posts counts the saves, *)
(* at most MaxPosts, a bound.                                              *)
(***************************************************************************)
EXTENDS Compiler

CONSTANTS
    Posted,        \* rule sets a client may send
    Catalogue,     \* templates a client may add
    Tiers,         \* allowlist.conf contents found at the first start
    Detected,      \* answers of system.DetectLAN: [lan, hostIP]
    Inventories,   \* sets of running containers
    MaxCountries,  \* geo sets a rule set may load (40)
    MaxPosts

----------------------------------------------------------------------------
(* What a rule set, a legacy configuration and an inventory are before any  *)
(* validation.                                                              *)

AddressSets == (SUBSET V4) \cup (SUBSET V6)

\* Any string, the ones with a meaning spelled out for the provers.
Words ==
    STRING \cup {"any", "ip", "range", "country", "all", "list", "allow", "deny",
                "tcp", "udp", "both", "auto", "host", "docker", "", "inbound", "outbound"}

AtMostOne(S) == {s \in Seq(S) : Len(s) <= 1}

Sources == [type : Words, addrs : AddressSets, codes : Seq(DOMAIN GeoNet)]
PortChoices == [type : Words, list : Seq(Int), from : Int, to : Int]
Schedules == [from : Int, to : Int, days : SUBSET STRING]
RateLimits == [conn : Int, seconds : Int]

RuleRecords ==
    [id : Nat, wellNamed : BOOLEAN, order : Int, enabled : BOOLEAN, action : Words,
     source : Sources, ports : PortChoices, protocol : Words, zone : Words,
     schedule : AtMostOne(Schedules), log : BOOLEAN, rateLimit : AtMostOne(RateLimits),
     direction : Words, containerID : Words]

RuleSets ==
    [lan : AddressSets, hostIP : AddressSets, policy : Words, v6Drop : Seq(Int),
     rules : Seq(RuleRecords)]

TierFiles ==
    [lan : AddressSets, hostIP : AddressSets, v6Drop : Seq(Int), dockerDropLAN : Seq(Int),
     hostTCPLAN : Seq(Int), hostUDPLAN : Seq(Int)]

ContainerRecords == [id : STRING, name : STRING, tcp : Seq(Int), udp : SUBSET Int]

ASSUME VerdictsAssumption ==
    /\ Posted \subseteq RuleSets
    /\ Catalogue \subseteq DOMAIN Opens \cup DOMAIN Blocks
    /\ Tiers \subseteq TierFiles
    /\ Detected \subseteq [lan : AddressSets, hostIP : AddressSets]
    /\ \A cs \in Inventories : IsFiniteSet(cs) /\ cs \subseteq ContainerRecords

VARIABLES rulesJSON, containers, scripts, posts

vars == <<rulesJSON, containers, scripts, posts>>

NoScripts == [bash |-> [c \in {} |-> <<>>], restore |-> [c \in {} |-> <<>>]]

\* The TCP ports docker-proxy listens on.
DockerPorts(cs) == UNION {ToSet(c.tcp) : c \in cs}

----------------------------------------------------------------------------
(* recompileLocked *)

\* A rule bound to a container takes the ports it publishes: found by id
\* first, then by name; without a container or without ports, its own.
Bind(r, cs) ==
    LET byID == {c \in cs : c.id = r.containerID}
        found == IF byID # {} THEN byID ELSE {c \in cs : c.name = r.containerID}
    IN  IF r.containerID = "" \/ \A c \in found : c.tcp = <<>> THEN r
        ELSE [r EXCEPT !.ports = PortList((CHOOSE c \in found : TRUE).tcp)]

Bound(rs, cs) == [rs EXCEPT !.rules = [i \in DOMAIN rs.rules |-> Bind(rs.rules[i], cs)]]

Recompiled(rs, cs, old) ==
    IF ~Validate(rs) THEN old
    ELSE [bash |-> Compile(Bound(rs, cs), DockerPorts(cs)),
          restore |-> CompileRestore(Bound(rs, cs), DockerPorts(cs))]

Countries(rs) ==
    UNION {ToSet(rs.rules[i].source.codes) : i \in DOMAIN rs.rules}

----------------------------------------------------------------------------
(* Steps. *)

\* seedRulesIfMissing: saved without Validate, then the initial recompile.
Init ==
    /\ containers \in Inventories
    /\ \E d \in Detected, t \in Tiers :
          \/ rulesJSON = Saved(Defaults(d.lan, d.hostIP, DockerPorts(containers)))
          \/ rulesJSON = Saved(FromTiers(t, DockerPorts(containers)))
    /\ scripts = Recompiled(rulesJSON, containers, NoScripts)
    /\ posts = 0

\* POST /api/rules, and /api/peers/receive: a refused rule set changes nothing.
Accept(rs) ==
    /\ posts < MaxPosts
    /\ Validate(rs)
    /\ Cardinality(Countries(rs)) <= MaxCountries
    /\ rulesJSON' = Saved(rs)
    /\ scripts' = Recompiled(rulesJSON', containers, scripts)
    /\ posts' = posts + 1
    /\ UNCHANGED containers

\* Bound: a client's own rule set comes first, since it replaces the file.
PostRules == posts = 0 /\ \E rs \in Posted : Accept(rs)

\* Mutant: the template takes the place of the rules.
ExtendedReplaces(name, lan) ==
    [rulesJSON EXCEPT !.rules = Template(name, lan)]

\* The saved LAN, or a detected one.
KnownLANs == IF rulesJSON.lan # {} THEN {rulesJSON.lan} ELSE {d.lan : d \in Detected}

\* The UI appends a template's rules behind the others and saves.
Extended(name, lan) ==
    LET last == Max({0} \cup {rulesJSON.rules[i].order : i \in DOMAIN rulesJSON.rules})
        added == Template(name, lan)
    IN  [rulesJSON EXCEPT !.rules = @ \o
            [i \in DOMAIN added |-> [added[i] EXCEPT !.order = last + 10 * i]]]

AddTemplate(name) == \E lan \in KnownLANs : Accept(Extended(name, lan))

\* POST /api/rules/defaults: the saved LAN before a detected one.
ResetDefaults ==
    \E d \in IF rulesJSON.lan # {} THEN {rulesJSON} ELSE Detected :
        Accept(Defaults(d.lan, d.hostIP, DockerPorts(containers)))

\* The watcher's recompile after containers came or went.
Follow ==
    /\ containers' \in Inventories \ {containers}
    /\ scripts' = Recompiled(rulesJSON, containers', scripts)
    /\ UNCHANGED <<rulesJSON, posts>>

Next == PostRules \/ (\E t \in Catalogue : AddTemplate(t)) \/ ResetDefaults \/ Follow

Spec == Init /\ [][Next]_vars

----------------------------------------------------------------------------
(* Packets and what a chain does to them (the kernel's, external). *)

Matches(line, p) == \A clause \in line.m : p[clause[1]] \in clause[2]

\* The first line that matches and ends the traversal.
Passes(chain, p) ==
    LET ends(i) == chain[i].to \notin {"SET", "LOG"} /\ Matches(chain[i], p)
    IN  chain[CHOOSE i \in DOMAIN chain : ends(i) /\ \A j \in 1..(i - 1) : ~ends(j)].to # "DROP"

----------------------------------------------------------------------------
(* What the rules say, without a chain: the reference. *)

Inbound == {"ZFW-IN", "DOCKER-USER", "ZFW-IN6"}
ZoneOf(c) == IF c \in {"DOCKER-USER", "ZFW-FWD-OUT"} THEN "docker" ELSE "host"
Family(c) == IF c \in {"ZFW-IN6", "ZFW-OUT6"} THEN V6 ELSE V4
PeerOf(c, p) == IF c \in Inbound THEN p.src ELSE p.dst
PortOf(c, p) == IF c = "DOCKER-USER" THEN p.orig ELSE p.dport

HasPort(ports, n) ==
    \/ ports.type = "all"
    \/ ports.type = "list" /\ n \in ToSet(ports.list)
    \/ ports.type = "range" /\ n \in ports.from..ports.to

\* auto: the docker zone has the listed ports Docker publishes, the host zone
\* everything else; an outbound rule is in both.
InZone(r, c, n) ==
    \/ r.zone = ZoneOf(c)
    \/ r.zone = "auto" /\ c \notin Inbound
    \/ /\ r.zone = "auto" /\ c \in Inbound
       /\ (r.ports.type = "list" /\ n \in DockerPorts(containers)) <=> (ZoneOf(c) = "docker")

FromPeer(source, a) ==
    \/ source.type = "any"
    \/ source.type = "country" /\ \E i \in DOMAIN source.codes : a \in GeoNet[source.codes[i]]
    \/ source.type \in {"ip", "range"} /\ a \in source.addrs

Covers(r, c, p) ==
    /\ r.enabled
    /\ IsOutbound(r) <=> c \notin Inbound
    /\ InZone(r, c, PortOf(c, p))
    /\ FromPeer(r.source, PeerOf(c, p))
    /\ \/ p.proto = r.protocol
       \/ r.protocol = "both" /\ (p.proto \in {"tcp", "udp"} \/ r.ports.type = "all")
    /\ HasPort(r.ports, PortOf(c, p))
    /\ \A i \in DOMAIN r.schedule : p.at \in ActiveAt(r.schedule[i])

\* The traffic no rule decides, by the comments of the bypass lists.
Essential(c, p) ==
    \/ p.ct = "ESTABLISHED"
    \/ c \notin Inbound /\ c # "ZFW-FWD-OUT" /\ p.iface = "lo"
    \/ c \in Inbound /\ p.iface \in Tunnels
    \/ c \in {"ZFW-IN", "ZFW-IN6"} /\ p.iface \in Bridges
    \/ c = "ZFW-IN" /\ p.proto = "icmp"
    \/ c = "ZFW-IN" /\ p.proto = "udp" /\ p.dport \in {68, 41641, 9993}
    \/ c = "ZFW-IN6" /\ (p.proto = "ipv6-icmp" \/ p.src \in Unroutable6)
    \/ c = "ZFW-IN6" /\ p.proto = "udp" /\ p.dport = 546
    \/ c = "DOCKER-USER" /\ p.src \in Loopback4 \cup rulesJSON.hostIP

ByPolicy(c, p) ==
    CASE c = "ZFW-IN"  -> rulesJSON.policy = "allow"
      [] c = "ZFW-IN6" -> /\ rulesJSON.policy = "allow"
                          /\ p.proto = "tcp" => p.dport \notin ToSet(rulesJSON.v6Drop)
      [] c = "DOCKER-USER" -> rulesJSON.policy = "allow" \/ p.src \notin rulesJSON.lan
      [] OTHER -> TRUE

ByRule(r, p) ==
    r.action = "allow" /\ \A i \in DOMAIN r.rateLimit : p.hits < r.rateLimit[i].conn

Intended(c, p) ==
    LET rules == Bound(rulesJSON, containers).rules
        covering == {i \in DOMAIN rules : Covers(rules[i], c, p)}
        first == CHOOSE i \in covering : \A j \in covering :
                    rules[i].order < rules[j].order \/ (rules[i].order = rules[j].order /\ i <= j)
    IN  /\ ~(p.ct = "INVALID" /\ c \in {"ZFW-IN", "ZFW-IN6"})
        /\ \/ Essential(c, p)
           \/ covering = {} /\ ByPolicy(c, p)
           \/ covering # {} /\ ByRule(rules[first], p)

----------------------------------------------------------------------------
(* Properties.  Probes gives the packets tried on a chain. *)

CONSTANT Probes(_)

ASSUME ProbesAssumption ==
    \A c \in Inbound \cup {"ZFW-OUT", "ZFW-OUT6", "ZFW-FWD-OUT"} : \A p \in Probes(c) :
        PeerOf(c, p) \in Family(c) /\ p.hits \in 0..MaxHits /\ p.proto # "both"

\* Every packet meets in every chain of compiled.sh the verdict of the first
\* rule, by order, that covers it, or else of the default policy: no matter
\* how ports are chunked, split between the zones, bound to a container or
\* spread over protocols, countries and address families.
VerdictsFollowRules ==
    Validate(rulesJSON) =>
        \A c \in DOMAIN scripts.bash : \A p \in Probes(c) :
            Passes(scripts.bash[c], p) = Intended(c, p)

\* iptables takes every line: addresses of the chain's family only, at most
\* MaxMultiport ports in a multiport match.  One refused line aborts the
\* script half-way (set -eu), so this is what a valid rule set promises.
LinesLoad ==
    \A c \in DOMAIN scripts.bash : \A i \in DOMAIN scripts.bash[c] :
        LET line == scripts.bash[c][i]
        IN  /\ \A clause \in line.m :
                  clause[1] \in {"src", "dst"} => clause[2] \subseteq Family(c)
            /\ line.n <= MaxMultiport

\* compiled.restore.sh swaps in the very lines compiled.sh appends, so that
\* switching ZFW_APPLY_MODE changes no verdict.
RestoreMatchesBash == scripts.restore = scripts.bash

\* The starter rule set keeps reachable from the LAN what was running when it
\* was written: the web UI, SSH and every TCP port Docker publishes.
SeedKeepsAppsUp ==
    [][\A d \in Detected :
          (posts' # posts
           /\ rulesJSON' = Saved(Defaults(d.lan, d.hostIP, DockerPorts(containers)))) =>
            \A c \in {"ZFW-IN", "DOCKER-USER"} : \A p \in Probes(c) :
                (/\ p.ct = "NEW" /\ p.proto = "tcp" /\ p.src \in d.lan
                 /\ PortOf(c, p) \in IF c = "ZFW-IN" THEN {22, 80, 443}
                                     ELSE DockerPorts(containers))
                => Passes(scripts'.bash[c], p)]_vars

\* Adding templates that only allow closes nothing: what passed a chain
\* before passes it afterwards, rate-limited and denied traffic included.
TemplatesOnlyOpen ==
    [][\A t \in Catalogue \cap DOMAIN Opens : \A lan \in KnownLANs :
          (posts' # posts /\ rulesJSON' = Saved(Extended(t, lan))) =>
            \A c \in DOMAIN scripts.bash : \A p \in Probes(c) :
                Passes(scripts.bash[c], p) => Passes(scripts'.bash[c], p)]_vars

\* templates.go:39-43: "Zone is auto ... so the compiler can route the rule to
\* ZFW-IN or DOCKER-USER live based on what's actually published": a port that
\* a container publishes over UDP is in the docker zone of a UDP rule.
AutoFollowsPublished ==
    \A i \in DOMAIN rulesJSON.rules : \A c \in containers :
        LET r == rulesJSON.rules[i]
        IN  (r.zone = "auto" /\ r.ports.type = "list" /\ r.protocol # "tcp"
             /\ r.containerID = "" /\ ~IsOutbound(r)) =>
            c.udp \cap ToSet(r.ports.list)
                \subseteq ToSet(PortsForZone(r, DockerPorts(containers), "docker").list)
=============================================================================
