------------------------------ MODULE MCMaster ------------------------------
(***************************************************************************)
(* Instances of what the master thread does besides the control of the     *)
(* tasks: reading the configuration (its file, its values, the sections of *)
(* the cores and of the ports), setting up rings, ports and tasks, counting *)
(* for the statistics, its main loop with the commands.  They share no     *)
(* state; each behaviour runs one of them, the part chosen at the start,   *)
(* while the others stay in one initial state.                             *)
(***************************************************************************)
EXTENDS SetUp, Ports, Stats, Console, Commands, CoreConfig, PortConfig, ConfigFile, Texts

VARIABLE part  \* the component this behaviour is about

Only(p, all, one) == IF part = p THEN all ELSE {one}

-----------------------------------------------------------------------------
(* Set-up: two cores, one with two tasks, and up to three links.           *)
ThreeTasks == {<<0, 0>>, <<0, 1>>, <<1, 0>>}
SetUpOf(l, r, p, d, f, m) == [links |-> l, ring |-> r, port |-> p, drop |-> d, feature |-> f, mp |-> m]
LinkSets == {{}} \cup {{x, y, z} : x, y, z \in AllLinks}
SetUps ==
  {SetUpOf(l, {k.to : k \in l}, p, d, f, m) :
     l \in LinkSets, p \in {{}, SuTasks, {<<0, 1>>}}, d \in {{}, {<<0, 0>>}}, f \in {{}, SuTasks}, m \in {FALSE}} \cup
  {SetUpOf(l, {<<0, 0>>}, {}, {}, {}, m) : l \in {k \in LinkSets : Cardinality(k) < 2}, m \in BOOLEAN}
NoLinks == SetUpOf({}, {}, {}, {}, {}, FALSE)

\* Two tasks and two ports, the second a virtual one with a single transmit queue; the
\* first is not to send in segments.  Read whole, the two have more queues than a task has
\* places, or as many as make the count wrap.
Device(rx, tx, kind, can) == [rx |-> rx, tx |-> tx, kind |-> kind, can |-> can, least |-> 2, most |-> 4]
PortSetUps ==
  [rx : [PoTasks -> {<<>>, <<0>>, <<1>>, <<1, 0>>}], tx : [PoTasks -> {<<>>, <<0>>, <<0, 1>>}],
   shares : {{}, {1}}, all : {{0}, {1}, {0, 1}}, ringed : {{}, {1}}, jumbo : {{1}}, desc : {3}, lsc : {"default"},
   per_socket : BOOLEAN, disabled : {0 :> {"segments"} @@ 1 :> {}},
   max : {0 :> Device(n, 2, "hw", {"segments", "fast free"}) @@ 1 :> Device(3, 1, "virtio", {"segments"}) : n \in {1, 2}}]
NoQueues == CHOOSE c \in PortSetUps : \A t \in PoTasks : c.rx[t] = <<>> /\ c.tx[t] = <<>>

-----------------------------------------------------------------------------
(* Statistics of three forwarding tasks, and of two cores with L4 tasks.   *)
Counted(m, i, o) == [mode |-> m, in |-> i, out |-> o]
Forwarding == <<<<Counted("l2", FALSE, TRUE)>>, <<Counted("l2", TRUE, FALSE)>>, <<Counted("l2", FALSE, FALSE)>>>>
L4Cores ==
  {<<<<Counted(a, FALSE, FALSE), Counted(b, FALSE, FALSE)>>, <<Counted(d, FALSE, FALSE)>>>> :
     a, b, d \in {"genl4", "genl4 server", "irq"}}
Counting(cores, flags) == [cores |-> cores, flags |-> flags, avg_start |-> 1]
Countings ==
  {Counting(Forwarding, {f}) : f \in {"tasks", "latency", "irq"}} \cup {Counting(c, {}) : c \in L4Cores}
NoCounting == Counting(Forwarding, {"irq"})

\* What clients of the console send: a command cut in two, a line that is too long.
Chunks == {<<"start", "cr">>, <<"nl">>, <<"x", "x", "x", "start", "nl", "quit", "cr", "nl">>}

-----------------------------------------------------------------------------
(* Commands about the tasks of two cores, with several chains of rings.    *)
Running(m, s) == [mode |-> m, sub |-> s]
From(a, b) == [from |-> a, to |-> b]
Modes == (0 :> <<Running("gen", ""), Running("lat", ""), Running("arp", "local")>>) @@
         (1 :> <<Running("gen", "l3"), Running("impair", "")>>)
OneSocket == (0 :> 0) @@ (1 :> 0)
CoreLists == {<<0>>, <<0, 1>>, <<1, 2>>}
OneChain == <<From(<<0, 0>>, <<1, 0>>), From(<<0, 0>>, <<0, 2>>), From(<<1, 0>>, <<0, 2>>)>>
Chains ==
  {OneChain,
   <<From(<<0, 0>>, <<1, 0>>), From(<<0, 1>>, <<1, 0>>), From(<<1, 0>>, <<0, 2>>)>>,
   <<From(<<0, 0>>, <<0, 1>>), From(<<0, 1>>, <<1, 0>>), From(<<1, 0>>, <<1, 1>>)>>,
   <<From(<<0, 0>>, <<1, 1>>), From(<<1, 1>>, <<0, 0>>)>>}
Commanded(a, l, b, m) == [about |-> a, links |-> l, bypass |-> b, mp |-> m]
CommandedAll ==
  {Commanded("tasks", l, TRUE, FALSE) : l \in Chains} \cup
  {Commanded("tasks", OneChain, FALSE, m) : m \in BOOLEAN} \cup
  {Commanded(a, <<>>, FALSE, FALSE) : a \in {"ports", "cache"}}
NoCommands == Commanded("tasks", OneChain, FALSE, FALSE)

-----------------------------------------------------------------------------
(* The sections of the cores, by themes: lines that depend on each other.  *)
Line(c, o, v) == [core |-> c, opt |-> o, val |-> v]
LineWith(c, o, v, more) == Line(c, o, v) @@ more
PortNumbers == ("p" :> 0) @@ ("q" :> 1)
Devices == ("v" :> 2) @@ ("w" :> 3)
Inits == {<<"gen", "">>, <<"nat", "">>, <<"nat", "own">>, <<"route", "">>, <<"master", "">>}
ModeLines ==
  {Line(0, "task", 0), Line(0, "task", 1), Line(2, "task", 0), Line(4, "task", 0),
   Line(0, "mode", "nat"), Line(2, "mode", "master"), Line(0, "mode", "master"), Line(0, "mode", "none such"),
   Line(0, "sub mode", "own"), Line(0, "sub mode", "l3"), Line(0, "sub mode", "none such")}
NdpLines ==
  {Line(0, "mode", "gen"), Line(0, "sub mode", "ndp"), Line(0, "local ipv6", "a"), Line(0, "local ipv6", Bad),
   Line(0, "ipv6 router", "yes"), Line(0, "ipv6 router", "no"), Line(0, "global ipv6", "a"),
   Line(0, "unheard of", 1), Line(0, "mode", "nat"), Line(0, "classify", "yes")}
LinesOfPorts ==
  {Line(0, "mode", "route"), Line(0, "tx port", <<"p">>), Line(0, "tx port", <<"p", "q">>), Line(0, "tx port", <<"v">>),
   Line(0, "rx port", <<"q">>), Line(0, "rx port", <<"w">>), Line(0, "rx ring", "yes"), Line(0, "rx ring", "no"),
   Line(0, "tx ports from routing table", <<"p">>),
   LineWith(0, "tx ports from cpe table", <<"p", "q">>, [remap |-> <<>>]),
   LineWith(0, "tx ports from cpe table", <<"p", "q">>, [remap |-> <<{"q"}, {"p"}>>]),
   LineWith(0, "tx ports from cpe table", <<"p", "q">>, [remap |-> <<{"q"}, {"u"}>>]),
   Line(4, "mode", "master")}
CoreLines ==
  {Line(0, "task", 0), Line(2, "mode", "master"), Line(0, "mode", "route"), Line(0, "rx ring", "yes"),
   LineWith(0, "tx cores", <<<<0, 0>>>>, [proto |-> "ipv4", suffix |-> 0]),
   LineWith(0, "tx cores", <<<<0, 0>>, <<0, 0>>, <<4, 0>>>>, [proto |-> "arp", suffix |-> 1]),
   LineWith(0, "tx cores", <<<<0, 0>>>>, [proto |-> "arp", suffix |-> 8]),
   Line(0, "tx cores from routing table", <<<<4, 0>>, <<0, 0>>>>),
   LineWith(0, "tx cores from cpe table", <<<<0, 0>>>>, [remap |-> <<{"p", "q"}>>]),
   Line(4, "task", 0)}
AddressLines ==
  {Line(0, "gateway ipv4", 1), Line(0, "gateway ipv4", Bad),
   LineWith(0, "local ipv4", 2, [prefix |-> 24]), LineWith(0, "local ipv4", 2, [prefix |-> 40]),
   LineWith(0, "local ipv4", 2, [prefix |-> 99]),
   Line(0, "dst mac", "m"), Line(0, "src mac", "hw"), Line(0, "dst mac", "packet"), Line(0, "delay ms", 1),
   Line(0, "delay us", 5), Line(0, "imix", <<1, 2>>), Line(0, "imix", <<1, Bad, 2, 3>>), Line(0, "imix", <<1, 2, 3>>)}
CountLines ==
  {Line(0, "random", "x"), Line(0, "range", "1-2"), Line(0, "range", Bad), Line(0, "range_offset", 4), Line(0, "rand_offset", 4),
   Line(0, "dpi engine arg", "a")} \cup
  {LineWith(0, "police action", a, [in |-> i, out |-> o]) :
     a \in {"green"}, i \in {"red", "drop"}, o \in {"red", Bad, Nowhere}}
FieldLines ==
  {Line(0, "default mempool size", 1), Line(0, "default qinq tag", Bad), Line(0, "mempool size", 2), Line(0, "task", 0),
   Line(0, "subport tc rate", 7), Line(0, "subport tc 1 rate", 8), Line(0, "drop", "no"), Line(0, "add mpls", "no"),
   Line(0, "untag mpls", "yes"), Line(0, "pkt inline", 60), Line(0, "pkt size", 64), Line(0, "pipes", 3), Line(0, "pipes", 4),
   Line(0, "proba delay", 0), Line(0, "probability", 101), Line(0, "mirror size", Bad), Line(0, "multiplier", 3),
   Line(2, "mode", "master")}
Themes ==
  [modes |-> ModeLines, ndp |-> NdpLines, ports |-> LinesOfPorts, cores |-> CoreLines,
   addresses |-> AddressLines, counts |-> CountLines, fields |-> FieldLines]

-----------------------------------------------------------------------------
(* The sections of the ports and of the program.                           *)
PortLine(i, o, v) == [sec |-> "port", idx |-> i, opt |-> o, val |-> v]
EalLine(o, v) == [sec |-> "eal options", idx |-> 0, opt |-> o, val |-> v]
PortThemes ==
  [names |-> {PortLine(0, "name", "a"), PortLine(0, "name", "b"), PortLine(1, "name", "a"), PortLine(3, "name", "c"), PortLine(8, "name", "d"),
              PortLine(0, "mac", "random"), PortLine(0, "multicast", "m"), PortLine(1, "rx_ring", "r"), PortLine(1, "tx_ring", "x"), EalLine("-n", 4)},
   numbers |-> {EalLine("-n", 4), EalLine("-n", 0), EalLine("-r", 17), EalLine("-r", 2), EalLine("no-pci", "yes"), EalLine("no-pci", "no"), EalLine("eal", 2), EalLine("eal", 9),
                [sec |-> "cache set", idx |-> 1, opt |-> "mask", val |-> 3],
                [sec |-> "cache set", idx |-> 9, opt |-> "mask", val |-> 5],
                [sec |-> "cache set", idx |-> 3, opt |-> "mask", val |-> 5],
                [sec |-> "global", idx |-> 0, opt |-> "mp rings", val |-> "yes"],
                [sec |-> "global", idx |-> 0, opt |-> "poll timeout", val |-> 2],
                [sec |-> "global", idx |-> 0, opt |-> "version", val |-> 2]},
   offloads |-> {PortLine(0, "mtu size", 2), PortLine(0, "mtu size", 1), PortLine(0, "mtu size", 0), PortLine(0, "vlan", "yes"), PortLine(0, "vlan", "no"),
                 PortLine(0, "rss", "yes"), PortLine(0, "lsc", "no"), PortLine(0, "strip crc", "yes"),
                 PortLine(0, "disable tx offload", {"ipv4 cksum", "vlan insert"}),
                 PortLine(0, "disable tx offload", {"udp cksum"}), PortLine(0, "disable tx offload", {})},
   twins |-> {EalLine("-n", 4), PortLine(0, "vdev", "tap0"), PortLine(1, "vdev", "tap1"), PortLine(0, "vlan tag", <<5, 6>>), PortLine(1, "virtual", "yes"),
              PortLine(0, "local ipv4", <<[ip |-> 1, prefix |-> 24], [ip |-> 2, prefix |-> 16]>>),
              PortLine(0, "local ipv4", <<[ip |-> 3, prefix |-> 0]>>)}]

-----------------------------------------------------------------------------
(* Files of some sections, and the texts of values.                        *)
Section(k, l) == [head |-> TRUE, kind |-> k, list |-> l]
Text(t) == [head |-> FALSE, text |-> t]
FileItems == [numbers |-> {Section("core", <<1>>), Section("core", <<1, 2>>), Section("core", CfWrong), Section("core", CfBroken),
                      Section("core", CfBackwards), Section("lua", <<0>>), Text("option"), Text("use")},
          names |-> {Section("core", CfVar), Section("variables", <<0>>), Section("core", <<2, 3>>), Text("def"), Text("use"), Text("no key")}]
SectionKinds == <<"lua", "variables", "core">>

CoreName(s, c, h) == [socket |-> s, core |-> c, ht |-> h]
TaskName(s, c, h, t, y) == [socket |-> s, core |-> c, ht |-> h, task |-> t, type |-> y]
Cpu(l, s, p) == [lcore |-> l, socket |-> s, phys |-> p]
\* hyper-threads numbered apart, siblings numbered in turn (with holes), a socket of its own, three threads
Machines == {<<Cpu(0, 0, 0), Cpu(1, 0, 1), Cpu(2, 0, 0), Cpu(3, 0, 1)>>,
             <<Cpu(0, 0, 0), Cpu(1, 0, 0), Cpu(2, 0, 2), Cpu(3, 1, 3)>>,
             <<Cpu(0, 0, 0), Cpu(1, 0, 0), Cpu(2, 0, 0), Cpu(3, 0, 3)>>}
SomeCores == {CoreName(-1, 0, -1), CoreName(-1, 2, -1), CoreName(0, 0, 0), CoreName(0, 1, 0), CoreName(0, 1, 1), CoreName(1, 0, 0), CoreName(2, 0, 0)}
CoreParts == {<<a>> : a \in SomeCores} \cup {<<a, b>> : a, b \in {CoreName(-1, 0, -1), CoreName(-1, 2, -1), CoreName(0, 0, 0), CoreName(0, 1, 0), CoreName(0, 1, 1)}}
IntParts == {<<n>> : n \in {0, 2}} \cup {<<0, 2>>, <<2, 0>>, <<1, 3>>, <<2, 1>>, <<0, 1, 2>>}
TaskRangeOf(a, b) == [kind |-> "range", from |-> a, to |-> b]
TaskParts == {[kind |-> "open"], [kind |-> "close", task |-> 3, type |-> "pkt"],
              TaskRangeOf(TaskName(-1, 1, -1, 0, "none"), TaskName(-1, 1, -1, 0, "none")),
              TaskRangeOf(TaskName(-1, 1, -1, 0, "none"), TaskName(-1, 1, -1, 1, "none")),
              TaskRangeOf(TaskName(0, 0, 0, 0, "none"), TaskName(0, 1, 0, 0, "none")),
              TaskRangeOf(TaskName(0, 1, 1, 0, "msg"), TaskName(0, 1, 1, 0, "none"))}
Job(w, p) == <<[what |-> w, parts |-> p]>>
Bits == {[i \in 1..4 |-> 1], <<1, 0, 1, 1>>, <<0, 1, 1, 1>>}
Looked == {Job("cores", p) : p \in BoundedSeq(CoreParts, 2) \ {<<>>}} \cup
          {Job("cores", <<p>>) \o Job("cores", <<p>>) : p \in CoreParts} \cup
          {Job("tasks", p) : p \in BoundedSeq(TaskParts, 4)}
PlainTexts ==
  {Job("ints", p) : p \in BoundedSeq(IntParts, 3)} \cup
  {Job("vars", p) : p \in BoundedSeq({"$", "{", "}", "a", "b"}, 5) \ {<<>>}} \cup
  {Job("kmg", [number |-> n, letter |-> l]) : n \in 0..63, l \in {"", "K", "M", "G"}} \cup
  {Job("int", n) : n \in {-1, 0, 63, 64}} \cup
  {Job("range", [lo |-> a, hi |-> b]) : a, b \in {-1, 0, 63, 64}} \cup
  {Job("flag", [flags |-> f, flag |-> g, text |-> x]) : f, g \in SUBSET {1}, x \in {"yes", "no", "x"}} \cup
  {Job(w, [ip |-> b, prefix |-> n]) : w \in {"ip4", "ip6 prefix"}, b \in Bits, n \in 0..7} \cup
  {Job("ip6", g) : g \in BoundedSeq({"", "1", "2"}, 5) \ {<<>>}} \cup
  {Job("random", x) : x \in BoundedSeq({"X", "0", "1", "y"}, 4)}
Situations == [machine : Machines, jobs : Looked] \cup [machine : {<<>>}, jobs : PlainTexts]
TextVars == (<<"a">> :> <<"b", "b">>) @@ (<<"b">> :> <<>>)

-----------------------------------------------------------------------------
Init ==
  /\ part \in {"setup", "ports", "stats", "console", "commands", "cores", "port sections", "file", "texts"}
  /\ SuInitFrom(Only("setup", SetUps, NoLinks))
  /\ PoInit(Only("ports", PortSetUps, NoQueues))
  /\ StInit(Only("stats", Countings, NoCounting))
  /\ CmInit(Only("commands", CommandedAll, NoCommands))
  /\ CfInit(Only("file", Files, <<>>)) /\ (part # "file" => cf_vars = <<>>)
  /\ TtInit(Only("texts", Situations, [machine |-> <<>>, jobs |-> Job("int", 0)]))
  /\ CoInit /\ (part # "console" => co_deadline)
  /\ CcInit /\ (part # "cores" => cc_theme = "modes" /\ cc_secondary)
  /\ PcInit /\ (part # "port sections" => pc_theme = "names")

Next ==
  /\ UNCHANGED part
  /\ \/ part = "setup" /\ SuNext /\ UNCHANGED <<po_vars, st_vars, co_vars, cm_vars, cc_vars, pc_vars, cfvars, ttvars>>
     \/ part = "ports" /\ PoNext /\ UNCHANGED <<su_vars, st_vars, co_vars, cm_vars, cc_vars, pc_vars, cfvars, ttvars>>
     \/ part = "stats" /\ StNext /\ UNCHANGED <<su_vars, po_vars, co_vars, cm_vars, cc_vars, pc_vars, cfvars, ttvars>>
     \/ part = "console" /\ CoNext /\ UNCHANGED <<su_vars, po_vars, st_vars, cm_vars, cc_vars, pc_vars, cfvars, ttvars>>
     \/ part = "commands" /\ CmNext /\ UNCHANGED <<su_vars, po_vars, st_vars, co_vars, cc_vars, pc_vars, cfvars, ttvars>>
     \/ part = "cores" /\ CcNext /\ UNCHANGED <<su_vars, po_vars, st_vars, co_vars, cm_vars, pc_vars, cfvars, ttvars>>
     \/ part = "port sections" /\ PcNext /\ UNCHANGED <<su_vars, po_vars, st_vars, co_vars, cm_vars, cc_vars, cfvars, ttvars>>
     \/ part = "file" /\ CfNext /\ UNCHANGED <<su_vars, po_vars, st_vars, co_vars, cm_vars, cc_vars, pc_vars, ttvars>>
     \/ part = "texts" /\ TtNext /\ UNCHANGED <<su_vars, po_vars, st_vars, co_vars, cm_vars, cc_vars, pc_vars, cfvars>>

Spec == Init /\ [][Next]_<<part, su_vars, po_vars, st_vars, co_vars, cm_vars, cc_vars, pc_vars, cfvars, ttvars>>

-----------------------------------------------------------------------------
\* What is set up is what the configuration asks for: every ring and every queue has the
\* tasks it was counted for, what is refused is refused for a cause, and only the known
\* configurations end the program or leave tasks waiting for each other's rings.
StartSound == (part = "setup" => SetUpSound) /\ (part = "ports" => PortsSound)

\* What the master tells the tasks and shows of them is true: a command reaches the tasks it
\* names and leaves their rings in step; no loss shown is negative, totals and averages only
\* grow, a measurement of latency is never read while it is written.
MasterSound == CommandsSound /\ (part = "stats" => CountersSound)

\* The configuration is read as it is written: every line once and in its place, every
\* value as its text says, every option in the task or port of its section.
ConfigRead ==
  /\ part = "cores" => CoreConfigSound
  /\ part = "port sections" => PortConfigSound
  /\ part = "file" => ConfigFileSound
  /\ part = "texts" => TextsSound
=============================================================================
