------------------------------ MODULE Commands ------------------------------
(***************************************************************************)
(* What the commands of an operator do (cmd_parser.c, commands.c), beyond  *)
(* the messages to workers of CoreControl: whom a command about cores and  *)
(* tasks reaches, how a task is taken out of the way of packets and put    *)
(* back, multicast addresses of ports and the classes of the cache.  A     *)
(* behaviour is about one kind of commands; the kinds share no state.      *)
(***************************************************************************)
EXTENDS Integers, FiniteSets, SequencesExt, Functions

CONSTANTS
  CmModes,     \* for each active core, the sequence of [mode, sub] of its tasks
  CmSocket,    \* the socket of each active core
  CmLists,     \* lists of cores that are named
  CmPlaces,    \* numbers of tasks that are named, from 0
  CmNames,     \* commands about tasks that are given
  CmMacs,      \* multicast addresses
  CmMaxMacs,   \* NB_MCAST_ADDR, addresses a port may have
  CmClasses,   \* classes of the cache, 0 .. n
  CmMasks      \* masks of the cache; the largest is everything

ASSUME CmAssumption ==
  /\ IsFiniteSet(DOMAIN CmModes) /\ DOMAIN CmSocket = DOMAIN CmModes
  /\ CmMaxMacs \in Nat \ {0} /\ CmPlaces \subseteq Nat
  /\ CmClasses = 0 .. Cardinality(CmClasses) - 1 /\ CmMasks = 0 .. Cardinality(CmMasks) - 1 /\ CmMasks # {}

VARIABLES
  cm_cfg,   \* kind of commands; links between tasks, and the flags about rings
  cm_last,  \* the last command about tasks, whom it reached and how it ended
  cm_out,   \* the rings every task transmits to
  cm_undo,  \* ghost: the last task that was bypassed, and the rings before that
  cm_port,  \* a port: its stored addresses, those of the device and whether it takes all
  cm_cache  \* classes of cores in hardware and in lcore_cfg, masks of classes, masks shown
cm_vars == <<cm_cfg, cm_last, cm_out, cm_undo, cm_port, cm_cache>>

CmCores == DOMAIN CmModes
CmTasks == {<<c, k>> \in CmCores \X CmPlaces : k < Len(CmModes[c])}
CmTask(t) == CmModes[t[1]][t[2] + 1]
TaskBefore(a, b) == a[1] < b[1] \/ (a[1] = b[1] /\ a[2] < b[2])
Quiet == [name |-> "none", cores |-> <<>>, place |-> 0, arg |-> "good", told |-> <<>>, ret |-> "done"]

----------------------------------------------------------------------------
(* Rings: those between tasks of a configuration.  0 stands for the null     *)
(* pointer in the place of a ring that was optimised away.                   *)
CmLinks == cm_cfg.links
LinksOf(t) == {k \in DOMAIN CmLinks : CmLinks[k].from = t}
LinksInto(t) == {k \in DOMAIN CmLinks : CmLinks[k].to = t}
InOrder(S) == SetToSortSeq(S, <)
HandedOver(k) ==
  /\ CmLinks[k].from[1] = CmLinks[k].to[1] /\ CmLinks[k].from[2] = CmLinks[k].to[2] - 1
  /\ LinksOf(CmLinks[k].from) = {k} /\ LinksInto(CmLinks[k].to) = {k}
OneRing(t) == cm_cfg.bypass \/ (cm_cfg.mp /\ Cardinality(LinksInto(t)) > 1)
RingOf(k) ==
  IF HandedOver(k) THEN 0
  ELSE IF OneRing(CmLinks[k].to) THEN InOrder(LinksInto(CmLinks[k].to))[1] ELSE k
RingsOf(links) == LET s == InOrder(links) IN [i \in DOMAIN s |-> RingOf(s[i])]
tx_rings_made(t) == RingsOf(LinksOf(t))
rx_rings(t) == FoldLeft(LAMBDA seq, r : IF r \in Range(seq) THEN seq ELSE Append(seq, r), <<>>, RingsOf(LinksInto(t)))
prev_tasks_of(t) == LET s == InOrder(LinksInto(t)) IN [i \in DOMAIN s |-> CmLinks[s[i]].from]
NoArray(t) == \E k \in LinksOf(t) : HandedOver(k)

\* t is taken out of the way: those before it transmit to where it transmits.
Skipping(out, t) ==
  [s \in DOMAIN out |-> [j \in DOMAIN out[s] |->
     IF s \in Range(prev_tasks_of(t)) /\ out[s][j] \in Range(rx_rings(t)) THEN out[t][1] ELSE out[s][j]]]
bypass_task(out, t) ==
  IF Len(out[t]) # 1 THEN [out |-> out, ret |-> "failed"]
  ELSE IF \E s \in Range(prev_tasks_of(t)) : NoArray(s) /\ Range(out[s]) \cap Range(rx_rings(t)) # {}
  THEN [out |-> out, ret |-> "crash"]
  ELSE [out |-> Skipping(out, t), ret |-> "done"]

\* Those before t that transmit to where t transmits are taken to transmit to t again.
Entry(t, i) ==
  IF Len(prev_tasks_of(t)) = Len(rx_rings(t)) THEN rx_rings(t)[i] ELSE rx_rings(t)[1]
Returned(out, t) ==
  FoldLeft(LAMBDA o, i : LET s == prev_tasks_of(t)[i]
                         IN [o EXCEPT ![s] = [j \in DOMAIN @ |-> IF @[j] = o[t][1] THEN Entry(t, i) ELSE @[j]]],
           out, [i \in DOMAIN prev_tasks_of(t) |-> i])
reconnect_task(out, t) ==
  IF Len(out[t]) # 1 THEN [out |-> out, ret |-> "failed"]
  ELSE IF \E s \in Range(prev_tasks_of(t)) : NoArray(s) /\ out[s][1] = out[t][1]
  THEN [out |-> out, ret |-> "crash"]
  ELSE [out |-> IF Len(rx_rings(t)) \in {1, Len(prev_tasks_of(t))} THEN Returned(out, t) ELSE out, ret |-> "done"]

----------------------------------------------------------------------------
(* Commands about cores and tasks.                                           *)
CountCommands == {"count"}
SizeCommands == {"pkt_size", "imix"}
SpeedCommands == {"speed", "speed_byte"}
ResetCommands == {"reset values"}
ValueCommands == {"set value", "set random", "set range"}
GenCommands == CountCommands \cup SizeCommands \cup SpeedCommands \cup ResetCommands \cup ValueCommands
CheckedAgain == SpeedCommands \cup ValueCommands
ImpairCommands == {"probability", "proba no drop", "proba delay", "proba duplicate", "delay_us", "random delay_us"}
CgnatCommands == {"cgnat dump public hash", "cgnat dump private hash"}
IgmpCommands == {"join igmp", "leave igmp"}
UncheckedCommands == {"gateway ip", "local ip"}
LatCommands == {"lat stats", "lat packets", "lat all stats"}
DumpCommands == {"dump", "dump_rx", "dump_tx"}
StatCommands == {"core stats", "dp core stats"}
AddCommands == {"arp add", "rule add", "route add"}
RingCommands == {"bypass", "reconnect"}

\* The mode a task must have to be told.
Fits(name, t) ==
  LET mode == CmTask(t).mode  sub == CmTask(t).sub
  IN CASE name = "imix" -> mode = "gen" /\ sub \in {"", "l3"}
       [] name \in GenCommands \ {"imix"} -> mode = "gen"
       [] name \in ImpairCommands -> mode = "impair"
       [] name \in CgnatCommands -> mode = "cgnat"
       [] name \in IgmpCommands -> mode = "swap"
       [] name \in LatCommands \cup {"accuracy limit"} -> mode = "lat"
       [] name = "irq stats" -> mode = "irq"
       [] name = "send unsollicited na" -> sub = "ndp"
       [] name = "gateway ip" -> sub = "l3"
       [] name = "local ip" -> mode = "arp" /\ sub = "local"
       [] OTHER -> TRUE

\* Mutant: the number of tasks of a core is taken for the number of its last task.
core_task_is_valid_last(c, place) == c \in CmCores /\ place <= Len(CmModes[c])
core_task_is_valid(c, place) == c \in CmCores /\ place < Len(CmModes[c])
cores_task_are_valid(cores, place) == \A i \in DOMAIN cores : core_task_is_valid(cores[i], place)

\* The tasks that are told: one core after the other, whatever the others say.
AllAt(cores, place) == [i \in DOMAIN cores |-> <<cores[i], place>>]
Told(name, tasks, arg) ==
  SelectSeq(tasks, LAMBDA t : /\ core_task_is_valid(t[1], t[2])
                              /\ t \in CmTasks => Fits(name, t)
                              /\ name \in CheckedAgain => arg # "beyond")

\* A command that stops at the first core that cannot take it.
UntilFailure(tasks, fails(_)) ==
  LET failing == {i \in DOMAIN tasks : fails(tasks[i])}
  IN IF failing = {} THEN [told |-> tasks, ret |-> "done"]
     ELSE [told |-> SubSeq(tasks, 1, InOrder(failing)[1] - 1), ret |-> "failed"]

\* "gateway ip" and "local ip" go through the cores without asking first.  Where
\* there is no task the former finds no sub mode and goes on, the latter looks at the
\* mode behind a null pointer, after it has told the tasks before.
Unchecked(name, cores, place) ==
  LET r == UntilFailure(AllAt(cores, place),
                        LAMBDA t : name = "local ip" /\ ~core_task_is_valid(t[1], t[2]))
  IN [told |-> Told(name, r.told, "good"), ret |-> IF r.ret = "done" THEN "done" ELSE "crash"]

TaskCommand(name, cores, place, arg) ==
  IF arg = "unreadable" \/ cores = <<>> \/ name \in AddCommands THEN [told |-> <<>>, ret |-> "failed"]
  ELSE IF name \in UncheckedCommands THEN Unchecked(name, cores, place)
  ELSE IF name \notin LatCommands \cup {"dp core stats"} /\ ~cores_task_are_valid(cores, place)
  THEN [told |-> <<>>, ret |-> "done"]
  ELSE IF name = "dump_rx" THEN UntilFailure(AllAt(cores, place), LAMBDA t : CmTask(t).mode = "gen")
  ELSE [told |-> Told(name, AllAt(cores, place), arg), ret |-> "done"]

tell(name, cores, place, arg) ==
  /\ cm_cfg.about = "tasks" /\ cm_last.ret # "crash" /\ name \notin RingCommands
  /\ cm_last' = TaskCommand(name, cores, place, arg)
                  @@ [name |-> name, cores |-> cores, place |-> place, arg |-> arg]
  /\ UNCHANGED <<cm_cfg, cm_out, cm_undo, cm_port, cm_cache>>

\* "reset values all" and its like go through all tasks.
tell_all ==
  /\ cm_cfg.about = "tasks" /\ cm_last.ret # "crash"
  /\ cm_last' = [Quiet EXCEPT !.name = "reset values all",
                             !.told = Told("reset values", SetToSortSeq(CmTasks, TaskBefore), "good")]
  /\ UNCHANGED <<cm_cfg, cm_out, cm_undo, cm_port, cm_cache>>

\* "bypass" and "reconnect" go through the cores until one fails.
RingCommand(name, cores, place) ==
  FoldLeft(LAMBDA acc, c : IF acc.ret # "done" THEN acc
                           ELSE LET r == IF name = "bypass" THEN bypass_task(acc.out, <<c, place>>)
                                         ELSE reconnect_task(acc.out, <<c, place>>)
                                IN [out |-> r.out, ret |-> r.ret,
                                    told |-> IF r.ret = "done" THEN Append(acc.told, <<c, place>>) ELSE acc.told],
           [out |-> cm_out, ret |-> "done", told |-> <<>>], cores)

ring_command(name, cores, place) ==
  LET r == IF name = "bypass" /\ ~cm_cfg.bypass THEN [out |-> cm_out, ret |-> "failed", told |-> <<>>]
           ELSE IF ~cores_task_are_valid(cores, place) THEN [out |-> cm_out, ret |-> "done", told |-> <<>>]
           ELSE RingCommand(name, cores, place)
  IN /\ cm_cfg.about = "tasks" /\ cm_last.ret # "crash" /\ cores # <<>>
     /\ cm_out' = r.out
     /\ cm_last' = [name |-> name, cores |-> cores, place |-> place, arg |-> "good", told |-> r.told, ret |-> r.ret]
     /\ cm_undo' = IF r.told = <<>> THEN cm_undo
                   ELSE IF name = "bypass" THEN [tasks |-> r.told, out |-> cm_out, phase |-> "bypassed"]
                   ELSE IF cm_undo.phase = "bypassed" /\ cm_undo.tasks = r.told
                   THEN [cm_undo EXCEPT !.phase = "reconnected"]
                   ELSE [tasks |-> <<>>, out |-> cm_out, phase |-> "none"]
     /\ UNCHANGED <<cm_cfg, cm_port, cm_cache>>

----------------------------------------------------------------------------
(* Multicast addresses of a port; the device may refuse a list.              *)
StoredMacs == SubSeq(cm_port.mc, 1, cm_port.n)
ListPut(list, i, x) == IF i \in DOMAIN list THEN [list EXCEPT ![i] = x] ELSE Append(list, x)

add_multicast_addr(port, mac, accepted) ==
  IF port.n >= CmMaxMacs \/ mac \in Range(SubSeq(port.mc, 1, port.n)) THEN [port |-> port, rc |-> -1]
  ELSE LET p == [port EXCEPT !.mc = ListPut(@, port.n + 1, mac)]
       IN IF accepted THEN [port |-> [p EXCEPT !.n = @ + 1, !.dev = SubSeq(p.mc, 1, p.n + 1)], rc |-> 0]
          ELSE [port |-> p, rc |-> -1]

del_multicast_addr(port, mac, accepted) ==
  LET places == {i \in 1 .. port.n : port.mc[i] = mac}
      i == CHOOSE x \in places : TRUE
      p == [port EXCEPT !.mc[i] = port.mc[port.n]]
  IN IF places = {} THEN [port |-> port, rc |-> -1]
     ELSE IF accepted THEN [port |-> [p EXCEPT !.n = @ - 1, !.dev = SubSeq(p.mc, 1, p.n - 1)], rc |-> 0]
     ELSE [port |-> [p EXCEPT !.mc[i] = mac], rc |-> -1]

enable_multicast(mac, accepted) ==
  LET before == [cm_port EXCEPT !.all = @ \/ cm_port.n = 0]
      added == add_multicast_addr(before, mac, accepted)
  IN /\ cm_cfg.about = "ports"
     /\ cm_port' = [added.port EXCEPT !.all = @ /\ ~(added.rc # 0 /\ added.port.n = 0)]
     /\ UNCHANGED <<cm_cfg, cm_last, cm_out, cm_undo, cm_cache>>

disable_multicast(mac, accepted) ==
  LET gone == del_multicast_addr(cm_port, mac, accepted)
  IN /\ cm_cfg.about = "ports"
     /\ cm_port' = [gone.port EXCEPT !.all = @ /\ ~(gone.rc = 0 /\ gone.port.n = 0)]
     /\ UNCHANGED <<cm_cfg, cm_last, cm_out, cm_undo, cm_cache>>

\* Addresses from the configuration when the port starts.
McInit(list, accepted) ==
  [mc |-> list, n |-> IF accepted THEN Len(list) ELSE 0, dev |-> IF accepted THEN list ELSE <<>>,
   all |-> accepted /\ list # <<>>]

----------------------------------------------------------------------------
(* Classes of the cache.                                                     *)
Everything == Cardinality(CmMasks) - 1
CacheSockets == Range(CmSocket)

\* Every core starts in the class of its configuration, whose mask its socket has.
CacheInit(sets) ==
  [class |-> sets, set |-> sets, mask |-> [s \in CacheSockets |-> [k \in CmClasses |-> Everything]],
   shown |-> [c \in CmCores |-> Everything]]

cmd_set_cache_class_mask(c, k, m) ==
  LET same == {x \in CmCores : CmSocket[x] = CmSocket[c] /\ ([cm_cache.set EXCEPT ![c] = k])[x] = k}
  IN /\ cm_cfg.about = "cache"
     /\ cm_cache' = [cm_cache EXCEPT !.mask[CmSocket[c]][k] = m, !.set[c] = k,
                                     !.shown = [x \in CmCores |-> IF x \in same THEN m ELSE @[x]]]
     /\ UNCHANGED <<cm_cfg, cm_last, cm_out, cm_undo, cm_port>>

cmd_set_cache_class(c, k) ==
  /\ cm_cfg.about = "cache"
  /\ cm_cache' = [cm_cache EXCEPT !.class[c] = k, !.shown[c] = cm_cache.mask[CmSocket[c]][k]]
  /\ UNCHANGED <<cm_cfg, cm_last, cm_out, cm_undo, cm_port>>

cmd_cache_reset ==
  /\ cm_cfg.about = "cache"
  /\ cm_cache' = CacheInit([c \in CmCores |-> 0])
  /\ UNCHANGED <<cm_cfg, cm_last, cm_out, cm_undo, cm_port>>

----------------------------------------------------------------------------
CmInit(configurations) ==
  /\ cm_cfg \in configurations
  /\ cm_last = Quiet
  /\ cm_out = [t \in CmTasks |-> tx_rings_made(t)]
  /\ cm_undo = [tasks |-> <<>>, out |-> cm_out, phase |-> "none"]
  /\ cm_port \in IF cm_cfg.about = "ports" THEN {McInit(l, a) : l \in {<<>>} \cup {<<m>> : m \in CmMacs}, a \in BOOLEAN}
                 ELSE {McInit(<<>>, TRUE)}
  /\ cm_cache \in IF cm_cfg.about = "cache" THEN {CacheInit(s) : s \in [CmCores -> CmClasses]}
                  ELSE {CacheInit([c \in CmCores |-> 0])}

CmNext ==
  \/ \E name \in CmNames, cores \in CmLists, place \in CmPlaces :
       \/ \E arg \in {"good", "beyond", "unreadable"} : tell(name, cores, place, arg)
       \/ name \in RingCommands /\ ring_command(name, cores, place)
  \/ tell_all
  \/ \E mac \in CmMacs, accepted \in BOOLEAN : enable_multicast(mac, accepted) \/ disable_multicast(mac, accepted)
  \/ \E c \in CmCores, k \in CmClasses :
       \/ \E m \in CmMasks : cmd_set_cache_class_mask(c, k, m)
       \/ cmd_set_cache_class(c, k)
  \/ cmd_cache_reset

----------------------------------------------------------------------------
\* Only tasks that exist and have the mode of a command are told of it, and all of them
\* or, when a core or a task of the list does not exist, none.  The commands that answer
\* for each task tell all of them in any case, and "local ip" those before the missing
\* one (cmd_parser.c:60-86 and the handlers).
ForEach == LatCommands \cup {"dp core stats", "gateway ip"}
RightTasksTold ==
  LET last == cm_last
      named == Range(AllAt(last.cores, last.place))
      complete == named \subseteq CmTasks
      fitting == {t \in named \cap CmTasks : Fits(last.name, t)}
  IN last.name \in CmNames \ RingCommands =>
       /\ Range(last.told) \subseteq fitting
       /\ last.ret = "done" /\ last.arg = "good" /\ (complete \/ last.name \in ForEach) =>
            Range(last.told) = fitting
       /\ ~complete /\ last.name \notin ForEach \cup {"local ip"} => last.told = <<>>

\* The program is brought down only by "local ip" for a task that does not exist, or
\* by "bypass" and "reconnect" next to a ring that was optimised away.
FatalCommandsKnown ==
  cm_last.ret = "crash" =>
    \/ cm_last.name = "local ip" /\ Range(AllAt(cm_last.cores, cm_last.place)) \ CmTasks # {}
    \/ cm_last.name \in RingCommands /\ \E k \in DOMAIN CmLinks : HandedOver(k) /\ CmLinks[k].to[2] = cm_last.place

\* Nobody transmits to the last task that was bypassed, unless its packets come back to it.
BypassHolds ==
  cm_undo.phase = "bypassed" /\ Len(cm_undo.tasks) = 1 =>
    LET t == cm_undo.tasks[1]
    IN \A s \in Range(prev_tasks_of(t)) : Range(cm_out[s]) \cap Range(rx_rings(t)) \subseteq Range(cm_out[t])

\* A bypass that is taken back at once leaves the rings as they were, unless a task
\* before the bypassed one transmitted to the same ring as this already.
ReconnectUndoes ==
  cm_undo.phase = "reconnected" /\ Len(cm_undo.tasks) = 1 =>
    LET t == cm_undo.tasks[1]
    IN \/ cm_out = cm_undo.out
       \/ \E s \in Range(prev_tasks_of(t)) : cm_undo.out[t][1] \in Range(cm_undo.out[s])

\* The tasks to which packets of t come.
Downstream(t) ==
  LET after[d \in 0 .. Cardinality(CmTasks)] ==
        IF d = 0 THEN {t} ELSE after[d - 1] \cup {CmLinks[k].to : k \in UNION {LinksOf(u) : u \in after[d - 1]}}
  IN after[Cardinality(CmTasks)]

\* A task loses a ring only when one after it, whose own ring was optimised away, is bypassed.
RingsKept ==
  \A t \in CmTasks : 0 \in Range(cm_out[t]) => \E u \in Downstream(t) : NoArray(u)

\* The device has the stored addresses, each once and no more than fit, and takes all
\* multicast packets exactly while there are some (commands.c:250-304, 966-989).
MulticastInStep ==
  /\ cm_port.dev = StoredMacs /\ IsInjective(StoredMacs) /\ cm_port.n <= CmMaxMacs
  /\ cm_port.all = (cm_port.n > 0)

\* The mask that is shown for a core is the one its class has, while lcore_cfg knows the
\* class; "set cache class" does not tell it (commands.c:1108-1129).
MasksShown ==
  \A c \in CmCores :
    cm_cache.set[c] = cm_cache.class[c] => cm_cache.shown[c] = cm_cache.mask[CmSocket[c]][cm_cache.class[c]]

\* Commands reach whom they should, and what they change stays in step.
CommandsSound ==
  /\ RightTasksTold /\ FatalCommandsKnown /\ BypassHolds /\ ReconnectUndoes /\ RingsKept
  /\ MulticastInStep /\ MasksShown
=============================================================================
