------------------------------ MODULE MCWorker ------------------------------
(***************************************************************************)
(* Instances of the components of a worker thread that share no state: its *)
(* timers, the token bucket of a generator, the L3 tables of a task, and   *)
(* the parts of the traffic generators (the heap of timers, the handlers   *)
(* and the connections of the L4 generator, the packet generator, and      *)
(* packet ids up to the latency task).  Each behaviour runs one of them,   *)
(* the part chosen at the start, while the others stay in one initial      *)
(* state.                                                                  *)
(***************************************************************************)
EXTENDS TscTasks, TokenTime, L3Table, Heap, L4Handlers, L4Bundles, Gen, GenLat, TLC

VARIABLE part  \* the component this behaviour is about

\* All four timers, with periods such that deadlines coincide, overtake each
\* other and, with steps longer than a period, are missed by more than one.
AllTimers == {"period", "ctrl"}
TimerPeriods == [term |-> 7, drain |-> 2, period |-> 3, ctrl |-> 3]
EarliestTsc == -4

\* Bundles of one and of two streams; the mix has two of each, one UDP.
Mix == {<<"tcp", "tcp">>, <<"udp", "tcp">>, <<"udp">>}
MixCounts == [c \in Mix |-> IF c = <<"udp">> THEN 1 ELSE 2]

\* The two local addresses are interchangeable.
Symmetry == Permutations(Local6)

\* A third next hop is made while only the local addresses are used.
ThirdHopOfLocal ==
  nb_gws > 2 =>
    /\ asked \subseteq Local6 /\ \A i \in 1 .. nb_gws : arp[HopAt(i)].ip \in Local6 \cup {NoIp}
    /\ \A ip \in Ips \ Local6 : lpm[ip] = 2

WorkerInit ==
  /\ part \in {"timers", "tokens", "l3", "heap", "handlers", "bundles", "gen", "ids"}
  /\ Init /\ (part # "timers" => tsc_tasks = CHOOSE s \in Launch(0) : TRUE)
  /\ TtInit /\ (part # "tokens" => tt.bpp = CHOOSE bpp \in TtRates : TRUE)
  /\ L3Init /\ (part # "l3" => l3_kind = "gateway" /\ arp[Gw].ip \notin Local6)
  /\ HeapInit /\ L4BInit
  /\ L4HInit /\ (part # "handlers" => role = "server")
  /\ GenInit /\ (part # "gen" => Len(template_len) = 1 /\ template_len[1] = MinLen)
  /\ GlInit /\ (part # "ids" => ~ gen_l3)

generator_vars == <<heap_vars, l4h_vars, l4b_vars, gen_vars, gl_vars>>

GeneratorNext ==
  \/ part = "heap" /\ HeapNext /\ UNCHANGED <<l4h_vars, l4b_vars, gen_vars, gl_vars>>
  \/ part = "handlers" /\ L4HNext /\ UNCHANGED <<heap_vars, l4b_vars, gen_vars, gl_vars>>
  \/ part = "bundles" /\ L4BNext /\ UNCHANGED <<heap_vars, l4h_vars, gen_vars, gl_vars>>
  \/ part = "gen" /\ GenNext /\ UNCHANGED <<heap_vars, l4h_vars, l4b_vars, gl_vars>>
  \/ part = "ids" /\ GlNext /\ UNCHANGED <<heap_vars, l4h_vars, l4b_vars, gen_vars>>

WorkerNext ==
  /\ UNCHANGED part
  /\ \/ part = "timers" /\ Next /\ UNCHANGED <<tt_vars, l3_vars, generator_vars>>
     \/ part = "tokens" /\ TtNext /\ UNCHANGED <<vars, l3_vars, generator_vars>>
     \/ part = "l3" /\ L3Next /\ ThirdHopOfLocal' /\ UNCHANGED <<vars, tt_vars, generator_vars>>
     \/ GeneratorNext /\ UNCHANGED <<vars, tt_vars, l3_vars>>

WorkerSpec ==
  WorkerInit /\ [][WorkerNext]_<<part, vars, tt_vars, l3_vars, generator_vars>>
=============================================================================
