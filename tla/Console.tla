------------------------------ MODULE Console ------------------------------
(***************************************************************************)
(* The main loop of the master and the console (run.c, input.c,            *)
(* input_conn.c).  The loop waits for inputs, reads what clients send, puts *)
(* lines together and has them executed; then it looks at the links of the *)
(* ports, updates the statistics and checks its timeouts.  Signals and     *)
(* interrupts of the links come between any two steps.                     *)
(***************************************************************************)
EXTENDS Integers, FiniteSets, Sequences, Functions

CONSTANTS
  CoMaxInputs, \* places for inputs, the listening sockets included
  CoClients,   \* places for clients
  CoMaxFds,    \* bound: connections that are accepted
  CoBuf,       \* size of the buffer of a client
  CoChunks,    \* what a read returns: sequences of characters
  CoCores,     \* cores
  CoTimeout,   \* heartbeat timeout, in updates; 0 for none
  CoDuration,  \* updates until the program ends by itself; 0 for none
  CoMaxTime,   \* bound: updates
  CoMaxLinks   \* bound: changes of the link

ASSUME CoAssumption ==
  /\ {CoMaxInputs, CoClients, CoMaxFds, CoBuf, CoMaxTime} \subseteq Nat \ {0}
  /\ {CoTimeout, CoDuration, CoMaxLinks} \subseteq Nat /\ IsFiniteSet(CoCores)
  /\ CoChunks \subseteq Seq(STRING)

VARIABLES
  co_deadline, \* whether reading ends at the next update (the loop without a control plane)
  co_in,       \* the registered inputs, in order: the server or a client
  co_client,   \* enabled, descriptor, line so far; ghosts: the true line, since when
  co_pc,       \* where the master is, and what it still has to do there
  co_sys,      \* time, heartbeat, cores, end of the program, links
  co_cmd,      \* the last command that was executed
  co_ghost     \* open and left open descriptors, how many there were, clients without a
               \* place among the inputs, when a client was last read
co_vars == <<co_deadline, co_in, co_client, co_pc, co_sys, co_cmd, co_ghost>>

Server == 0
Clients == 1 .. CoClients
NoClient == [enabled |-> FALSE, fd |-> 0, buf |-> <<>>, line |-> <<>>, odd |-> FALSE, since |-> 0]
NoCommand == [buf |-> <<>>, line |-> <<>>, odd |-> FALSE]
Step(place) == [at |-> place]
Never == 0
NoFd == 0   \* the descriptor -1, what accept returns when it fails

CoInit ==
  /\ co_deadline \in BOOLEAN
  /\ co_in = <<Server>>
  /\ co_client = [k \in Clients |-> NoClient]
  /\ co_pc = Step("inputs")
  /\ co_sys = [now |-> 1, heartbeat |-> Never, running |-> {}, leaving |-> FALSE, stop |-> FALSE,
               again |-> FALSE, lsc |-> 0, link |-> 0, shown |-> 0]
  /\ co_cmd = NoCommand
  /\ co_ghost = [open |-> {}, left |-> {}, unserved |-> {}, fds |-> 0, heard |-> Never]

----------------------------------------------------------------------------
(* Inputs.                                                                   *)
reg_input(x) ==
  IF Len(co_in) = CoMaxInputs \/ x \in Range(co_in) THEN co_in ELSE Append(co_in, x)

\* The inputs behind the first place of x move one place to the front.
Without(in, x) ==
  LET first == CHOOSE i \in DOMAIN in : in[i] = x /\ \A j \in 1 .. i - 1 : in[j] # x
  IN IF x \notin Range(in) THEN in
     ELSE [i \in 1 .. Len(in) - 1 |-> IF i < first THEN in[i] ELSE in[i + 1]]
unreg_input(x) == Without(co_in, x)

\* select() tells which of the inputs that were registered are ready.
input_proc(ready) ==
  /\ co_pc = Step("inputs") /\ ready # {}
  /\ co_pc' = [at |-> "round", ready |-> ready, i |-> 1]
  /\ UNCHANGED <<co_deadline, co_in, co_client, co_sys, co_cmd, co_ghost>>

\* Nothing is ready, or the time has come.
input_proc_until ==
  /\ co_pc = Step("inputs") /\ co_pc' = Step("links")
  /\ UNCHANGED <<co_deadline, co_in, co_client, co_sys, co_cmd, co_ghost>>

\* The inputs are gone through while they are added and removed.
Current == co_in[co_pc.i]
Further == [co_pc EXCEPT !.i = @ + 1]
skip_input ==
  /\ co_pc.at = "round"
  /\ \/ co_pc.i > Len(co_in) /\ co_pc' = Step("inputs")
     \/ co_pc.i <= Len(co_in) /\ Current \notin co_pc.ready /\ co_pc' = Further
  /\ UNCHANGED <<co_deadline, co_in, co_client, co_sys, co_cmd, co_ghost>>
Ready(x) == co_pc.at = "round" /\ co_pc.i <= Len(co_in) /\ Current = x /\ x \in co_pc.ready

\* A client takes the first free place; it is refused when there is none.  Nobody
\* looks at whether accept has failed: then a client without a descriptor is there.
handle_new_client(accepted) ==
  LET free == {k \in Clients : ~co_client[k].enabled}
      k == CHOOSE j \in free : \A l \in free : j <= l
      fds == IF accepted THEN co_ghost.fds + 1 ELSE co_ghost.fds
      fd == IF accepted THEN fds ELSE NoFd
  IN /\ Ready(Server) /\ fds <= CoMaxFds
     /\ co_pc' = Further
     /\ IF free = {} THEN co_ghost' = [co_ghost EXCEPT !.fds = fds] /\ UNCHANGED <<co_client, co_in>>
        ELSE /\ co_client' = [co_client EXCEPT ![k] = [NoClient EXCEPT !.enabled = TRUE, !.fd = fd,
                                                                       !.since = co_sys.now]]
             /\ co_in' = reg_input(k)
             /\ co_ghost' = [co_ghost EXCEPT !.fds = fds, !.open = (@ \cup {fd}) \ {NoFd},
                               !.unserved = IF co_in' = co_in THEN @ \cup {k} ELSE @ \ {k}]
     /\ UNCHANGED <<co_deadline, co_sys, co_cmd>>

\* The client has closed the connection; the descriptor stays open.
client_gone(k) ==
  /\ Ready(k) /\ co_client[k].fd # NoFd
  /\ co_pc' = Further
  /\ co_client' = [co_client EXCEPT ![k].enabled = FALSE]
  /\ co_in' = unreg_input(k)
  /\ co_ghost' = [co_ghost EXCEPT !.left = @ \cup {co_client[k].fd}]
  /\ UNCHANGED <<co_deadline, co_sys, co_cmd>>

----------------------------------------------------------------------------
(* Lines.                                                                    *)
\* What a command makes the program do, one step after the other.
Execute(buf) ==
  CASE buf = <<"start">> -> [i \in 1 .. Cardinality(CoCores) |-> <<"start", i>>]
    [] buf = <<"quit">> -> <<<<"quit", 0>>>>
    [] OTHER -> <<>>

\* A return just before the end of the line is dropped; a line that does not fit is
\* dropped so far, and goes on.  The ghost keeps the line as it was sent.
Char(chunk, acc, i) ==
  LET ch == chunk[i]
      odd == acc.odd \/ ch = "cr" \/ Len(acc.buf) + 1 >= CoBuf
      sent == IF odd THEN <<>> ELSE Append(acc.line, ch)
  IN IF ch = "cr" /\ i + 1 <= Len(chunk) /\ chunk[i + 1] = "nl" THEN acc
     ELSE CASE ch = "nl" ->
            [acc EXCEPT !.buf = <<>>, !.line = <<>>, !.odd = FALSE,
                        !.cmd = IF acc.buf = <<>> THEN @ ELSE [buf |-> acc.buf, line |-> acc.line, odd |-> acc.odd],
                        !.todo = @ \o (IF acc.buf = <<>> THEN <<>> ELSE Execute(acc.buf))]
       [] ch # "nl" /\ Len(acc.buf) + 1 < CoBuf ->
            [acc EXCEPT !.buf = Append(@, ch), !.line = sent, !.odd = odd]
       [] OTHER -> [acc EXCEPT !.buf = <<>>, !.line = sent, !.odd = odd]
Scan(c, chunk) ==
  LET upto[i \in 0 .. Len(chunk)] ==
        IF i = 0 THEN [buf |-> c.buf, line |-> c.line, odd |-> c.odd, cmd |-> co_cmd, todo |-> <<>>]
        ELSE Char(chunk, upto[i - 1], i)
  IN upto[Len(chunk)]

handle_client(k, chunk) ==
  LET s == Scan(co_client[k], chunk)
  IN /\ Ready(k) /\ co_client[k].fd # NoFd
     /\ co_client' = [co_client EXCEPT ![k].buf = s.buf, ![k].line = s.line, ![k].odd = s.odd]
     /\ co_cmd' = s.cmd
     /\ co_sys' = [co_sys EXCEPT !.heartbeat = co_sys.now + CoTimeout]
     /\ co_ghost' = [co_ghost EXCEPT !.heard = co_sys.now]
     /\ co_pc' = IF s.todo = <<>> THEN Further ELSE [at |-> "commands", todo |-> s.todo, back |-> Further]
     /\ UNCHANGED <<co_deadline, co_in>>

\* read fails, as it always does without a descriptor (which is ready or not as the
\* bits of the set happen to be: FD_SET of -1 is undefined).  The client stays where
\* it is, and the heartbeat counts anew.
read_fails(k) ==
  /\ Ready(k)
  /\ co_pc' = Further
  /\ co_sys' = [co_sys EXCEPT !.heartbeat = co_sys.now + CoTimeout]
  /\ co_ghost' = [co_ghost EXCEPT !.heard = co_sys.now]
  /\ UNCHANGED <<co_deadline, co_in, co_client, co_cmd>>

\* Cores are started one after the other.
Quit(sys) ==
  IF sys.leaving THEN sys ELSE [sys EXCEPT !.leaving = TRUE, !.running = {}, !.stop = TRUE]
command_step ==
  LET step == Head(co_pc.todo)
  IN /\ co_pc.at = "commands"
     /\ co_sys' = IF step[1] = "quit" THEN Quit(co_sys)
                  ELSE [co_sys EXCEPT !.running = @ \cup {step[2]}, !.again = @ \/ co_sys.leaving]
     /\ co_pc' = IF Len(co_pc.todo) = 1 THEN co_pc.back ELSE [co_pc EXCEPT !.todo = Tail(@)]
     /\ UNCHANGED <<co_deadline, co_in, co_client, co_cmd, co_ghost>>

\* A signal interrupts the master anywhere.
sigterm_handler ==
  /\ co_pc.at # "exit" /\ ~co_sys.leaving
  /\ co_sys' = Quit(co_sys)
  /\ UNCHANGED <<co_deadline, co_in, co_client, co_pc, co_cmd, co_ghost>>

----------------------------------------------------------------------------
(* Links and timeouts.                                                       *)
lsc_cb ==
  /\ co_sys.link < CoMaxLinks
  /\ co_sys' = [co_sys EXCEPT !.link = @ + 1, !.lsc = @ + 1]
  /\ UNCHANGED <<co_deadline, co_in, co_client, co_pc, co_cmd, co_ghost>>

\* The counter goes down before the links are read.
multiplexed_input_stats ==
  /\ co_pc = Step("links")
  /\ IF co_sys.lsc = 0 THEN co_pc' = Step("update") /\ UNCHANGED co_sys
     ELSE co_pc' = Step("read links") /\ co_sys' = [co_sys EXCEPT !.lsc = @ - 1]
  /\ UNCHANGED <<co_deadline, co_in, co_client, co_cmd, co_ghost>>
update_link_states ==
  /\ co_pc = Step("read links")
  /\ co_pc' = Step("update") /\ co_sys' = [co_sys EXCEPT !.shown = co_sys.link]
  /\ UNCHANGED <<co_deadline, co_in, co_client, co_cmd, co_ghost>>

\* With a control plane the loop may go round before the next update.
Loop(sys) == IF sys.stop THEN Step("exit") ELSE Step("inputs")
before_update ==
  /\ co_pc = Step("update") /\ ~co_deadline
  /\ co_pc' = Loop(co_sys)
  /\ UNCHANGED <<co_deadline, co_in, co_client, co_sys, co_cmd, co_ghost>>

\* Clients that are silent for too long are stopped, and so are the cores.
\* Mutant: they stay among the inputs.
stop_handling_client_listened ==
  /\ co_client' = [k \in Clients |-> [co_client[k] EXCEPT !.enabled = FALSE]]
  /\ co_ghost' = [co_ghost EXCEPT !.open = @ \ {co_client[k].fd : k \in {j \in Clients : co_client[j].enabled}}]
  /\ UNCHANGED co_in
stop_handling_client ==
  /\ co_client' = [k \in Clients |-> [co_client[k] EXCEPT !.enabled = FALSE]]
  /\ co_in' = LET left[k \in 0 .. CoClients] ==
                    IF k = 0 THEN co_in
                    ELSE IF co_client[k].enabled THEN Without(left[k - 1], k) ELSE left[k - 1]
              IN left[CoClients]
  /\ co_ghost' = [co_ghost EXCEPT !.open = @ \ {co_client[k].fd : k \in {j \in Clients : co_client[j].enabled}}]
Expired(now) == co_sys.heartbeat # Never /\ CoTimeout # 0 /\ now >= co_sys.heartbeat
run_update ==
  LET now == co_sys.now + 1
      ends == CoDuration # 0 /\ now >= CoDuration
  IN /\ co_pc = Step("update") /\ now <= CoMaxTime
     /\ co_sys' = IF Expired(now)
                  THEN [co_sys EXCEPT !.now = now, !.stop = @ \/ ends, !.running = {}, !.heartbeat = Never]
                  ELSE [co_sys EXCEPT !.now = now, !.stop = @ \/ ends]
     /\ IF Expired(now) THEN stop_handling_client ELSE UNCHANGED <<co_client, co_in, co_ghost>>
     /\ co_pc' = Loop(co_sys')
     /\ UNCHANGED <<co_deadline, co_cmd>>

CoNext ==
  \/ \E ready \in SUBSET Range(co_in) : input_proc(ready)
  \/ input_proc_until \/ skip_input \/ \E accepted \in BOOLEAN : handle_new_client(accepted)
  \/ \E k \in Clients : client_gone(k) \/ read_fails(k) \/ \E chunk \in CoChunks : handle_client(k, chunk)
  \/ command_step \/ sigterm_handler \/ lsc_cb
  \/ multiplexed_input_stats \/ update_link_states \/ before_update \/ run_update

CoSpec == CoInit /\ [][CoNext]_co_vars

----------------------------------------------------------------------------
Enabled == {k \in Clients : co_client[k].enabled}
FdsOf(S) == {co_client[k].fd : k \in S}

\* Every client is listened to once, but for those that were accepted when all places
\* for inputs were taken; nobody else is listened to (input.c:30-68, input_conn.c:165-195).
InputsMatch ==
  /\ IsInjective(co_in) /\ co_in[1] = Server
  /\ Range(co_in) \ {Server} \subseteq Enabled
  /\ \A k \in Enabled : k \in Range(co_in) \/ k \in co_ghost.unserved

\* A descriptor is that of one client, or was left open when its peer closed the
\* connection (input_conn.c:133-137); only a client that accept failed for has none.
DescriptorsOwned ==
  /\ co_ghost.open = (FdsOf(Enabled) \cup co_ghost.left) \ {NoFd}
  /\ \A j, k \in Enabled : co_client[j].fd = co_client[k].fd => j = k \/ co_client[k].fd = NoFd

\* A command is a line as one client sent it, unless the line was too long or its
\* return was read apart from its end (input_conn.c:141-156).
CommandsWhole ==
  /\ ~co_cmd.odd => co_cmd.buf = co_cmd.line
  /\ \A k \in Enabled : ~co_client[k].odd => co_client[k].buf = co_client[k].line

\* When no client was read for the time of the heartbeat, to find a word or to fail, no
\* core runs and no client is left but those that came later (run.c:241-247).
SilenceStops ==
  co_pc = Step("inputs") /\ CoTimeout # 0 /\ co_ghost.heard # Never /\ co_sys.now >= co_ghost.heard + CoTimeout =>
    /\ co_sys.running = {}
    /\ \A k \in Enabled : co_client[k].since >= co_ghost.heard + CoTimeout

\* Quitting stops the cores, unless commands that are read in the same round, or the
\* one that was interrupted, start them again (run.c:49-60).
QuitStops == co_pc = Step("exit") /\ co_sys.leaving /\ ~co_sys.again => co_sys.running = {}

\* What is shown of the links is right when no change is left to be looked at.
LinksShown == co_sys.lsc = 0 /\ co_pc # Step("read links") => co_sys.shown = co_sys.link

\* The master: clients, commands, timeouts and links.
ConsoleSound ==
  /\ InputsMatch /\ DescriptorsOwned /\ CommandsWhole
  /\ SilenceStops /\ QuitStops /\ LinksShown
=============================================================================
