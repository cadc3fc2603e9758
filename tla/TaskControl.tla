---------------------------- MODULE TaskControl ----------------------------
(***************************************************************************)
(* What the start/stop machinery promises: every core has a set of running *)
(* tasks and room for one request; a request is accepted only by a core    *)
(* that has none, and serving it applies it to the set, atomically and     *)
(* once.  CoreControl implements it with arrays, flags and two threads.    *)
(***************************************************************************)
EXTENDS Integers

CONSTANTS Cores, n_tasks_all

NoRequest == [type |-> "NONE", task_id |-> 0]

VARIABLES running, request

Init ==
  /\ running = [c \in Cores |-> {}]
  /\ request = [c \in Cores |-> NoRequest]

Named(c, t) == IF t = -1 THEN 0 .. (n_tasks_all[c] - 1)
               ELSE {t} \cap (0 .. (n_tasks_all[c] - 1))

Request(c) ==
  /\ request[c] = NoRequest
  /\ request'[c] \in [type : {"START", "STOP", "OTHER"}, task_id : Nat \cup {-1}]
  /\ request' = [request EXCEPT ![c] = request'[c]]
  /\ UNCHANGED running

Serve(c) ==
  LET r == request[c] IN
  /\ r # NoRequest
  /\ request' = [request EXCEPT ![c] = NoRequest]
  /\ running' = [running EXCEPT ![c] =
       CASE r.type = "START" -> @ \cup Named(c, r.task_id)
         [] r.type = "STOP"  -> @ \ Named(c, r.task_id)
         [] OTHER            -> @]

Next == \E c \in Cores : Request(c) \/ Serve(c)

Spec == Init /\ [][Next]_<<running, request>>

=============================================================================
