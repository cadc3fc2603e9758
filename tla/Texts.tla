------------------------------- MODULE Texts -------------------------------
(***************************************************************************)
(* The parsers of values (parse_utils.c).  A text is what its parser cuts  *)
(* it into: parts between commas with the one or two ends of a range, the  *)
(* octets of an address, the characters of a text with variables.  The     *)
(* names of cores may have a socket and a hyper-thread ("5s1h"); they are  *)
(* looked up in the topology of the machine, which is read when the first  *)
(* of them is met.  One text after the other is parsed.                    *)
(***************************************************************************)
EXTENDS Integers, Sequences, FiniteSets, SequencesExt, FiniteSetsExt

CONSTANTS TtMaxSockets,  \* MAX_SOCKETS
          TtMaxCores,    \* RTE_MAX_LCORE
          TtMaxList,     \* places in the list a caller passes
          TtMaxSet,      \* places in a core_task_set
          TtWidth,       \* bits of a uint32_t
          TtStep,        \* bits a letter of K, M, G stands for: 10 in the code
          TtByte,        \* bits of a byte
          TtGroups,      \* groups of an IPv6 address
          TtVars,        \* the variables that are defined -> their values
          TtOld          \* what is in memory before a value is stored

ASSUME TtAssumption ==
  {TtMaxSockets, TtMaxCores, TtMaxList, TtMaxSet, TtWidth, TtStep, TtByte, TtGroups} \subseteq Nat \ {0}

VARIABLES tt_machine,            \* the cores present, in order: [lcore, socket, phys]
          tt_topo,               \* cpu_topo
          tt_jobs,               \* the texts still to be parsed: [what, parts]
          tt_at,                 \* parts of the first of them already read
          tt_acc,                \* what was stored so far
          tt_results             \* [job, ok, out] of the texts before

ttvars == <<tt_machine, tt_topo, tt_jobs, tt_at, tt_acc, tt_results>>

Limit == 2 ^ TtWidth
No == [ok |-> FALSE, out |-> <<>>]
Yes(out) == [ok |-> TRUE, out |-> out]

-----------------------------------------------------------------------------
(* The topology: for every socket its cores, for every core its two        *)
(* threads; -1 where there is none.                                        *)

TopoSockets == 0 .. TtMaxSockets - 1
EmptyTopology == [n |-> 0, count |-> [s \in TopoSockets |-> 0],
                  core |-> [s \in TopoSockets |-> [c \in 0 .. TtMaxCores - 1 |-> <<-1, -1>>]]]

\* One core of those present; an error leaves what was read before it in place
AddCore(c, read) ==
  LET t == read.topo
      counted == IF c.socket < TtMaxSockets THEN [t EXCEPT !.n = Max({t.n, c.socket + 1})] ELSE t
      slot == t.core[c.socket][c.phys]
      at(k) == [counted EXCEPT !.core[c.socket][c.phys][k] = c.lcore]
  IN  CASE ~read.ok -> read
        [] read.ok /\ (c.socket >= TtMaxSockets \/ c.phys >= TtMaxCores) -> [ok |-> FALSE, topo |-> counted]
        [] OTHER -> IF slot[1] = -1 THEN [ok |-> TRUE, topo |-> [at(1) EXCEPT !.count[c.socket] = @ + 1]]
                    ELSE IF slot[2] = -1 THEN [ok |-> TRUE, topo |-> at(2)]
                    ELSE [ok |-> FALSE, topo |-> counted]

\* The cores of a socket are moved to its first places; the places behind them keep
\* what they had
Compacted(t) ==
  LET kept(s) == SetToSortSeq({c \in DOMAIN t.core[s] : t.core[s][c][1] # -1}, LAMBDA a, b : a < b)
  IN  [t EXCEPT !.core = [s \in TopoSockets |->
         [c \in DOMAIN t.core[s] |-> IF c < Len(kept(s)) THEN t.core[s][kept(s)[c + 1]] ELSE t.core[s][c]]]]

\* What was read once, be it in part, is not read again
read_cpu_topology(t) ==
  IF t.n # 0 THEN [ok |-> TRUE, topo |-> t]
  ELSE LET read == FoldLeft(LAMBDA r, c : AddCore(c, r), [ok |-> TRUE, topo |-> t], tt_machine)
       IN  IF read.ok THEN [ok |-> TRUE, topo |-> Compacted(read.topo)] ELSE read

get_lcore_id(t, socket, core, ht) ==
  IF socket >= TtMaxSockets \/ core >= TtMaxCores \/ socket >= t.n THEN -1
  ELSE IF core >= t.count[socket] THEN -1 ELSE t.core[socket][core][ht + 1]

\* The name shown for a core: the first place that has it
lcore_to_socket_core_ht(t, lcore) ==
  LET places == {p \in TopoSockets \X (0 .. TtMaxCores - 1) \X {0, 1} :
                   p[1] < t.n /\ p[2] < t.count[p[1]] /\ t.core[p[1]][p[2]][p[3] + 1] = lcore}
  IN  IF places = {} THEN <<>>
      ELSE CHOOSE p \in places : \A q \in places : p[1] * TtMaxCores + p[2] <= q[1] * TtMaxCores + q[2]

-----------------------------------------------------------------------------
(* Texts of several parts: what a part adds to what is stored.             *)

\* The topology after a name was read, and whether it could be
parse_core(t, name) ==
  IF name.socket = -1 THEN [ok |-> TRUE, topo |-> t]
  ELSE LET read == read_cpu_topology(t)
       IN  [read EXCEPT !.ok = @ /\ name.socket < TtMaxSockets]

Effective(t, name, core) == IF name.socket = -1 THEN core ELSE get_lcore_id(t, name.socket, core, name.ht)

Adds(acc, t, seq, max) ==
  IF Len(acc) + Len(seq) > max THEN [ok |-> FALSE, topo |-> t, out |-> acc \o SubSeq(seq, 1, max - Len(acc))]
  ELSE [ok |-> TRUE, topo |-> t, out |-> acc \o seq]

Refuse(acc, t) == [ok |-> FALSE, topo |-> t, out |-> acc]

\* A core of a socket that does not exist is stored as -1
parse_list_set(acc, t, part) ==
  LET from == part[1]
      to == part[Len(part)]
      first == parse_core(t, from)
      second == IF Len(part) = 1 THEN first ELSE parse_core(first.topo, to)
      seen == IF first.ok THEN second.topo ELSE first.topo
  IN  IF Len(part) > 2 THEN Refuse(acc, t)
      ELSE IF ~first.ok \/ ~second.ok \/ from.socket # to.socket \/ from.ht # to.ht THEN Refuse(acc, seen)
      ELSE Adds(acc, seen, [i \in 1 .. to.core - from.core + 1 |-> Effective(seen, from, from.core + i - 1)], TtMaxList)

\* The end of a range is left out; the last place of the list is never used by one number
parse_int_set(acc, t, part) ==
  LET n1 == part[1]
      n2 == part[Len(part)]
  IN  CASE Len(part) > 2 -> Refuse(acc, t)
        [] Len(part) = 1 -> IF Len(acc) >= TtMaxList - 1 THEN Refuse(acc, t)
                            ELSE [ok |-> TRUE, topo |-> t, out |-> Append(acc, n1)]
        [] OTHER -> IF (Len(acc) + n2 - n1) % Limit >= TtMaxList THEN Refuse(acc, t)
                    ELSE [ok |-> TRUE, topo |-> t, out |-> acc \o [i \in 1 .. n2 - n1 |-> n1 + i - 1]]

\* A core_task_set: [group, all]; a range, or the beginning or the end of a group.
\* The topology is read by get_lcore_id, and what the full set refuses is dropped.
TaskRange(acc, t, part) ==
  LET a == part.from
      b == part.to
      read == IF a.socket = -1 THEN [ok |-> TRUE, topo |-> t] ELSE read_cpu_topology(t)
      cores == [i \in 1 .. b.core - a.core + 1 |-> Effective(read.topo, a, a.core + i - 1)]
      tasks == [i \in 1 .. b.task - a.task + 1 |-> a.task + i - 1]
      all == FlattenSeq([i \in DOMAIN cores |-> [k \in DOMAIN tasks |-> [core |-> cores[i], task |-> tasks[k], type |-> a.type]]])
      room == Min({Len(all), TtMaxSet - Len(acc.all)})
  IN  IF \/ a.socket # b.socket \/ a.ht # b.ht \/ a.type # b.type
         \/ b.core < a.core \/ b.task < a.task \/ (a.task # b.task /\ a.core # b.core)
        THEN Refuse(acc, t)
      ELSE IF ~read.ok \/ -1 \in ToSet(cores) THEN Refuse(acc, read.topo)
      ELSE [ok |-> TRUE, topo |-> read.topo, out |-> [acc EXCEPT !.all = @ \o SubSeq(all, 1, room)]]

parse_task_set(acc, t, part) ==
  CASE part.kind = "open" -> [ok |-> TRUE, topo |-> t, out |-> [acc EXCEPT !.group = Len(acc.all) + 1]]
    [] part.kind = "close" ->
         [ok |-> TRUE, topo |-> t,
          out |-> [acc EXCEPT !.all = [i \in DOMAIN @ |-> IF acc.group # 0 /\ i >= acc.group
                                         THEN [@[i] EXCEPT !.task = part.task, !.type = part.type] ELSE @[i]]]]
    [] OTHER -> TaskRange(acc, t, part)

\* parse_vars, one character at a time: [state, name, result, first]
VarChar(acc, t, c, last, next) ==
  LET keep(r) == [ok |-> TRUE, topo |-> t, out |-> r]
  IN  CASE acc.state = "no" /\ c # "$" -> keep([acc EXCEPT !.result = Append(@, c)])
        [] acc.state = "no" /\ c = "$" /\ next = "{" -> keep([acc EXCEPT !.state = "open"])
        [] acc.state = "no" /\ c = "$" /\ next # "{" ->
             IF acc.first /\ ~last THEN keep([acc EXCEPT !.state = "whole"]) ELSE Refuse(acc, t)
        [] acc.state = "open" -> keep([acc EXCEPT !.state = "inline", !.name = <<>>])
        [] acc.state = "inline" /\ c # "}" ->
             IF last THEN Refuse(acc, t) ELSE keep([acc EXCEPT !.name = Append(@, c)])
        [] acc.state = "inline" /\ c = "}" ->
             IF acc.name \notin DOMAIN TtVars THEN Refuse(acc, t)
             ELSE keep([acc EXCEPT !.state = "no", !.result = @ \o TtVars[acc.name]])
        [] OTHER -> LET name == Append(acc.name, c)
                    IN  IF ~last THEN keep([acc EXCEPT !.name = name])
                        ELSE IF name \notin DOMAIN TtVars THEN Refuse(acc, t)
                        ELSE keep([acc EXCEPT !.result = TtVars[name]])

parse_vars(acc, t, parts, at) ==
  LET next == IF at < Len(parts) THEN parts[at + 1] ELSE ""
      read == VarChar(acc, t, parts[at], at = Len(parts), next)
  IN  [read EXCEPT !.out.first = FALSE]

-----------------------------------------------------------------------------
(* Texts that are one value.                                               *)

parse_int(v) == IF v \in 0 .. Limit - 1 THEN Yes(v) ELSE No

\* "lo-hi" is cut at its first dash.  One that stands before lo cuts off an empty text,
\* which is read as 0, and what follows is read up to the second dash
parse_range(v) ==
  LET lo == IF v.lo < 0 THEN 0 ELSE v.lo
      hi == IF v.lo < 0 THEN -v.lo ELSE v.hi
  IN  IF ~parse_int(lo).ok \/ ~parse_int(hi).ok \/ lo > hi THEN No ELSE Yes([lo |-> lo, hi |-> hi])

\* Every letter is one more step, and the bits that a step would lose are looked at
\* before it
parse_kmg(v) ==
  LET step(r) == IF ~r.ok \/ r.out >= 2 ^ (TtWidth - TtStep) THEN No ELSE Yes(r.out * 2 ^ TtStep)
  IN  CASE v.letter = "" -> Yes(v.number)
        [] v.letter = "K" -> step(Yes(v.number))
        [] v.letter = "M" -> step(step(Yes(v.number)))
        [] v.letter = "G" -> step(step(step(Yes(v.number))))

parse_flag(v) ==
  CASE v.text = "yes" -> Yes(v.flags \cup v.flag) [] v.text = "no" -> Yes(v.flags \ v.flag) [] OTHER -> No

\* The mask is the sign bit, shifted in; a shift by -1 is one by all places of the word
parse_ip4_cidr(v) ==
  IF v.prefix > TtWidth THEN No
  ELSE Yes([i \in DOMAIN v.ip |-> IF i <= v.prefix \/ v.prefix = 0 THEN v.ip[i] ELSE 0])

\* Whole bytes behind the prefix are cleared, and then part of one; the prefix is not
\* compared with the length of an address
parse_ip6_cidr(v) ==
  LET bytes == Len(v.ip) \div TtByte
      cleared == Cardinality({k \in 0 .. bytes - 1 : k * TtByte >= v.prefix})
      cut == bytes - cleared
      kept(i) == LET byte == ((i - 1) \div TtByte) + 1
                     bit == ((i - 1) % TtByte) + 1
                 IN  byte < cut \/ (byte = cut /\ (v.prefix % TtByte = 0 \/ bit <= v.prefix % TtByte))
  IN  Yes([i \in DOMAIN v.ip |-> IF kept(i) THEN v.ip[i] ELSE 0])

\* The groups between colons; "" is the place of the zeros, which are not stored
parse_ip6(groups) ==
  LET gap == {i \in DOMAIN groups : groups[i] = ""}
      place(i) == IF \E g \in gap : g < i THEN i + TtGroups - Len(groups) ELSE i
  IN  IF Len(groups) > TtGroups \/ Cardinality(gap) > 1 THEN No
      ELSE Yes([p \in 1 .. TtGroups |->
                  IF \E i \in DOMAIN groups \ gap : place(i) = p
                    THEN groups[CHOOSE i \in DOMAIN groups \ gap : place(i) = p] ELSE TtOld])

\* The places of the bits that are random, and of those that are one
parse_random_str(text) ==
  LET n == Len(text)
      places(c) == {n - j : j \in {k \in 1 .. n : text[k] = c}}
  IN  IF n > TtWidth \/ n % TtByte # 0 \/ n = 0 \/ ~ToSet(text) \subseteq {"X", "0", "1"} THEN No
      ELSE Yes([mask |-> places("X"), fixed |-> places("1"), len |-> n \div TtByte])

Value(job) ==
  CASE job.what = "int" -> parse_int(job.parts) [] job.what = "range" -> parse_range(job.parts)
    [] job.what = "kmg" -> parse_kmg(job.parts) [] job.what = "flag" -> parse_flag(job.parts)
    [] job.what = "ip4" -> parse_ip4_cidr(job.parts) [] job.what = "ip6 prefix" -> parse_ip6_cidr(job.parts)
    [] job.what = "ip6" -> parse_ip6(job.parts) [] job.what = "random" -> parse_random_str(job.parts)

-----------------------------------------------------------------------------
Lists == {"cores", "ints", "tasks", "vars"}
Begin(what) ==
  CASE what = "tasks" -> [group |-> 0, all |-> <<>>]
    [] what = "vars" -> [state |-> "no", name |-> <<>>, result |-> <<>>, first |-> TRUE]
    [] OTHER -> <<>>

TtInit(situations) ==
  /\ \E s \in situations : tt_machine = s.machine /\ tt_jobs = s.jobs
  /\ tt_topo = EmptyTopology /\ tt_at = 0 /\ tt_results = <<>>
  /\ tt_acc = Begin(tt_jobs[1].what)

Finish(ok, out) ==
  /\ tt_results' = Append(tt_results, [job |-> Head(tt_jobs), ok |-> ok, out |-> out])
  /\ tt_jobs' = Tail(tt_jobs) /\ tt_at' = 0
  /\ tt_acc' = IF Tail(tt_jobs) = <<>> THEN <<>> ELSE Begin(tt_jobs[2].what)

Read(job) ==
  LET part == job.parts[tt_at + 1]
  IN  CASE job.what = "cores" -> parse_list_set(tt_acc, tt_topo, part)
        [] job.what = "ints" -> parse_int_set(tt_acc, tt_topo, part)
        [] job.what = "tasks" -> parse_task_set(tt_acc, tt_topo, part)
        [] job.what = "vars" -> parse_vars(tt_acc, tt_topo, job.parts, tt_at + 1)

part_read ==
  /\ tt_jobs # <<>> /\ Head(tt_jobs).what \in Lists /\ tt_at < Len(Head(tt_jobs).parts)
  /\ LET read == Read(Head(tt_jobs))
     IN  /\ tt_topo' = read.topo
         /\ IF read.ok THEN tt_acc' = read.out /\ tt_at' = tt_at + 1 /\ UNCHANGED <<tt_jobs, tt_results>>
            ELSE Finish(FALSE, read.out)
  /\ UNCHANGED tt_machine

list_read ==
  /\ tt_jobs # <<>> /\ Head(tt_jobs).what \in Lists /\ tt_at = Len(Head(tt_jobs).parts)
  /\ Finish(TRUE, tt_acc) /\ UNCHANGED <<tt_machine, tt_topo>>

value_read ==
  /\ tt_jobs # <<>> /\ Head(tt_jobs).what \notin Lists
  /\ Finish(Value(Head(tt_jobs)).ok, Value(Head(tt_jobs)).out) /\ UNCHANGED <<tt_machine, tt_topo>>

TtNext == part_read \/ list_read \/ value_read

-----------------------------------------------------------------------------
(* Properties.                                                             *)

Results(what) == {r \in ToSet(tt_results) : r.job.what = what}

\* The topology was read to its end: no socket has three threads on one core, or a
\* number that is too high.
Readable ==
  /\ \A i \in DOMAIN tt_machine : tt_machine[i].socket < TtMaxSockets /\ tt_machine[i].phys < TtMaxCores
  /\ \A i \in DOMAIN tt_machine :
       Cardinality({k \in DOMAIN tt_machine : tt_machine[k].socket = tt_machine[i].socket /\ tt_machine[k].phys = tt_machine[i].phys}) <= 2

\* On a machine whose topology can be read every core present has a name, and the name
\* leads back to that core: what is shown of a core may be typed for it.
CoresHaveNames ==
  Readable /\ tt_topo.n # 0 =>
    \A i \in DOMAIN tt_machine :
      LET name == lcore_to_socket_core_ht(tt_topo, tt_machine[i].lcore)
      IN  name # <<>> /\ get_lcore_id(tt_topo, name[1], name[2], name[3]) = tt_machine[i].lcore

\* The same text is read the same way each time, unless its first reading was the one
\* at which the topology could not be read: what was read of it then stays, and the
\* second time the names of cores are looked up in it.
SameTwice ==
  \A i, j \in DOMAIN tt_results :
    tt_results[i].job = tt_results[j].job /\ tt_results[i] # tt_results[j] => ~Readable /\ ~tt_results[Min({i, j})].ok

\* A list of cores has, for every range, each core from its first to its last: the
\* core itself, or the thread of the socket, or -1 for one that does not exist.
CoresListed ==
  \A r \in Results("cores") :
    r.ok => /\ Len(r.out) = FoldLeft(LAMBDA n, part : n + Max({0, part[Len(part)].core - part[1].core + 1}), 0, r.job.parts)
            /\ \A i \in DOMAIN r.out : r.out[i] = -1 /\ Readable => \E k \in DOMAIN r.job.parts :
                   LET name == r.job.parts[k][1]
                       there == {m \in DOMAIN tt_machine : tt_machine[m].socket = name.socket}
                       others == {tt_machine[m].phys : m \in there}
                   IN  \/ r.job.parts[k][Len(r.job.parts[k])].core >= Cardinality(others)
                       \/ (name.ht = 1 /\ Cardinality(there) < 2 * Cardinality(others))

\* A list of numbers never has more than its places, and a range never brings its end
IntsWithin ==
  \A r \in Results("ints") :
    /\ Len(r.out) <= TtMaxList
    /\ r.ok => \A k \in DOMAIN r.job.parts :
         LET part == r.job.parts[k]
         IN  IF Len(part) = 1 THEN part[1] \in ToSet(r.out)
             ELSE \A n \in part[1] .. part[2] - 1 : n \in ToSet(r.out)

\* Groups are written "(1,2)t3", one behind the other
GroupOf(parts, i) ==
  LET opens == {k \in 1 .. i : parts[k].kind = "open"}
      closes(from) == {k \in from .. Len(parts) : parts[k].kind = "close"}
  IN  IF opens = {} \/ closes(Max(opens)) = {} \/ Min(closes(Max(opens))) < i THEN 0 ELSE Min(closes(Max(opens)))
WellFormed(parts) ==
  \A k \in DOMAIN parts :
    /\ parts[k].kind = "close" => \E o \in 1 .. k - 1 : /\ parts[o].kind = "open"
                                                        /\ \A m \in o + 1 .. k - 1 : parts[m].kind = "range"
    /\ parts[k].kind = "open" => \E c \in k + 1 .. Len(parts) : /\ parts[c].kind = "close"
                                                               /\ \A m \in k + 1 .. c - 1 : parts[m].kind = "range"

\* A set of tasks has what its ranges name, in their order, with the task of the group
\* a range stands in, cut behind the last place of the set.
TasksAsWritten ==
  \A r \in Results("tasks") :
    LET parts == r.job.parts
        named(i) == LET p == parts[i]
                        g == GroupOf(parts, i)
                        task(k) == IF g = 0 THEN p.from.task + k ELSE parts[g].task
                    IN  IF p.kind # "range" THEN <<>>
                        ELSE [n \in 1 .. (p.to.core - p.from.core + 1) * (p.to.task - p.from.task + 1) |->
                                [core |-> Effective(tt_topo, p.from, p.from.core + (n - 1) \div (p.to.task - p.from.task + 1)),
                                 task |-> task((n - 1) % (p.to.task - p.from.task + 1)),
                                 type |-> IF g = 0 THEN p.from.type ELSE parts[g].type]]
        all == FlattenSeq([i \in DOMAIN parts |-> named(i)])
    IN  r.ok /\ WellFormed(parts) => r.out.all = SubSeq(all, 1, Min({Len(all), TtMaxSet}))

\* Every "$" of a text that is accepted stands before a variable that is defined and
\* that ends, except behind a text that ends with "${"; the characters that belong to
\* no variable are kept.
VarsReplaced ==
  \A r \in Results("vars") :
    LET text == r.job.parts
        endOf(i) == LET ends == {k \in i .. Len(text) : text[k] = "}"} IN IF ends = {} THEN 0 ELSE Min(ends)
        opens == {i \in DOMAIN text : text[i] = "$" /\ \A k \in 1 .. i - 1 : text[k] = "$" => endOf(k) \in 1 .. i - 1}
        inside == UNION {i .. endOf(i) : i \in opens}
        cut == Len(text) >= 2 /\ SubSeq(text, Len(text) - 1, Len(text)) = <<"$", "{">>
    IN  r.ok /\ ~cut /\ text # <<>> =>
          IF text[1] = "$" /\ text[2] # "{" THEN Tail(text) \in DOMAIN TtVars /\ r.out.result = TtVars[Tail(text)]
          ELSE /\ \A i \in opens : endOf(i) # 0 /\ SubSeq(text, i + 2, endOf(i) - 1) \in DOMAIN TtVars
               /\ Len(r.out.result) = Cardinality(DOMAIN text \ inside) +
                    MapThenSumSet(LAMBDA i : Len(TtVars[SubSeq(text, i + 2, endOf(i) - 1)]), opens)

\* A number with a letter is accepted exactly if the value it stands for fits, and is
\* that value.
KmgExact ==
  \A r \in Results("kmg") :
    LET v == r.job.parts
        value == v.number * 2 ^ (TtStep * (CASE v.letter = "" -> 0 [] v.letter = "K" -> 1 [] v.letter = "M" -> 2 [] OTHER -> 3))
    IN  r.ok = (value < Limit) /\ (r.ok => r.out = value)

\* A range that is accepted has its low end first and is the range that is written,
\* unless its low end has a sign: it then runs from 0 to that end, and what is written
\* behind it is not looked at.
RangesAsWritten ==
  \A r \in Results("range") :
    LET v == r.job.parts
    IN  IF v.lo < 0 THEN r.ok = (-v.lo < Limit) /\ (r.ok => r.out = [lo |-> 0, hi |-> -v.lo])
        ELSE r.ok = (v.lo <= v.hi /\ v.hi < Limit) /\ (r.ok => r.out = v)

\* Behind the prefix an address has zeros and before it what was written, but for a
\* prefix of 0 (IPv4) or one longer than an address (IPv6).
PrefixesCut ==
  \A r \in Results("ip4") \cup Results("ip6 prefix") :
    r.ok /\ (r.job.what = "ip4" => r.job.parts.prefix > 0) /\ r.job.parts.prefix <= Len(r.job.parts.ip) =>
      \A i \in DOMAIN r.out : r.out[i] = IF i <= r.job.parts.prefix THEN r.job.parts.ip[i] ELSE 0

\* An IPv6 address that is accepted is what is written, with the zeros left out where
\* the gap is or, without a gap, at its end.
Ip6AsWritten ==
  \A r \in Results("ip6") :
    LET g == r.job.parts
        gap(n) == [i \in 1 .. n |-> TtOld]
        withGap == FlattenSeq([i \in DOMAIN g |-> IF g[i] = "" THEN gap(TtGroups + 1 - Len(g)) ELSE <<g[i]>>])
    IN  r.ok => r.out = withGap \o gap(TtGroups - Len(withGap))

\* From the bits that are random and those that are one the text can be written again
RandomReadBack ==
  \A r \in Results("random") :
    r.ok => r.job.parts = [j \in 1 .. r.out.len * TtByte |->
      LET bit == r.out.len * TtByte - j IN IF bit \in r.out.mask THEN "X" ELSE IF bit \in r.out.fixed THEN "1" ELSE "0"]

\* What the parsers of single values return: the value the text denotes, or an
\* error, and the same each time, whatever was parsed before.
TextsSound ==
  /\ CoresHaveNames /\ SameTwice /\ CoresListed /\ IntsWithin /\ TasksAsWritten /\ VarsReplaced
  /\ KmgExact /\ RangesAsWritten /\ PrefixesCut /\ Ip6AsWritten /\ RandomReadBack
=============================================================================
