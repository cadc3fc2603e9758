----------------------------- MODULE ConfigFile -----------------------------
(***************************************************************************)
(* How the configuration file is read (cfgfile.c and prox_read_config_file *)
(* of prox_args.c) and how its variables are kept (parse_utils.c).  The    *)
(* file is read from its start once for every kind of section, in a fixed  *)
(* order, so that what one section defines is known in all others.  A      *)
(* section may have several numbers ("core 1,2"): its lines are read again *)
(* for each, by going back to a position that was saved.  A file is a      *)
(* sequence of items: a header [head, kind, list], where list is a list of *)
(* numbers, a variable, or wrong, or a line [head |-> FALSE, text].        *)
(***************************************************************************)
EXTENDS Integers, Sequences, FiniteSets, SequencesExt, FiniteSetsExt

CONSTANTS CfItems,     \* alphabet -> the set of items a file may consist of
          CfMaxItems,  \* bound on the length of a file
          CfKinds,     \* the kinds of sections, in the order of config_sections
          CfMaxVars,   \* MAX_NB_VARS
          CfVar,       \* a list of numbers that is the name of the variable
          CfWrong,     \* a list with characters that no list has
          CfBroken,    \* a list of such characters that is not a list
          CfBackwards  \* a range whose end lies before its start

ASSUME CfAssumption == CfMaxItems \in Nat /\ CfMaxVars \in Nat \ {0} /\ CfKinds # <<>>

VARIABLES cf_file,
          cf_phase,    \* "reading", "done", "refused", "panic", "crashed", "overrun"
          cf_kind,     \* place in CfKinds of the kind being read
          cf_at,       \* lines read so far: pcfg->line
          cf_pos,      \* position to go back to: pos and index_line
          cf_section,  \* the section that matched: its numbers; <<>> is NULL
          cf_first,    \* indexp[0]: the first number stored for the kind
          cf_nbindex,  \* nbindex of the kind
          cf_index,    \* index_count
          cf_entry,
          cf_vars,     \* vars
          cf_calls,    \* the calls of the parsers so far
          cf_err       \* err_line, err_entry and the number in err_section

cfvars == <<cf_file, cf_phase, cf_kind, cf_at, cf_pos, cf_section, cf_first, cf_nbindex, cf_index, cf_entry,
            cf_vars, cf_calls, cf_err>>

Unnumbered == -1  \* no number has been stored: CFG_INDEXED is not set
Kind == CfKinds[cf_kind]
Names(vars) == {vars[i].name : i \in DOMAIN vars}

\* -w on the command line may have defined the variable
Files == UNION {BoundedSeq(CfItems[a], CfMaxItems) : a \in DOMAIN CfItems}

CfInit(files) ==
  /\ cf_file \in files
  /\ cf_phase = "reading" /\ cf_kind = 1 /\ cf_at = 0 /\ cf_pos = 0
  /\ cf_section = <<>> /\ cf_first = Unnumbered /\ cf_nbindex = 1 /\ cf_index = 0 /\ cf_entry = 0
  /\ cf_vars \in {<<>>, <<[name |-> "v", cli |-> TRUE]>>}
  /\ cf_calls = <<>> /\ cf_err = <<>>

-----------------------------------------------------------------------------
\* cfg_check_section: the numbers of the section, or none if the header is not one of
\* this kind, its numbers are wrong or its variable is not defined.  A range that runs
\* backwards stores nothing, and the section keeps the number stored before.
cfg_check_section(h, kind, vars, stored) ==
  CASE h.kind # kind \/ h.list = CfWrong -> <<>>
    [] h.kind = kind /\ h.list = CfVar -> IF "v" \in Names(vars) THEN <<1>> ELSE <<>>
    [] h.kind = kind /\ h.list = CfBackwards -> <<stored>>
    [] OTHER -> h.list

\* What has the characters of a list and is none ends the program
NoList(h) == h.kind = Kind /\ h.list = CfBroken

\* The number of numbers is that of the last section that matched, also behind one
\* that does not
NewSection(found) ==
  /\ cf_section' = found /\ cf_first' = IF found = <<>> THEN cf_first ELSE found[1]
  /\ cf_nbindex' = IF found = <<>> THEN cf_nbindex ELSE Len(found)
  /\ cf_entry' = 0 /\ cf_index' = 0 /\ cf_pos' = cf_at + 1 /\ cf_at' = cf_at + 1

GoBack ==
  /\ cf_at' = cf_pos /\ cf_index' = cf_index + 1
  /\ UNCHANGED <<cf_section, cf_first, cf_nbindex, cf_entry, cf_pos>>

header ==
  /\ cf_phase = "reading" /\ Kind # "lua" /\ cf_at < Len(cf_file) /\ cf_file[cf_at + 1].head
  /\ IF cf_index + 1 < cf_nbindex THEN GoBack /\ UNCHANGED cf_phase
     ELSE IF NoList(cf_file[cf_at + 1])
     THEN /\ cf_phase' = "panic"
          /\ UNCHANGED <<cf_at, cf_pos, cf_section, cf_first, cf_nbindex, cf_index, cf_entry>>
     ELSE NewSection(cfg_check_section(cf_file[cf_at + 1], Kind, cf_vars, cf_first)) /\ UNCHANGED cf_phase
  /\ UNCHANGED <<cf_file, cf_kind, cf_vars, cf_calls, cf_err>>

\* get_core_cfg makes $self a variable of every line that has a key, and set_self_var
\* does not ask whether there is room
SelfKnown == "self" \in Names(cf_vars)
SetsSelf(text, number) == Kind = "core" /\ number # Unnumbered /\ text # "no key" /\ ~SelfKnown

\* add_var: what the command line defined stays, without an error
add_var ==
  CASE Len(cf_vars) = CfMaxVars -> "error"
    [] Len(cf_vars) < CfMaxVars /\ "v" \notin Names(cf_vars) -> "new"
    [] OTHER -> IF \E i \in DOMAIN cf_vars : cf_vars[i].name = "v" /\ cf_vars[i].cli THEN "kept" ELSE "error"

\* What the parser of the section makes of a line: an option, one whose value has a
\* variable in it, the definition of the variable, or a line without "="
Parsed(text, number) ==
  CASE Kind = "variables" -> IF text = "no key" THEN "crash" ELSE IF text = "def" THEN add_var ELSE "error"
    [] SetsSelf(text, number) /\ Len(cf_vars) = CfMaxVars -> "overrun"
    [] OTHER -> IF number # Unnumbered /\ (text = "option" \/ (text = "use" /\ "v" \in Names(cf_vars)))
                THEN "ok" ELSE "error"

Failed == cf_err' = [line |-> cf_at + 1, entry |-> cf_entry, number |-> cf_section[1]]

line ==
  /\ cf_phase = "reading" /\ Kind # "lua" /\ cf_at < Len(cf_file) /\ ~cf_file[cf_at + 1].head
  /\ cf_at' = cf_at + 1
  /\ IF cf_section = <<>> THEN UNCHANGED <<cf_phase, cf_entry, cf_vars, cf_calls, cf_err>>
     ELSE LET text == cf_file[cf_at + 1].text
              number == cf_section[cf_index + 1]
              how == Parsed(text, number)
          IN  /\ cf_calls' = Append(cf_calls, <<Kind, number, cf_at + 1>>)
              /\ cf_vars' = CASE how = "new" -> Append(cf_vars, [name |-> "v", cli |-> FALSE])
                              [] SetsSelf(text, number) /\ how # "overrun" ->
                                   Append(cf_vars, [name |-> "self", cli |-> FALSE])
                              [] OTHER -> cf_vars
              /\ cf_phase' = CASE how = "error" -> "refused" [] how = "crash" -> "crashed"
                               [] how = "overrun" -> "overrun" [] OTHER -> "reading"
              /\ cf_entry' = IF how \in {"ok", "new", "kept"} THEN cf_entry + 1 ELSE cf_entry
              /\ IF how = "error" THEN Failed ELSE UNCHANGED cf_err
  /\ UNCHANGED <<cf_file, cf_kind, cf_pos, cf_section, cf_first, cf_nbindex, cf_index>>

\* Every kind begins at the start of the file, with the values of its own structure
NextKind ==
  /\ IF cf_kind = Len(CfKinds) THEN cf_phase' = "done" /\ UNCHANGED cf_kind
     ELSE cf_kind' = cf_kind + 1 /\ UNCHANGED cf_phase
  /\ cf_at' = 0 /\ cf_pos' = 0 /\ cf_section' = <<>> /\ cf_first' = Unnumbered
  /\ cf_nbindex' = 1 /\ cf_index' = 0 /\ cf_entry' = 0

end_of_file ==
  /\ cf_phase = "reading" /\ Kind # "lua" /\ cf_at = Len(cf_file)
  /\ IF cf_index + 1 < cf_nbindex THEN GoBack /\ UNCHANGED <<cf_phase, cf_kind>> ELSE NextKind
  /\ UNCHANGED <<cf_file, cf_vars, cf_calls, cf_err>>

\* raw_lines: the lines of the first [lua] section are handed over as one text; its end
\* is found at the next header, and the end of the file is not expected
LuaHeads == {i \in DOMAIN cf_file : cf_file[i].head /\ cf_file[i].kind = "lua"}
HeadsAfter(i) == {j \in i + 1 .. Len(cf_file) : cf_file[j].head}

lua_section ==
  /\ cf_phase = "reading" /\ Kind = "lua"
  /\ CASE LuaHeads = {} -> NextKind /\ UNCHANGED cf_calls
       [] LuaHeads # {} /\ HeadsAfter(Min(LuaHeads)) = {} ->
            /\ cf_phase' = "crashed"
            /\ UNCHANGED <<cf_kind, cf_at, cf_pos, cf_section, cf_first, cf_nbindex, cf_index, cf_entry, cf_calls>>
       [] OTHER -> NextKind /\ cf_calls' = Append(cf_calls, <<"lua", 0, Min(LuaHeads)>>)
  /\ UNCHANGED <<cf_file, cf_vars, cf_err>>

CfNext == header \/ line \/ end_of_file \/ lua_section

-----------------------------------------------------------------------------
(* Properties.                                                             *)

\* The variables every section may count on
Defined ==
  \/ cf_vars # <<>> /\ cf_vars[1].cli
  \/ \E i, j \in DOMAIN cf_file :
      /\ i < j /\ cf_file[i].head /\ cf_file[i].kind = "variables" /\ HeadsAfter(i) \cap 1 .. j = {}
      /\ ~cf_file[j].head /\ cf_file[j].text = "def"

Body(i) == LET after == HeadsAfter(i)
               last == IF after = {} THEN Len(cf_file) ELSE Min(after) - 1
           IN  [k \in 1 .. last - i |-> i + k]

Listed(i, kind) ==
  LET h == cf_file[i]
  IN  IF ~h.head \/ h.kind # kind \/ h.list \in {CfWrong, CfBroken, CfBackwards} THEN <<>>
      ELSE IF h.list = CfVar THEN IF Defined THEN <<1>> ELSE <<>>
      ELSE h.list

\* The first number of the section of that kind read before
NumberBefore(i, kind) ==
  LET before == {j \in 1 .. i - 1 : Listed(j, kind) # <<>>}
  IN  IF before = {} THEN Unnumbered ELSE Listed(Max(before), kind)[1]

NumbersOf(i, kind) ==
  LET h == cf_file[i]
  IN  IF h.head /\ h.kind = kind /\ h.list = CfBackwards THEN <<NumberBefore(i, kind)>> ELSE Listed(i, kind)

ReadAsWritten(i, kind) ==
  LET numbers == NumbersOf(i, kind)
  IN  FlattenSeq([n \in DOMAIN numbers |-> [k \in DOMAIN Body(i) |-> <<kind, numbers[n], Body(i)[k]>>]])

OfKind(kind) ==
  IF kind = "lua" THEN IF LuaHeads = {} THEN <<>> ELSE <<<<"lua", 0, Min(LuaHeads)>>>>
  ELSE FlattenSeq([i \in DOMAIN cf_file |-> ReadAsWritten(i, kind)])

Written == FlattenSeq([k \in DOMAIN CfKinds |-> OfKind(CfKinds[k])])

\* The parsers are called for every line of every section that can be read, in the
\* order of the file, once for each number of the section and kind after kind: going
\* back and the number of numbers of an earlier section never repeat or lose a line.
\* The lines of a section whose range runs backwards go to the first number of the
\* section before, and one that has a list that is none is never passed over.
LinesReadOnce ==
  /\ cf_phase = "done" => cf_calls = Written /\ \A i \in DOMAIN cf_file : cf_file[i].head => cf_file[i].list # CfBroken
  /\ cf_phase # "done" => IsPrefix(cf_calls, Written)

\* An error is reported at the line that has it; the entry counted in the section and
\* the number of the section are right unless the line was read before for another
\* number of that section.
ErrorInPlace ==
  cf_phase = "refused" =>
    LET bad == Last(cf_calls)
        first == Max({i \in 1 .. bad[3] : cf_file[i].head})
    IN  /\ cf_err.line = bad[3]
        /\ cf_index = 0 => cf_err.entry = bad[3] - first - 1 /\ cf_err.number = bad[2]

\* A line with a variable is refused only if no [variables] section and no option of
\* the command line defines it, wherever that section stands, or the line is for no core.
VariablesEverywhere ==
  cf_phase = "refused" /\ Last(cf_calls)[1] # "variables" /\ Last(cf_calls)[2] # Unnumbered /\ cf_file[Last(cf_calls)[3]].text = "use" => ~Defined

\* The program ends without an answer only at a definition without "=", at a [lua]
\* section that ends the file, or when $self finds every variable's place taken; it
\* panics at a list that is none before it reads a line of that section.
EndsKnown ==
  /\ cf_phase = "panic" => NoList(cf_file[cf_at + 1]) /\ \A i \in DOMAIN cf_calls :
                             cf_calls[i][1] = Kind => cf_calls[i][3] <= cf_at
  /\ cf_phase = "crashed" =>
       \/ Kind = "lua" /\ LuaHeads # {} /\ HeadsAfter(Min(LuaHeads)) = {}
       \/ Kind = "variables" /\ cf_file[Last(cf_calls)[3]].text = "no key"
  /\ cf_phase = "overrun" => Len(cf_vars) = CfMaxVars /\ ~SelfKnown

\* What reading the file does: every line counts once, an error names its place,
\* variables are replaced everywhere, and only the three known texts end the program.
ConfigFileSound == LinesReadOnce /\ ErrorInPlace /\ VariablesEverywhere /\ EndsKnown
=============================================================================
