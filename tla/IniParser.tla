----------------------------- MODULE IniParser ------------------------------
(***************************************************************************)
(* The ini file as galotfa::ini_parser reads it (src/src/parameter/        *)
(* ini_parser.cpp): line after line into one flat table, whose keys are    *)
(* the name of the section and that of the key with an underscore between. *)
(*                                                                         *)
(* A line is what it stands for: a header of a section, an entry, a blank  *)
(* or commented line, or none of these.  Keys are in lower case, a value   *)
(* is what the getter of its key makes of it, and the wordings of a        *)
(* boolean are TRUE and FALSE.                                             *)
(***************************************************************************)
EXTENDS Naturals, Sequences, SequencesExt

Header(name, commented) == [kind |-> "section", name |-> name, commented |-> commented]
Entry(key, value) == [kind |-> "entry", key |-> key, value |-> value]
Blank == [kind |-> "blank"]
Other == [kind |-> "other"]

\* line_parser() throws.  A comment is cut off after the blanks are, so the
\* blank before it stays and "]" is not the last character of the header.
Rejected(line) ==
  \/ line.kind = "other"
  \/ line.kind = "section" /\ line.commented

\* The key of the table: the two names pasted together.
Hash(section, key) == section \o "_" \o key

\* The table with an entry stored under h, new or in place of an earlier one.
With(table, h, value) ==
  [g \in DOMAIN table \cup {h} |-> IF g = h THEN value ELSE table[g]]

\* Mutated form of Inserted: the name of the section is lost behind the line.
InsertedUnnamed(state, line) ==
  IF line.kind = "entry"
    THEN [state EXCEPT !.table = With(@, Hash(state.section, line.key), line.value)]
    ELSE state

\* insert_to_table(): the name of the section is kept for the lines below it,
\* an entry overwrites an earlier one.
Inserted(state, line) ==
  CASE line.kind = "section" -> [state EXCEPT !.section = line.name]
    [] line.kind = "entry" ->
         [state EXCEPT !.table = With(@, Hash(state.section, line.key), line.value)]
    [] OTHER -> state

\* read(): the table a file gives.
Table(file) == FoldLeft(Inserted, [section |-> "", table |-> <<>>], file).table

Has(table, section, key) == Hash(section, key) \in DOMAIN table
=============================================================================
