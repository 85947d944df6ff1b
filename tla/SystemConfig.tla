---------------------------- MODULE SystemConfig ----------------------------
(***************************************************************************)
(* foundation/config: parseSimpleYaml turns a file into flat keys, line by *)
(* line, and ConfigManager::loadAll reads the five files of a directory    *)
(* into the one configuration of the program.                              *)
(*                                                                         *)
(* A line is its indentation and its kind; the key on line i is i itself.  *)
(* A directory is told apart by the file it lacks, the section whose       *)
(* values are not valid, and the serial commands and modes it names.       *)
(***************************************************************************)
EXTENDS Naturals, Sequences, SequencesExt, FiniteSets

CONSTANTS Indents,     \* indentations of a line
          MaxLines,    \* bound: lines of a file
          Names,       \* commands and modes a directory may name
          MaxLoads     \* bound: loadAll() calls

ASSUME ConfigAssumption == Indents \subseteq Nat /\ MaxLines \in Nat /\ MaxLoads \in Nat

VARIABLES
    lines,       (* the lines read                                         *)
    stack,       (* stack: the sections that are open                      *)
    listIndex,   (* listIndex                                              *)
    flat,        (* out: the flat key of each line that has one            *)
    settings,    (* config_: the load and the validity of each section     *)
    named,       (* the load that has set each command or mode last        *)
    loads,       (* loadAll() calls                                        *)
    acceptedDir  (* the directory loadAll() has just accepted, if it did *)

yamlVars == <<lines, stack, listIndex, flat>>
settingsVars == <<settings, named, loads, acceptedDir>>

ConfigInit ==
    /\ lines = <<>> /\ stack = <<>> /\ listIndex = 0 /\ flat = <<>>
    /\ settings = <<>> /\ named = [n \in Names |-> 0]
    /\ loads = 0 /\ acceptedDir = {}

----------------------------------------------------------------------------
(* parseSimpleYaml *)
LineKinds == {"section", "value", "item", "text", "blank"}
Line == [indent : Indents, kind : LineKinds]

IsOpenMutant(section, indent) == section.indent <= indent
IsOpen(section, indent) == section.indent < indent

(* The sections at the end of the stack that are not further out close.    *)
StillOpen(indent) ==
    LET open == {n \in 0 .. Len(stack) : n = 0 \/ IsOpen(stack[n], indent)}
    IN  SubSeq(stack, 1, CHOOSE n \in open : \A m \in open : m <= n)

Keys(sections) == [i \in 1 .. Len(sections) |-> sections[i].key]
FlatKey(sections, last) == [line |-> Len(lines) + 1, path |-> Keys(sections), last |-> last]

ReadLine(line) ==
    /\ Len(lines) < MaxLines
    /\ lines' = Append(lines, line)
    /\ IF line.kind = "blank" THEN UNCHANGED <<stack, listIndex, flat>>
       ELSE LET sections == StillOpen(line.indent) IN
            /\ listIndex' = IF line.kind = "item" THEN listIndex + 1 ELSE 0
            /\ stack' = IF line.kind = "section"
                          THEN Append(sections, [indent |-> line.indent, key |-> Len(lines) + 1])
                          ELSE sections
            /\ flat' = CASE line.kind = "item"  -> Append(flat, FlatKey(sections, listIndex))
                         [] line.kind = "value" -> Append(flat, FlatKey(sections, Len(lines) + 1))
                         [] OTHER               -> flat

----------------------------------------------------------------------------
(* ConfigManager *)
Sections == <<"camera", "serial", "mode", "media", "protocol">>
SectionNames == Range(Sections)
NoSection == "none"
Directories ==
    [missing : SectionNames \cup {NoSection}, invalid : SectionNames \cup {NoSection},
     names : SUBSET Names]

(* A section whose file is missing ends the load; those before it are      *)
(* already taken over.  A directory's names are added to the old ones.     *)
TakenOver(dir) ==
    IF dir.missing = NoSection THEN 1 .. Len(Sections)
    ELSE {i \in 1 .. Len(Sections) : \A j \in 1 .. i : Sections[j] # dir.missing}
AfterLoad(dir) ==
    [i \in 1 .. Len(Sections) |->
        IF i \in TakenOver(dir) THEN [load |-> loads + 1, valid |-> Sections[i] # dir.invalid]
        ELSE IF settings = <<>> THEN [load |-> 0, valid |-> FALSE] ELSE settings[i]]

(* ConfigValidator looks at every section but the mode's. *)
ChecksMutant == SectionNames \ {"mode", "protocol"}
Checks == SectionNames \ {"mode"}
LoadAll(dir) ==
    /\ loads < MaxLoads
    /\ loads' = loads + 1
    /\ settings' = AfterLoad(dir)
    /\ named' = [n \in Names |-> IF n \in dir.names /\ 2 \in TakenOver(dir) THEN loads + 1
                                ELSE named[n]]
    /\ acceptedDir' = IF TakenOver(dir) = 1 .. Len(Sections) /\ dir.invalid \notin Checks
                     THEN {dir} ELSE {}

----------------------------------------------------------------------------
YamlNext == \E line \in Line : ReadLine(line)
SettingsNext == \E dir \in Directories : LoadAll(dir)

ConfigTypeOK ==
    /\ lines \in Seq(Line) /\ Len(lines) <= MaxLines
    /\ listIndex \in 0 .. MaxLines
    /\ named \in [Names -> 0 .. MaxLoads] /\ loads \in 0 .. MaxLoads
    /\ Len(settings) \in {0, Len(Sections)}

(* Line j is the header of a section that line i lies in: it is further    *)
(* out than i, and every line between them is further in.                  *)
Encloses(j, i) ==
    /\ lines[j].kind = "section" /\ lines[j].indent < lines[i].indent
    /\ \A k \in j + 1 .. i - 1 : lines[k].kind = "blank" \/ lines[k].indent > lines[j].indent
Enclosing(i) == {j \in 1 .. i - 1 : Encloses(j, i)}
Children(S) == {i \in 1 .. Len(lines) : lines[i].kind # "blank" /\ Enclosing(i) = S}
ItemsBefore(i) == {k \in 1 .. i - 1 : k \in Children(Enclosing(i))}

(* Every value is found under the path of the sections it lies in, and the *)
(* elements of a list, if nothing else stands beside them, under their     *)
(* numbers, whatever blank lines and other sections there are.             *)
KeysArePaths ==
    \A k \in 1 .. Len(flat) :
        LET i == flat[k].line IN
        /\ Range(flat[k].path) = Enclosing(i)
        /\ \A m, n \in 1 .. Len(flat[k].path) : m < n => flat[k].path[m] < flat[k].path[n]
        /\ flat[k].last =
             IF lines[i].kind = "value" THEN i
             ELSE IF \A j \in Children(Enclosing(i)) : lines[j].kind = "item"
                    THEN Cardinality(ItemsBefore(i))
                    ELSE flat[k].last

(* A configuration that loadAll() accepts is of one directory, though an   *)
(* earlier load may have stopped half-way through another, and valid; a    *)
(* command or mode it does not name can be left from an earlier load.      *)
AcceptedIsWhole ==
    \A dir \in acceptedDir :
        /\ \A i \in 1 .. Len(Sections) :
             settings[i].load = loads /\ (settings[i].valid \/ Sections[i] = "mode")
        /\ \A n \in Names : (named[n] = loads) <=> (n \in dir.names)

(* Together, for the settings in memory.                                   *)
SettingsSafe == ConfigTypeOK /\ AcceptedIsWhole
=============================================================================
