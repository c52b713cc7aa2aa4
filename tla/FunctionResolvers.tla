-------------------------- MODULE FunctionResolvers --------------------------
(***************************************************************************)
(* What gives an address of a mapping its function: the symbols of the     *)
(* kernel, the perf map of a process with compiled code, and the debug     *)
(* information and symbol table of an object file, whose answers are       *)
(* cached by Range. An entry of AddressMap serves for each of the          *)
(* std::map<Range, ...>, with the answer in the place of the file.         *)
(***************************************************************************)
EXTENDS AddressMap, Sequences, SequencesExt, TLC

CONSTANTS
    KernelSymbols,  \* /proc/kallsyms: the lines of functions [address, name]
    PerfMapFile,    \* PerfMapFile[p]: lines [start, size, name, dso] of p's perf map
    DebugInfo,      \* DebugInfo[f]: units of file f, each a sequence of functions [start, end, name]
    SymbolTable,    \* SymbolTable[f]: symbols [start, end, name] of file f
    DwarfUsage,     \* dwarf.usage != NONE
    Unreadable      \* files that libdwfl cannot open

\* LineInfo: file and line follow from the function and are left out
for_function(name, dso) == <<name, dso>>
for_binary(dso) == <<dso, dso>>
for_unknown_function == <<"<unknown function>", "<unknown binary>">>

\* std::map::emplace() by Range: an entry that overlaps is taken for the same
\* key; it stays, and it is what the caller gets.
Equivalent(e, r) == ~Before(e, r) /\ ~Before(r, e)
Insert(table, new) == IF \E e \in table : Equivalent(e, new) THEN table ELSE table \cup {new}
Inserted(table, new) == (CHOOSE e \in Insert(table, new) : Equivalent(e, new)).file

Answer(table, a, otherwise) == IF find(table, a) = {} THEN otherwise ELSE (CHOOSE e \in find(table, a) : TRUE).file

\* Kallsyms(): of several symbols at an address the first is kept, and each
\* reaches to the next address. To those who may not see them, the kernel
\* shows all addresses as 0.
Kallsyms ==
    LET at == {KernelSymbols[i].address : i \in DOMAIN KernelSymbols}
        name(a) == KernelSymbols[SelectInSeq(KernelSymbols, LAMBDA l : l.address = a)].name
        next(a) == {b \in at \cup {MaxAddress} : b > a}
    IN  IF 0 \in at THEN {}
        ELSE {Entry(a, CHOOSE b \in next(a) : \A c \in next(a) : b <= c,
                    0, for_function(name(a), "[kernel]")) : a \in at}

KallsymsStart ==
    IF Kallsyms = {} THEN MaxAddress
    ELSE CHOOSE a \in {e.start : e \in Kallsyms} : \A e \in Kallsyms : a <= e.start

\* PerfMap(): lines in the order of the file; what overlaps an earlier one
\* (code that was compiled anew) is not taken
PerfMap(p) ==
    FoldLeft(LAMBDA table, l : Insert(table, Entry(l.start, l.start + l.size, 0, for_function(l.name, l.dso))),
             {}, PerfMapFile[p])

has_perf_map(p) == PerfMap(p) # {}
PerfMapStart(p) == PerfMapFile[p][1].start
JitName(p) == "JIT functions for " \o ToString(p)

\* PerfMap::mapping(): from the first line to the end of the highest entry
PerfMapMapping(p) ==
    Entry(PerfMapStart(p), (CHOOSE e \in PerfMap(p) : \A d \in PerfMap(p) : Before(d, e) \/ d = e).end,
          0, JitName(p))

\* find_containing_func_for_addr() in each unit; a function without a name is
\* passed over
Covers(e, a) == e.start <= a /\ a < e.end
FirstIn(s, a) == SelectInSeq(s, LAMBDA e : Covers(e, a))
DwarfNames(f, a) ==
    SelectSeq([u \in DOMAIN DebugInfo[f] |-> LET i == FirstIn(DebugInfo[f][u], a)
                                             IN  IF i = 0 THEN "" ELSE DebugInfo[f][u][i].name],
              LAMBDA name : name # "")

\* A symbol is taken to hold the address behind it
LookedUpTooFar(f, a) ==
    IF DwarfUsage /\ DwarfNames(f, a) # <<>>
    THEN [Point(a) EXCEPT !.file = for_function(DwarfNames(f, a)[1], f)]
    ELSE LET i == FirstIn(SymbolTable[f], a)
         IN  IF i = 0 THEN [Point(a) EXCEPT !.file = for_binary(f)]
             ELSE Entry(SymbolTable[f][i].start, SymbolTable[f][i].end + 1, 0, for_function(SymbolTable[f][i].name, f))

\* DwarfFunctionResolver::lookup_line_info(), up to the entry for cache_: the
\* debug information is asked for the address, the symbol table for a range
LookedUp(f, a) ==
    IF DwarfUsage /\ DwarfNames(f, a) # <<>>
    THEN [Point(a) EXCEPT !.file = for_function(DwarfNames(f, a)[1], f)]
    ELSE LET i == FirstIn(SymbolTable[f], a)
         IN  IF i = 0 THEN [Point(a) EXCEPT !.file = for_binary(f)]
             ELSE Entry(SymbolTable[f][i].start, SymbolTable[f][i].end, 0, for_function(SymbolTable[f][i].name, f))

\* DwarfFunctionResolver::lookup_line_info(): what it emplaces into cache_, or
\* the entry that it finds there
Sought(cache, f, a) == IF find(cache, a) # {} THEN Point(a) ELSE LookedUp(f, a)

\* The constructor of DwarfFunctionResolver throws for a file that libdwfl can
\* not report
Opens(name) == name \notin Unreadable

\* function_resolver_for() has only the name of a file that does not open
Kind(name) ==
    CASE name = "[kernel]" -> "kernel"
      [] name \in {JitName(p) : p \in DOMAIN PerfMapFile} -> "jit"
      [] ~Opens(name) -> "name"
      [] OTHER -> "dwarf"

\* lookup_line_info() of the resolver of that name, and what it leaves in cache_
lookup_line_info(cache, name, a) ==
    CASE Kind(name) = "kernel" -> Answer(Kallsyms, a + KallsymsStart, for_binary("[kernel]"))
      [] Kind(name) = "jit" -> LET p == CHOOSE q \in DOMAIN PerfMapFile : name = JitName(q)
                               IN  Answer(PerfMap(p), a + PerfMapStart(p), for_unknown_function)
      [] Kind(name) = "name" -> for_binary(name)
      [] Kind(name) = "dwarf" -> Inserted(cache, Sought(cache, name, a))
Remembered(cache, name, a) == IF Kind(name) = "dwarf" THEN Insert(cache, Sought(cache, name, a)) ELSE cache
============================================================================
