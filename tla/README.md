# A2 in TLA+

A2 is a small scripting language in C: a lexer, a parser and a code generator
for a register machine, the machine, its heap with a mark-and-sweep collector
and an embedding API with a C stack. These modules follow a script from its
bytes to its effects, and model what the parts keep over many calls. TLC checks
them; TLAPS proves the most important facts about them. All sources are under
`src/src/`; `PROJECT.json` maps each definition to the lines it models.

## Inventory

| component | state | operations | interacts with | what makes it correct |
|---|---|---|---|---|
| hash table, `a2_map.c` | slots with `next`/`front` links, `cap`, `size` | set, add (with `map_resize`), query, next, del, clear | used by script maps, `g_str`, `g_var`, `reg_var`, symbol tables | behaves as a dictionary; searches and probes end; foreach gives each key once |
| collector, `a2_gc.c` | `chain`, `gc_count`, `gc_threshold`, `gc_flag`, a mark and a meta pointer per object | `a2_gc_add` (may collect), open, close, mark, sweep, setmeta | called by every creation; calls back into `a2_env.c` and `a2_vm.c` for the roots, into `g_str` for freed strings | frees exactly what the program cannot reach; marks clean between collections; heap within its threshold |
| environment, `a2_env.c` | `g_str`, `g_var`, `reg_var`, C stack with `bottom`, jump target chain | `a2_env_load`, string interning, C stack, globals | all others | one object per string content; a load leaves collector and stacks as it found them |
| virtual machine, `a2_vm.c` | call chain (recycled `vm_callinfo`), one stack of registers, `pc` per frame | one handler per instruction, calls to and from C, protected calls | closures, environment, collector | frames do not overlap live registers; unwinding restores the caller |
| closures, `a2_closure.c` | upvalues (register index, later object), `uped_chain`, `ud_gc_p` | new, newrun, return | machine, collector | closures that share a variable share it for ever, activations do not share |
| errors, `a2_error.c` | chain of `setjmp` targets | raise, protected call | machine, environment | the innermost protected call is the one that returns |
| prototypes, `a2_xclosure.c` | instructions, constants, nested functions, reference counts | push, at, add and del of references | code generation, closures | freed with the last closure |
| code generation, `a2_ir.c` | stack of function scopes, symbol tables, register counter, loop stacks | one function per node kind | parser, prototypes | jumps land in their loop, registers within the frame |
| parser, `a2_parse.c` | token position, node vector | recursive descent | lexer, code generation | tree reflects precedence |
| lexer, `a2_lex.c`; input, `a2_io.c` | token vector, line; buffer and position | read, look ahead | each other | every byte seen once |
| embedding API and library, `a2_state.c`, `a2_libutil.c` | none | C stack calls | environment, machine | stack discipline |

Hard behaviours: everything runs in one thread, but control is re-entrant. A
creation may run a collection in its middle; the collection sees whatever the
creation has written by then. An error leaves by `longjmp` through any number
of frames. A map operation may resize, a foreach loop runs script code between
two steps. These are the places the properties are about; `PROJECT.json` lists
them as hazards.

## Modules

A module that promises something, without a word on how it is done, stands
beside each detailed one; the runs and the proofs say that the promise is kept.

| module | models | promise | instance, proofs |
|---|---|---|---|
| `A2Stream`, `A2Io` | `a2_io.c`: the block reader, and somebody who reads | `A2Chars` (refinement) | `MCA2Io`, `A2Io_proofs` |
| `A2Lex` | `a2_lex.c` over `A2Stream` | `A2Lexemes`: which tokens a text consists of | `MCA2Lex`, `A2Lex_proofs` |
| `A2Parse` | `a2_parse.c` | `A2Grammar`: which tokens a tree is written with | `MCA2Parse` |
| `A2Nodes` | the syntax trees between parser and code generator | | |
| `A2Ir` | `a2_ir.c`, `a2_xclosure.c` | `A2Source`: what a script means | `MCA2Exec`, `MCScripts` |
| `A2Exec` | compiling a script and running it on `a2_vm.c` | `A2Source` | same |
| `A2Frames` | call chain, register stack and protected calls of `a2_vm.c` and `a2_error.c`, upvalues of `a2_closure.c` | `A2Cells`: variables that live as long as somebody holds them (refinement) | `MCA2Frames`, `A2Frames_proofs` |
| `A2CStack` | the C stack of `a2_env.c` under the calls of `a2_state.c`, C functions, nested loads and errors; the registry | `A2Stacks`: a stack of its own for everybody (refinement) | `MCA2CStack`, `A2CStack_proofs` |
| `A2Gc` | `a2_gc.c`, with what creates, links and loses objects in `a2_vm.c`, `a2_closure.c`, `a2_env.c`, `a2_state.c` | | `MCA2Gc`, `A2Gc_proofs`, `A2Heap_proofs` |
| `A2Map` | `a2_map.c` | `A2Dict`: a dictionary (refinement) | `MCA2Map`, `A2Map_proofs`, `A2Grow_proofs` |

They are composed where one part works on the state of another: `A2Lex` reads
from the very stream of `A2Stream`, so the ends of blocks fall anywhere in a
token; `A2Exec` runs the code that `A2Ir` generates; the trees that `MCA2Parse`
prints and reads back are the scripts that `MCA2Exec` compiles and runs.

Operators marked "faulty variant" are plausible bugs. They are used by no
specification; substituted for the operator that follows them, they make the
property named in `PROJECT.json` fail.

The code has mistakes of its own, and ordinary scripts run into them. `A2Gc` and
`A2Frames` therefore do what the code does and note in the variable `faults`, at
the very step, which of its known mistakes has struck; nothing that a script or
the host can do is left out for that. What the mistakes spoil is promised until
one of them strikes (`Sound => ...`, the hypothesis of no theorem but a part of
what is proved), so that any other mistake would show. The passing runs go no
further than the first fault (`Sound`, `Followed`; TLC still evaluates every
property in the states with it). For each of the two modules one more run lets
one fault strike and shows an assertion of the code fail; the tables below say
what comes of the others. To see one of those, put its name in the place of
that in `RegisterSpec` or `RecursionSpec`.

`A2CStack` has an older form of the same: circumstances known to go wrong are
"perils", named in its constant `Perils`, and its run admits none of the three.

### A2Stream and A2Io

A stream is a record of text, block, block size, and the counters `rsize` and
`seek`. A file comes in blocks of `Size` bytes, the last one shorter; a string
is one block with the 0 byte behind it. `Advanced`, `ReadChar`, `AtChar`,
`Looked` and `MatchChar` are the calls of `a2_io.h`, with the loading of blocks
inside of them. Memory that nobody wrote holds `Unknown`.

`A2Chars` is what somebody who reads can rely on, in any order of calls and with
blocks anywhere. Two things that a plain sequence of bytes would promise are not
in it, because the code does not keep them:

- Between two blocks the current byte is whatever lies behind the block in
  memory (`a2_io.c:103`: nothing is loaded there); so it is at the end of a file.
- A look-ahead across the end of a block (`a2_io.c:79`) moves what is not yet
  read to the front and sets the position behind it: those bytes are passed
  over, and the byte given is as far behind the new place as it should have been
  behind the old one.

Everything else is: `a2_io_readchar` gives each byte in its turn, whatever
blocks they come in, and a look-ahead within the block or behind the end of the
text changes nothing. `MaxLook` is such that the part moved does not overlap
itself.

### A2Lex and A2Lexemes

One action per branch of `a2_lex_read` and one per round of its loops. A byte
stands for all those that the tables of `a2_lex.c` treat alike, one keyword for
all keywords (`return`, and the literals, are told apart because the end of a
statement depends on them). `A2Lexemes` defines the tokens of a text the other
way round: every kind of lexeme is a set of texts, and the longest one at each
place counts. Two habits of the code are part of the promise: a comment takes
its newline along, and a line end is a token only behind a name, number, string
or `return`, never behind a closing bracket. The line of a token made at a
semicolon is one too low and not compared.

In a file longer than a block both gaps of `A2Chars` show. The comment at
`a2_io.c:100` calls what `a2_io_atchar` returns the "current char", and the loops
of the lexer (`a2_lex.c:86`, `301`, `327`) decide by it whether a token goes on;
between blocks it is not of the text. So a token that ends with a block is
continued, or not, by whatever lies behind the block in memory: in blocks of 5,
`a a=a=a` asks about the byte behind the second `=`, which `A2Lex` gives as
`Unknown`. `lex_tokens` compares with `A2Lexemes` the texts
for which this cannot be: strings, files of one block that do not end with an
operator which could go on, and files whose blocks end inside of comments and
strings, which do not ask for the current byte.

### A2Parse and A2Grammar

Every function of the recursive descent is an operator on a state (tokens,
place, node); a step parses one statement, as the loop of `parse_gsegment`.
Constants are calculated in the token of their left operand (`Merged`,
`Changed`), as the code does, which every node made before still points to: a
number in a tree is the place of its token, and stands for what is in the token
when the tree is handed over (`Resolved`).
`A2Grammar` is a relation between trees and tokens by levels of operators
(`Block`), and a printer of trees (`TextLines`) that is not used by the
relation. `Faithful` goes from tokens to trees, `RoundTrip` from trees through
tokens back to trees.

The parser reads some texts as less than they say. These are noted in `odd`,
where `Faithful` promises nothing: `a < b < c` becomes `a < c`, `(a = b) = c` is
read, a parameter list passes over tokens that are no names, empty parentheses
are read where an expression belongs, and constants are divided as floating
point numbers. Where the code would use node 0 or a token behind the last one
(after an error it did not notice) the outcome is `wild`, and nothing is said.
`>=` and `<=` exchange their names in the parser and again in the code
generator (`a2_parse.c:634-639`, `a2_ir.c:1254-1259`), which cancels out.

### A2Ir, A2Exec and A2Source

`A2Ir` has an operator per function of the code generator: registers are taken
and given back (`arg_cap`, `max_arg`), symbols looked up through the functions
around, constants pushed within the limits of their fields, jumps of `break` and
`continue` collected and patched. `A2Exec` hands it a script statement by
statement (`Generate`), closes the chunk (`End`) and runs the code, an action
per group of instructions. `A2Source` interprets the same tree with places for
variables and no registers. `Means` compares globals and the objects they lead
to, and whether the script fails. The widths of fields are constants, small
enough that scripts run into each limit.

The scripts in `MCScripts` are built from templates: expressions in every
target, branches, loops in loops with `break` and `continue`, containers,
closures over two levels, several targets, errors, more and more constants and
variables, and every statement of a list behind and inside every other. Left
out of them, because the code does something else with them:

| form | what the code does |
|---|---|
| `x = g[x]`, `x` local, `g` global | `g` is loaded into the register of `x` before `x` is read |
| `g.b.c = f(x)`, a target two levels deep with a value that needs registers | the value is lost: the container is stored |
| `for (i = f(), f(), 1)` | the calls take the registers of the loop; no round is run |
| `-f(x)`, `!f(x)` | refused as "can not be call" |
| `f(x = 5)` | the assignment overwrites the function's register |
| `local a = f(1), b` | `b` keeps what the call left in its register: the nil was put there before |
| `t.a, t.b = f()` with a key past the B limit | the registers of the results count as free, and the key is loaded into one of them |
| `local x = x` in an inner block | reads the new `x`, which nothing was put into |
| `==` and `!=` of boolean values | there is no case for them (`a2_vm.c:302-317`): the register of the result stays as it is |
| `break` behind the last loop of a function | accepted, and its jump never completed: that there is a loop is read from a counter that no loop decreases |
| a function in a loop or block that captures a variable of it | a later round or block uses the register again, and nothing is closed at the end of a block |

Functions that capture and call themselves, or are called again, are in
`A2Frames`; `Captured` of `A2Exec` has shared variables in place of `ud_gc_p`.

### A2Map

`slots` is `slot_p`; `next` and `front` are slot numbers plus one as in the
code. A search is the least set of slots closed under the `next` links it
follows (`Walk`), which stays meaningful when links form a circle; `WalkEnds`
says that the C loop terminates. `SetExisting`, `AddNew`, `Del` and `Clear` are
one step each. A resize takes one step per iteration of its loop
(`AddResize`, `ResizeStep`, `ResizeDone`), so that the invariant says what
holds in the middle of it. An operation that would not return (a search in a
circle) is not enabled; whether that happens is the property `QueriesEnd`.
`IterBegin`, `IterNext` and `IterEnd` are a foreach loop, other operations
interleaved with it.

`GrowSpec` has no deletions: so are used the globals, the registry and the
symbol tables. `DelSpec` is the table of a script's map, with `Del` and without
a loop over it, which changes nothing but its own register; `Spec` is both.

### A2Gc

`heap` gives each address its object, `linked` is the gc chain as a set,
`regs` stands for every register of the stack and every C stack slot (a
collection marks them alike), `globals` for `g_var`. `entries` holds the
references of an object, keys of maps included. `Reached` is what marking
reaches, as the least closed set; `GcAdd` is `a2_gc_add`: a collection if one is
due, then the new object joins the chain. Each creation passes to it the heap
and the registers as they are written *at that moment*. Freed memory may keep
its meta field and is handed out again. `a2_env_load` is `LoadBegin` (collector
closed), `CompileString` per constant, `LoadRun` or `LoadFail`, `LoadEnd`.

Leaving a frame does not clear its registers (`Leave`), nor does entering one:
`stale` are those that nothing has written since. A collection marks some of
them, by where the newest frame is (`fresh` in `GcAdd`), and may follow one to
an object that was freed meanwhile (`dangling`). The sweep deletes strings from
`g_str` by `a2_map_del`, which may cut others off (`lost`, `CutOff`; see
`NoDuplicateKeys` of `A2Map`).

| fault | what happens | code | what fails |
|---|---|---|---|
| `creation` | a collection in the creation of a closure, which is in its register but not in the chain, leaves it marked | `a2_vm.c:702` | `MarksInHeap`, in a heap of 5 objects: two more collections have to come, of which the first takes the mark for its own and frees what the closure refers to |
| `closing` | a collection in the closing of an upvalue, whose type is set before its pointer | `a2_closure.c:108` | `MarksInHeap` (the assertion at `a2_gc.c:209`) |
| `register` | a collection marks a stale register to a freed object | `a2_vm.c:1107` | `MarksInHeap` (those at `a2_gc.c:157`, `173`, `196`): run `gc_wild` |
| `meta` | a map is made in memory that was not cleared, and has a meta table | `a2_gc.c:293` | `MarksInHeap` (that at `a2_gc.c:173`) |
| `name` | a deletion from `g_str` cuts another string off | `a2_env.c:384` | `Interned`; of the table itself `NoDuplicateKeys`: run `map_del_duplicate` |
| `key` | a collection frees a string that is a key of a map it `a2_gc.c:182` | `RefsAlive` |
| `code` | it frees a constant of a function that has no closure yet | `a2_env.c:158` | `RootsAlive` |
| `blue` | it takes the blue mark off a constant of the running chunk | `a2_gc.c:146` | the marks of `MarksClean` |

For the last three nothing in the repository says otherwise in so many words;
that they are reached is visible from the definition of `Struck`, which names
the very objects freed.

### A2Frames

`frames` is the call chain, the host's first call first; a C function, and the
frame without a closure that `a2_vm_pcall` pushes, has `NoClosure`. A frame
knows the register it begins at, computed as `up_stack_frame` does from the
pending call instruction (`CallRegs`, any placement the compiler may choose)
of the newest function. `jps` is the chain of `a2_longjump`; `depth` is the
frame that the protected run began with. `uv`, `uped` and `udGc` are
`uv_chain`, `uped_chain` and `ud_gc_p` of each closure. Who has control follows
from the chain: the function on top, or C code, which may load a chunk, make a
protected call, return or raise an error.

| action | code |
|---|---|
| `Load`, `PCall` | `a2_env_load` and `a2_vm_load`, `a2_vm_pcall` |
| `Call`, `EnterC`, `LeaveC` | `__vm_call_function`, `__vm_call_cfunction` before and behind the call |
| `ReturnToFunction`, `ReturnToC`, `ReturnToHost` | the three ways of `_vm_return`; the last closes nothing |
| `Raise` | `a2_vserror` to the end of `_vm_prun` |
| `MakePlain`, `MakeOverLocal`, `MakeOverUpvalue` | `a2_closure_new`, by the type of the upvalue |
| `SetLocal`, `SetUpvalue`, `Free` | any write to a variable's register, `_vm_set_upvalue`, `a2_closure_free` by a collection |

`sees` and the identities of calls are history: they say which variable of
which call a closure captured, independently of where the code looks it up.
Through them `A2Frames` refines `A2Cells`, in which a variable simply exists as
long as its call runs or somebody holds it. `A2Cells` knows of C code only that
it is on the chain: while it has control no variable is in reach. `Content` says
where a variable is found: in its register while its call runs, then in the
object of anybody who has captured it.

| fault | what happens | code | what fails |
|---|---|---|---|
| `again` | a call ends that captured a variable for which an earlier call of the closure left an object: it is given that one | `a2_closure.c:115` | `Alike`: `test/tuv.a2:33-38` makes two closures by two calls of a function, and the program prints 1 2 for both |
| `recursion` | a closure is entered while a variable of an earlier call of it is captured in its register | `a2_closure.c:103` | `ClosesOwn` (the assertion at `a2_vm.c:143`): run `frames_closing` |
| `chunk` | the host's chunk ends with captured variables, and closes nothing | `a2_vm.c:1032` | `OpenIsNoted` (the comment at `a2_closure.c:97`) |
| `errors` | an error gives up a frame with captured variables | `a2_vm.c:243` | `OpenIsNoted`; the register may lie beyond the stack in use (the assertion at `a2_vm.c:29`) |
| `freed` | a closure that captured a variable of a running call is freed: its address stays in `uped_chain` | `a2_closure.c:139` | `ClosesOwn` (that at `a2_closure.c:106`) |

A function that captures may be called as often as one likes, a chunk may
capture, calls may be nested and given up: a fault is noted when such a step
goes wrong and not when it might. The fault `again`, for one, strikes when a
second call closes a variable of a register that has its object already. A chunk
that a C function loads does close its variables but has no `ud_gc_p` to put the
objects in (`a2_closure.c:72`, the assertion at line 104): the program ends
there, so in the model it does not return (`CloseUpvalues`).

### A2CStack

`stk`, `cap` and `bottom` are the C stack, the memory there is for it, and where
the window of the C code in control begins. `saved` has `_b` and `_top` of each
C function under way, `runs` the runs of scripts and the call that began each.
The two take turns: C code has a script run (`Load`, `PCall`, `RequireNew`), the
script calls a C function (`EnterC`), which may have scripts run again. A run
ends by `Return` or `ScriptFails`, a C function by `LeaveC`, or by `CFails`
together with the run that called it, with `bottom` left where it was. Whenever
a run ends that `a2_require` began, the rest of `a2_require` is part of the step
(`Ended`): it pushes the result and registers the element at its old top under
the key its pointer leads to. `left` is history: what the first load of each
module to end left first.

`A2Stacks` gives everybody a stack of his own. It says what `a2.h` leaves to be
understood: whatever a C function, the scripts it runs, or an error do to the
one stack, nobody else's part of it changes, and a script gets the last elements
of its C function. Only who catches the error of a C function cannot rely on
his own elements: the moved bottom hides them, and the message is on top.

| peril | circumstance | code | what fails |
|---|---|---|---|
| `grow` | the stack's memory moves while `a2_require` points to its key, or `a2_pushvalue` to its element | `a2_state.c:258`, `a2_xclosure.c:192` | `RegistryTrue` |
| `c_error` | an error of a C function ends the load of a module: `a2_require` counts from the moved bottom | `a2_vm.c:946` | `RegistryTrue` |
| `cycle` | a module is required while it is being loaded: it is loaded again inside | `a2_state.c:246` | `RegistryTrue` |

A module that the host itself requires is always registered as nil: a chunk that
the host runs leaves nothing on the stack (`a2_vm.c:1032`), and `Return` says so.

## Runs

| run | shows | bounds |
|---|---|---|
| `io_text` | a stream keeps the promise of `A2Chars` in any order of calls, those at the end of a block included | all texts up to 11 of two bytes, blocks of 5, look-ahead of 2: up to three blocks, the last one full or not; 421000 states |
| `lex_tokens` | a text is read as the tokens it consists of, on the right lines, or refused; the lexer ends | all texts of up to 2 over all kinds of bytes, up to 7 over those that interact; files in one block of 5 that do not end with an operator, and files of up to four blocks |
| `parse_reads` | trees say what their tokens say; every printed script is read as what it was; each round takes a token | all sequences of 4 to 6 tokens in each place of a statement where they matter; the scripts of `scripts_mean` |
| `scripts_mean` | compiled scripts do what they mean; registers, constants and jumps fit; nothing is read that was not put there; a loaded script ends | 15 registers, constants up to 4 and 19 in the two widths of fields: scripts pass each limit; 8 calls; 32000 states |
| `frames_calls` | frames fit, errors unwind to their catcher; until a fault one variable stays one and two stay two when they are moved, and captured variables refine `A2Cells` | 4 frames (functions, C functions and protected calls in any order), 4 closures, 3 calls with a variable in use at a time, of one function or several, 2 upvalue objects; 166000 states. One variable per call: the proofs have any number |
| `frames_closing` | violation: a return closes what was captured in another call | a function that calls itself |
| `c_stack` | windows nest, the one stack refines `A2Stacks`, the registry has what modules left | 4 elements, memory for 2 that doubles, 2 runs and 2 C functions in each other, 2 modules, results of up to 2 |
| `gc_heap` | until a fault: no dangling reference, exactly the garbage is freed, clean marks, no wrong pointer followed, `g_str` in step with the chain, meta fields lead to maps; growth is bounded | 2 registers, a global, a string, maps with keys, threshold 1: several collections, addresses reused. A collection comes when a third object of any kind is added, or a fourth to three that make a path (closure, upvalue object, its value); `Followed` says which heaps are gone on from; 33000 states |
| `gc_wild` | violation: a collection follows a pointer out of the heap, against the assertions of `a2_gc.c` | 4 objects, a register that a frame left |
| `map_grow` | a table without deletions refines the dictionary, its links are in order, searches end, foreach is complete and never repeats | 4 keys, tables of 1, 2 and 4 slots: two resizes; hashes chosen so that keys collide in every table and overflow into another key's home |
| `map_del` | with deletions: links stay in the table, `cap` is right | 4 keys, three of them at home in one slot; one resize |
| `map_del_duplicate` | violation: a key is stored twice after deletions | same |

The operators `Compile`, `Intent`, `Parse`, `Describes` and `Texts` are
constants of `A2Exec` and `A2Parse`: the configurations give them the operators
of `A2Ir`, `A2Source`, `A2Parse` and `A2Grammar`.

Fairness: `A2Exec` assumes that the machine executes the next instruction
(`WF_vars(Run)`), `A2Lex` that the lexer goes on (`WF_vars(Next)`). There is one
thread, neither loop waits for anything, and nothing else can hold it up;
`Terminates` and `LexEnds` hold because jumps are right and every round takes a
byte, not because of the fairness. No other module assumes any. That a search
in a table ends is a state predicate on the links it follows. Deadlock is
allowed in `A2Exec`, `A2Lex` and `A2Parse`, which stop when they are done.

`Activations`, `MaxFrames`, `MaxSize`, `MaxEntries`, `MaxCalls`, `MaxLook`,
`MaxTop`, `MaxRuns`, `MaxCount`, `MaxWant` and one chunk at a time are bounds of
the models and named so there. Objects, registers and strings are symmetric in `A2Gc`: no
operator picks one by `CHOOSE`. In `A2Frames` all addresses, values and
identities of calls are; its `CHOOSE`s pick among equals (the one frame of a
call, the holders of one variable, which `SharedAlike` says refer to one
object). In `A2Map` the values
are; the hash function tells keys apart. In `A2CStack` the keys are.

## Proofs

`A2Map_proofs`, for all keys, hash functions and sizes, deletions included:

- `TypeCorrect`: no link ever leads out of the table.
- `CapCorrect`: `cap` counts the occupied slots. The inductive invariant adds
  that during a resize the old table is full and the new one has as many
  entries as the loop has made steps. The lemma about `FirstFree` (a least
  element exists) is where "the probe finds a free slot" comes from.

`A2Grow_proofs`, for tables without deletions (`GrowSpec`), of any keys, hash
function and size: `GrowInvHolds`, `QueriesEndHolds`, `IterationCompleteHolds`,
`IterationFreshHolds`, and `RefinesDictHolds`, that they implement `A2Dict`. A
search is the least set of slots that is closed under the links, so what it
finds is shown by closed sets instead of by induction along the chain.
The invariant `GrownInv` joins to what `CapCorrect` needs that no set of slots
leads only into itself (`NoCircle`, from which it follows that searches end),
that a resize has moved exactly the entries below its index (`ShapeInv`), and
what a foreach loop has seen, which is all up to its cursor (`LoopInv`).
`InsertGrows` is where an insertion keeps this, in the two cases of
`a2_map_add`: the home slot is free, or it is taken, by a key of this chain or
another, and the new entry comes behind it.

`A2Heap_proofs`, for any finite heap, registers, globals and strings, and whatever
faults have struck: `GcTypesHold`, `ChainIsCounted`, `GrowthStaysBounded`. The
inductive invariant (`BaseInvariance`) says of the heap what no fault can spoil:
the chain is what is allocated, it is counted, `g_str` leads to addresses, and
the threshold never falls below where it starts. Every action either adds one
object by `a2_gc_add` or adds nothing.

`A2Gc_proofs` goes on from there: up to the first fault nothing live is freed,
marks stay clean, marking stays in the heap, strings stay interned, meta fields
lead to maps, and a step frees exactly the garbage. None of these has a
hypothesis on what the program does; a theorem is `Spec => []P` with the `P` that
the runs check, and `Sound` is part of it. The inductive invariant joins them
with what they need of each other: the running chunk's closure holds no
references but its constants, what is compiled but not yet in a closure is
alive, and registers that are not dangling lead to live objects, stale or not.
The argument: `Reached` is closed under reference when everything in the chain
is white or of the chunk (`ReachedIsClosed`) and lies in every closed set
(`ReachedIsLeast`); so what a sweep leaves is closed unless it frees a key, which
is a fault (`CollectionIsSafe`), and a creation that hands `a2_gc_add` a heap in
order gets one back, or a fault is noted (`AddIsSafe`). One lemma per action
applies this.

`A2Frames_proofs`, for any number of closures, calls, variables and registers:

- Whatever faults have struck, `FramesAlwaysFit` and `ErrorsCaughtWhereBegun`. The
  invariant `WellNested` says that each frame begins behind the variables of the
  functions below it and no higher than their registers reach (`LaidOut`), that
  calls are told apart by their identities (`Identified`), that the frame
  without a closure of a protected call has its function above it (`Paired`),
  and that the long jumps are those of the functions that C code called, in
  order (`Catches`). One lemma about putting a frame on top and one about taking
  frames off serve every action.
- Up to the first fault, `FramesTypesHold`, `ReturnsCloseTheirOwn`,
  `NoDanglingUpvalues` and `SharingStaysTrue`. The invariant is `WellNested` and,
  while `Sound`, `CaptureInv`:
  `uped_chain` of a closure notes exactly those who look up a variable of its in
  the stack (`Noted`), that variable is in the newest call of the closure and
  was not moved before (`Found`), and those who captured a variable that was
  moved share one object and with nobody else (`ClosedAlike`). `SharedAlike`
  is not inductive without it: whether a new object is new to everybody is not
  a matter of those who share it.
- From the same invariant `CapturesBehaveAsCells`: `A2Frames` implements
  `A2Cells`. `ContentIs` is what the invariant says of contents; then every
  action is one of `A2Cells`, returns and errors alike being `Leave`, and
  `MakePlain` being none.

`A2Lex_proofs`, for strings of any length and files that fit in one block:

- `TextsAreRead`: the tokens that the lexer finds, and the errors, are those of
  `A2Lexemes`. Besides fitting in a block, a file may not end with a byte that
  begins an operator which another byte could make longer (`Longer`: a point and
  what may stand before `=`), because the byte behind the last one of a file is
  memory that nobody wrote and may be that other byte. Nothing weaker would do:
  with such a file `Lexed` fails. The tokens of a text are computed by two
  recursions, what comments leave of it (`Kept`) and how far the tokens placed so
  far reach (`Takes`); that these functions exist, that `Takes` stays as it is
  where no lexeme begins, and what it takes where one does, is shown by
  induction, in the form of a least counterexample (`Induction`). Where the
  longest lexeme ends is a lemma for each kind of first byte. The inductive
  invariant `Inv` says what is known of the text of which only the first bytes
  were read: the tokens found are those that `A2Lexemes` takes up to the place
  where the token being read began, the line is that of the place, and, by
  `mode`, what is in the buffer is a part of a lexeme, or of a comment, that is
  not over (`Right`). `Lexed` says something only when the lexer has ended, so
  nothing of this follows from it. One lemma per action.

`A2Io_proofs`, for texts and blocks of any size: `WindowHolds` (the block is the
part of the text that the counters say) is inductive as it stands, look-aheads
that load a block with bytes still to read included; and from it
`ReadsTextHolds`: every call of the stream is a call of `A2Chars`, with no
condition on where blocks end. The cases of a read are inside the block, at its
end, and at the end of the text; those of a look-ahead inside the block, across
its end, and across the end of the text.

`A2CStack_proofs`, for any stack size and any depth of calls:

- `WindowsNestHolds`, with all perils admitted: the windows lie behind each
  other, so the assertions of `a2_setbottom` and `a2_settop` hold when a C
  function returns, whatever errors gave up. The inductive invariant `StackInv`
  adds that the registry holds things that can be pushed.
- `RefinesStacksHolds`, without `c_error`: `A2CStack` implements `A2Stacks`.
  `WindowsAre` says what the window of each is, `StepIs` that a step which
  leaves the elements below the top and the saved bounds alone leaves the
  windows alone; each group of actions then is one action of `A2Stacks`.
- `RegistryTrueHolds`, with `Perils = {}`, for any number of modules and of loads
  inside each other: what `a2_require` registers is what the load left first.
  The invariant `RegInv` adds why the pointer and the index kept over the load
  still serve: a module being loaded is not registered and loaded by nobody
  else, the memory has not moved since (`Waiting`), and each run was begun at
  the top of the window that waits for it (`Tops`), so that the first thing it
  leaves lies at the old top.

Only model-checked: everything about `A2Parse` and `A2Exec`, whose parser,
compiler, interpreter and grammar are `RECURSIVE` operators, which leave the
prover without its solver (`Balanced`, `OperandsEncodable`, `CodeFits`,
`NoJunkRead`, `Means`, `Faithful`, `RoundTrip`, `Advances`), and the liveness
properties `Terminates` and `LexEnds`, whose proofs would need `ENABLED`, which
the prover does not treat. That `NoDuplicateKeys` is violated is shown by a run.

The assumptions of the theorems are the named ones on the constants, finiteness
of the heap, what is said above of the files of the lexer, and where it says so
for the C stack that the perils, or some of them, are avoided. What `Sound` leaves
out is said in the tables of faults.

## Not modelled

The just-in-time compiler (switched off in `a2_conf.h`, and for the most part
generated), the memory counters, the command line, the script library (each
function is a few calls of the embedding API and I/O), the wording of messages,
floating point numbers and their formatting. Panics: they end the process. Of
prototypes, the reference counts and freeing. Of the parser, the growth of the
node buffer. Of arrays and strings, the growth of their memory; arrays are
sequences in `A2Exec`. Of the API, that `a2_topset` may raise the top over old
elements, which nothing in the repository does. Type errors in meta methods and
meta methods of arithmetic. In `A2Frames`: blocks, which lend the registers of
their ended variables to later ones, the contents of registers that are not
variables, more than one upvalue per closure, and the growth of the stack's
memory. The components without a module are listed in `PROJECT.json` with the
reason.

## Plan

1. Blocks in `A2Frames`, with the registers that they lend to each other, and
   the proofs with them.
2. Reference counts of prototypes, and meta methods in `A2Exec`.
3. Files longer than a block in `A2Lex_proofs`, where blocks end inside of
   comments and strings.
4. The parser and the compiler as recursive functions on trees, so that
   `Faithful` and `CodeFits` can be proved.
