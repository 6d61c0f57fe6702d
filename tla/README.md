# Formal model of dittodb

dittodb (`sqldb`) is a small SQL database in C: one process, one thread. A
query is tokenized, parsed into a tree, compiled into a program for a stack
machine, and the machine builds the objects (a page, column definitions, the
values of a row) that `main` files in hash maps and pages.

    text -> tokenize -> parse -> preorder_tree -> sql_gen_prog_from_ast_arr
         -> vm_exec_prog ... -> main: page directory, page table, page

There is no concurrency. What is hard here is sequences of calls (deletions,
reuse and growth in the hash map), agreement between parts written apart (the
compiler's pushes and the machine's pops, the parser's cursor and the end of
the query, three lookups that must lead to the right page), unsigned arithmetic
at the edges of the stack and of a page, steps that fail after they have
changed something, and a file that a dead process has left half written.

## Inventory

| component | code | state | operations | what makes it correct |
|---|---|---|---|---|
| hash map | `hashmap.c`, `hashmap.h` | `capa`, `cnt`, buckets with name, two flags and a page list | init, append, find, extend, delete, `KV_append`, free; save and load | no key lost, doubled or moved by surprise; always room; growth invisible |
| stack machine | `stackmachine.c/.h` | stack, program counter, halt flag, objects on the heap | one per instruction | bounds, signals, untouched words and objects |
| compiler and execution | `sqlengine.c`, `main.c:224-316` | program, statement, result pointers | compile, run, take the result, compare with the definitions | the code fits the machine; the result is what the statement says |
| parser | `parse.c` | cursor, tree | one case per statement and clause, five Pratt parsers | nothing lost, precedence, the end of the query respected |
| AST memory | `array.c`, `region.c` | arena, child arrays | `region_alloc`, `append`, `at` | children survive growth |
| tokenizer | `tokenize.c` | position in the text | seven matchers in order | each word cut where it ends |
| pages | `dbpage.c`, `sql_ins_buf_to_page` | page header and data, buffer, page table | `mem_append`, `init_page`, row insertion | rows do not overlap, free space is right |
| session | `main.c:214-332` | the maps, the page, the global page number | create, insert, select | a row lands in its table's page |
| word count | `main.c:77-156` | a hash map | count words | counts are exact |
| string views | `stringview.c` | none | trim, cut, compare | definitions |
| playground, tests | `playground/`, `test/`, `test_parser.sh` | | | |

Interaction is by calls and shared pointers only: tokens point into the arena,
nodes point to tokens, the program holds pointers to the tokens' text, the
machine's stack holds pointers to the objects it allocates, and `main` keeps
those pointers while the next program runs. The hash map is used by the memory
area (page directory, page table), by the table definitions and by the word
count.

The hazards, each at its line and with the properties that watch it, are in
`PROJECT.json`.

## Modules

| module | models |
|---|---|
| `Dictionary` | what the hash map promises: names with lists of page numbers, and the answer of each call |
| `HashMap` | `hashmap.c` in memory; implements `Dictionary` |
| `HashMapProofs` | the inductive invariant of `HashMap`, the theorems, and that it implements `Dictionary` |
| `HashMapDisk` | `hashmap_todisk`, `hashmap_fromdisk`, and a process that may die; extends `HashMap` |
| `HashMapDiskProofs` | what a whole and a cut-off file bring back, and what a load cannot break |
| `StackMachine` | `vm_exec_prog`: one action per instruction |
| `StackPrograms` | the machine on arbitrary programs, and what every instruction guarantees |
| `StackMachineProofs` | one lemma per instruction: types, and what it does to stack and heap |
| `StackProgramsProofs` | the theorems about arbitrary programs |
| `SqlEngine` | the compiler and `main`'s use of the machine, on any session of statements; extends `StackMachine` |
| `SqlEngineProofs` | the compiler and the machine together: compiled code runs, results stand, rows fit |
| `DbPage` | a page: `init_page`, `sql_ins_buf_to_page` |
| `Tables` | what a session promises: tables as sequences of rows |
| `Session` | `main`: the page directory, the page table, the buffer and the rows; extends `SqlEngine` and `DbPage`, implements `Tables` |
| `SessionProofs` | the directory, the pages, their headers and their bytes, when a session goes astray, and that it implements `Tables` |
| `Parser` | `parse`, the Pratt parsers, `preorder_tree`, and `append` of `array.c` |
| `Tokenizer` | `tokenize`, the seven matchers, `region_alloc` |
| `ParserProofs` | what holds of the parser for every query |
| `FrontEnd` | `main_sqlparser`: the tokenizer and then the parser on one text; extends both |
| `FrontEndProofs` | what holds of the tokenizer, and of both, for every text |
| `MC...` | instances for TLC |

Definitions named `X_Something` and marked MUTANT are plausible mistakes in the
definition `X` below them. No specification uses them; replacing `X` by one of
them has to break the property `PROJECT.json` pairs it with.

### HashMap

`capa`, `cnt`, `items` are the fields of `HashMap`; a bucket is a `KV` without
its padding: `pageno` is the allocated array, `NoPage` an element `realloc`
left uninitialised. A call runs to completion before the next, so each is one
action. The exception is `hashmap_extend`: its loop is taken apart
(`ExtendBegin`, `ExtendSkip`, `ExtendMove`, `ExtendEnd`), with the old buckets
in `temp`, because the map in the middle of a rehash is where the functions it
calls meet states the interface never shows. `pending` is the key of the append
that caused the growth. Probing is written with the distance travelled from the
home bucket (`Slot`), which is the loop variable `i` of the C loops; `CHOOSE`
picks the distance at which the loop stops.

Not in the model: a failing `calloc`, names longer than a bucket's field, and
`hashmap_append` on a map never initialised or freed (the branch that sets
`capa` to 256 without allocating, `hashmap.c:115`): no caller does that.
`ret` is a history variable: the last call, its key and its result.

### HashMapDisk

The file is the sequence of what single calls of `write` have put there: the
header, then for each bucket its `KV` and the used part of its page list.
`Open` truncates, `Write` adds the next piece, `Crash` may come between any two
steps of anything, in the middle of a rehash or of a save, and the next process
starts with an empty map and the file as it is. `Load` is one action, because
reading changes nothing that could be seen before it is over: a piece that is
missing reads as zeros (the memory comes from `calloc`, the results of `read`
are only tested for errors). `saved`, `torn` and `fresh` are history variables:
what was saved, whether the map descends from a file that was cut off and has
not been rebuilt, and whether it is just loaded.

The crash model is that of a process: what `write` accepted stays, whole. A
write that stops half way (a full disk, a power failure) is not in the model.

What a cut-off file does was found by stating the strongest property TLC lets
stand: it invents nothing (`TornInventsNothing`), the numbers of one key's pages
may read 0, and the map it yields need not be sound, since the chain of a key
may begin in the missing part; the next rehash mends that (`SoundUnlessTorn`).

### StackMachine and StackPrograms

A word is a number modulo `WordMod`, read as signed, unsigned or as a pointer.
Object number i lives at address `HeapBase + i`; strings have the addresses
`Strings`. Where the C program has no meaning (a word that is no such pointer
is used as one, or a word outside the stack is written), `fault` becomes "wild"
and nothing follows; a read below the stack yields any word. An `int` and an enum keep a word modulo `IntMod` (`Narrowed`):
DEFINE_COLUMN cuts the type and the size off to them. `trap` is the
arithmetic exception of dividing the least integer by -1. The results of the
floating-point instructions are arbitrary words, since nothing depends on them.
`main`'s loop calls `vm_exec_prog` until it halts or signals.

### SqlEngine

A statement is what `preorder_tree` yields: the head and the items. Items carry
what the compiler looks at, for columns the name, the datatype child (or that
there is none, or another word), the size; for values the token type and the
value. `GenHead`, `GenItem` and `GenHalt` are the compiler with its loop;
`Exec` is a step of the machine; `TakeTable` and `TakeRow` read `vm.stack[0]`
and `vm.stack[1]` and, for a row, check it against the definitions the last
CREATE left, as the asserts in `main.c` do. `main.c` runs three fixed
statements; the model runs any, in the same way, but an INSERT comes after some
CREATE. A SELECT is compiled and not run, as in `main.c`. `done` is a history
variable.

### Session, DbPage and Tables

`FileTable` is what follows `TakeTable` in `main`: the page gets its number, its
name and number go to `pagedir`, the page is copied to the buffer by
`mem_append`, which files its place under its number in `pagetable`, and the
column definitions are filed in `table_definition`, where nothing looks them up.
`StoreRow` is what follows `TakeRow`: the way back through the two maps, the row
laid out by the columns of the last CREATE, and the copy into the page. The maps
are functions here, as `Dictionary` allows.

A byte is `Zero` or the k-th byte of a value, so that a row shows which copy
reached it last and a page which row. The header's counters wrap at `HeaderMod`;
`freespacetr` does so when a page is full to the last byte.

The code indexes with the -1 of a failed lookup or a refused key, copies strings
with their own length, and does not ask whether a page has room. Where this
leaves the row or the page, C gives it no meaning: `storage` becomes "stray" and
the model stops. `StrayOnlyBeyondContract` says when this cannot happen:
different names for tables, names that exist for rows, strings that fit their
columns, rows that fit their page. `Tables` is the abstract specification; the
refinement mapping reads the rows back from the bytes of the pages, column by
column. It tells what a string too long for its column does as long as it stays
in the row: a string may be garbled, from that column on, a number never, since
its own copy comes later or ends before. Any two empty strings read the same,
and a column of size 0 has room for nothing else.

### Parser

A query is a sequence of tokens of one name, one literal of each type, a string
that reads `(` (the one text the code takes for an operator), and one word for
each keyword and operator the code treats differently; a node refers to its
token by place, so two tokens with the same text stay apart. A node has its token's
place and those of its children; the tree is the set of its nodes (`nodes`) and
the children of the root (`root`). `append` forgets the children of an array that
is full, as `array.c` does: they read 0. `Gone` tells how many these are when n
have been appended, and `NothingLost` says of the tree that it lacks these and
no other, for any number of clauses. `parse` is a loop with an action per
case; the five Pratt parsers are one definition with the clause as parameter,
because their texts differ only in the operators they let follow an operand (any,
or only the comma) and in the columns of `parse_create`. Each call of
`node_from_token` in the code is a `Look` or an `Expect` here: it exits on keywords
it has no case for, and dereferences NULL behind the last token.

A Pratt parser is `Start` (what comes first) and then `Infix`, the body of its
loop, which changes nothing where the code leaves the loop. It calls itself;
here `Expr` is given what calls do, and `Nested` is what they do when at most n of
them are nested, a recursive function, which the prover accepts. A call begins
behind the token of the one it is nested in, so more nested calls than tokens
are not to be had: that no call ends "deep" is part of `StaysInQuery`.
`Precedence` looks at operators on one level of parentheses; the tokens around
the size of a char column are not counted for it, since in `char '(' 1 )` the
first of them is a string.

### Tokenizer and FrontEnd

A text is a sequence of pieces: a digit, a space, an operator character, a
quote, or letters that stand together and mean something to a matcher (a
keyword, a datatype, `or`, `and`) or nothing (`a`). `order` is two pieces, since
the operator matcher takes `or` off it. The regular expressions are modelled by
the length they match, the order of the matchers as in `tokenize`. `blocks` is
what `region_alloc` gave away, with how much was written there; a piece counts
as one character.

`FrontEnd` runs the tokenizer and then the parser. `Word` is the token as the
parser sees it, by its type and its first pieces; what the parser allocates in the region is not counted.
`meant` is the sequence of words a text was spelled from, if it was.

## Runs

| run | question | size |
|---|---|---|
| `MCHashMap` | no key lost, doubled or moved; counts; room; rehash | 4 names, 1, 2 or 4 buckets, growth by 1 or 2, one page per name |
| `MCHashMapRefines` | implements `Dictionary`; an append that grows completes | 2 names, 2 pages, up to 4 buckets |
| `HashMapDisk` | a whole file brings the map back, a cut-off one invents nothing, no load breaks the map for good | 2 names with the same home, 1 or 2 buckets, pages 0 and 5 |
| `VMPrograms` | stack bounds, underflow, division, clean failures, untouched words, objects, termination | all programs of 3 out of 17 number, stack and jump instructions, on the empty stack and behind three pushes; of 4 out of 6 table instructions and pushes; of 4 pieces (an instruction, three pushes, a column, a value); 5-bit words, 4-bit ints, a stack of 5 |
| `VMOffset`, `VMInsert` | counterexamples, see Findings | as above |
| `EngineSmall` | signals, exits, termination | two statements of up to two items of every sort; 4 words of stack |
| `Session` | compiled code runs, results stand, rows fit; directory, pages and headers agree; nothing astray within the contract; implements `Tables` | four statements; two tables and one that does not exist; pages of 16 bytes, integers of 8, strings of 0, 1, 2 and 4 in columns of 0 and 2; 5 words of stack |
| `ParserQueries` | nothing lost, precedence, end of query, sentences understood | all sequences of up to 4 or 5 tokens after SELECT and WHERE, after the parentheses of CREATE ... ( and INSERT ... VALUES ( and after a column's CHAR; of up to 3 before these parentheses; all sequences of up to 3 words, and 4 after SELECT ... FROM; sentences of the grammar with up to 3 columns of all datatypes or 3 values of all sorts, and one of 5 values; up to 9 clauses with arrays that begin with 4 |
| `ParserCharSize` | counterexample, see Findings | the column lists of `ParserQueries` |
| `FrontEnd` | matchers cut nothing short, blocks hold, nothing dropped, sentences understood, both loops end | all texts of 3 of 16 pieces, of 4 of 8, of 4 of 6 after SELECT; three sentences with all 896 choices of the optional spaces; one text too long for the region |
| `TestScript` | counterexample, see Findings | the three texts of `test_parser.sh` |

Why the bounds are enough. In `MCHashMap` the hash values make three of four
names share or follow each other's home bucket and wrap around the end, every
bucket can be a tombstone, and the array can be full at every size; the map can
grow twice. The theorems below remove the bounds for the safety properties. Three
instructions reach every underflow with 0, 1 and 2 words, and behind three
pushes the full stack of five; four table instructions are enough for every
underflow and wild pointer of theirs, four pieces for a table with two columns, for a
row of two values and for CREATE_TABLE on a full stack. Five words of stack are exactly what a column needs,
so one word too many would show. Nine clauses
in an array of four make it grow twice. Five tokens make trees of two operators, with
parentheses or signs, which is what two binding powers can disagree about.

Two buckets and one hash value are what a file needs to be cut between a chain's
beginning and its end. In `Session`, pages take two rows of one integer or one
of a string and an integer with room left over, and are filled exactly; the four
lengths of strings are those of the empty one (there are two), one that fits, one
that fills its column and one that spills by as much as the next column holds,
and a column of size 0 takes an empty string or spills at once. Every matcher's first two characters are among
four pieces of text, and so is every pair of matchers that begin alike.

Deadlock is checked for the hash map and the front end (`Finished` is its end);
the other machines stop: a program halts or signals, a session is over or has
gone astray, a query is parsed.

### Fairness

`FairSpec` of `HashMap` asks only that a rehash that has begun goes on; calls
are not forced. `StackPrograms` and `SqlEngine` are loops without
waiting: weak fairness of the loop's step says that the process is scheduled.
`FFairSpec` of `FrontEnd` says the same of the tokenizer's loop, the call of
`parse` and the parser's loop; of the last it is written without ENABLED (TLC
would evaluate the recursive parsers many times over), which the deadlock check
of the same run makes good.

### Findings

* `VMOffset`: DUP and SWAP below the bottom of the stack are not signalled.
* `VMInsert`: INSERT_VALUE needs three words and tests for two.
* `ParserCharSize`: the token after a char column's size may be anything.
* `TestScript`: of the three statements in `test_parser.sh` the INSERT is refused
  by the tokenizer, which exits on the double quotes (the run's trace), and the
  CREATE by the parser, since its char has no size. The script does not notice:
  `main` in this commit ignores its arguments.

### Hazards the code does not avoid

Some of the hazards in `PROJECT.json` are defects of the code as it is, or ways
it has that a reader would not expect. A property that forbade them would be
false. Where there is no comment or test to hold against the code, the property
states how far the defect goes, and it catches a code in which it went further.

| hazard | what the property says |
|---|---|
| CREATE_TABLE signals a full stack after it has changed the machine (`stackmachine.c:192`) | `FailedStepsAreClean`: it has only replaced the table's name and allocated two objects, and no other signal does anything (`LeavesTable`) |
| -1 used as an index after a duplicate or unknown name (`main.c:245`, `284`), strings and rows too long (`301`, `sqlengine.c:166`) | `StrayOnlyBeyondContract`: only statements that break the contract lead astray |
| a row has the layout of the last CREATE, not of its table (`main.c:293`) | part of `Tables`, `PagesAgree` and `RowsFitTheirTable`: with that layout rows lie apart and are read back |
| the root forgets its clauses when its array grows (`array.c:15`) | `NothingLost`, `NothingDropped`: exactly those there when it last grew, and all before the ones it keeps |
| `or` and `and` have no word boundary (`tokenize.c:219`) | `LongestMatch`: no other matcher is cut short by an earlier one |
| a prefix operator takes all that follows (`parse.c:364`) | `Precedence`: in every tree, at every depth |
| the string `'('` opens the size of a column (`parse.c:556`) | `NothingLost`, `CrashesAfterCharOnly`: nothing is read twice or past the end but after it |

## Proofs

Nothing is assumed but the named assumptions on the constants, which TLC
evaluates in the runs, and the hypotheses written in a theorem's statement.

| module | theorems, and the properties they prove |
|---|---|
| `HashMapProofs` | `TypeCorrect` (`TypeOK`), `Reachability` (`FindIsExact`), `NoKeyTwice` (`NoDuplicates`), `NoHoles` (`ChainsUnbroken`), `AlwaysRoom` (`NeverAborts`), `RehashKeepsUp` (`RehashProgress`), `CntIsRight` and `ExtendCounts` (`CntIsOccupied`, `ExtendCountsKeys`), `IndexIsTheKeys` (`ReturnedIndex`), `IndexesStay` (`IndexStable`), `Refinement` (`ImplementsDictionary`), `PagesWritten` |
| `HashMapDiskProofs` | `DiskAlwaysRoom` (`NeverAborts`), `SavingKeeps` (`SavedComesBack`), `TearingOnlyLoses` (`TornInventsNothing`), `OnlyTearingBreaks` (`SoundUnlessTorn`) |
| `StackProgramsProofs` | `Types` (`TypeOK`), `NoSilentUnderflow` (`UnderflowSignalled`), `FailuresAreClean` (`FailedStepsAreClean`), `PointersStayGood` (`ObjectsStay`), `BelowUntouched` (`BelowIsKept`), `DivisionIsC` (`DivisionTruncates`) |
| `SqlEngineProofs` | `CompiledRuns` (`CompiledCodeRuns`), `ResultsKeep` (`ResultsStand`), `RowsFitTables` (`RowsFitTheirTable`) |
| `SessionProofs` | `SessionIsEngine`, `PagesStayApart` (`PagesAgree`), `ContractKeepsOnTrack` (`StrayOnlyBeyondContract`), `BytesStay`, `TablesImplemented` (`ImplementsTables`) |
| `ParserProofs` | `StaysInQuery` (`TypeOK`), `OneCrash` (`CrashesAfterCharOnly`), `NothingIsLost` (`NothingLost`), `BindingPowersHold` (`Precedence`), `SentencesAreUnderstood` (`SentencesUnderstood`) |
| `FrontEndProofs` | `BlocksNeverOverlap` (`BlocksHold`), `NothingSkipped` (`TextCovered`), `FirstIsRight` (`LongestMatch`), `NothingIsDropped` (`NothingDropped`) |

### The hash map

For every set of keys, every hash function, all sizes, factors and bounds. The
assumptions are those of `HashMap`: hash values are naturals, the names are
finitely many, sizes and factors are positive naturals.

The argument. `FindIsExact` is not inductive: a deletion or the reuse of a
tombstone may cut a chain. `ChainsUnbroken` is what each call preserves: all
buckets from a key's home to the key are occupied. With `FlagsAgree` and
`NoDuplicates` it makes a bucket array *sound* (`Sound`), and the lemmas are
about one array and its size, so that they serve the map, the array being
filled by a rehash and the old one: a probe stops early when a bucket is free
(`InsertStopsEarly`), a free stop means the key is absent
(`FreeStopMeansAbsent`), placing a key where the probe stopped keeps the array
sound (`PlaceKeepsSound`, `InsertEffect`), and so does clearing a name
(`ClearKeepsSound`). That there is room during a rehash needs `RehashProgress`:
the count of the new array is at most the number of old buckets passed, each
name in it is one already passed, and it has no tombstones. `RehashOver` says
that nothing of it is left between calls, which `ExtendCountsKeys` needs.
`IInv` is the conjunction; `StepIInv` has one lemma per action.

The refinement. `Stored` is `Contents` as an operator on two bucket arrays, the
one in use and what is left of the old one, so that a lemma about it serves
every action. `RInv` adds to `IInv` that the page numbers a bucket counts have
been written (`Filled`): without it a rehash could copy what `realloc` left. Each
call maps to the dictionary's call with the same answer; `hashmap_init`, the
beginning of a rehash and its iterations map to stutters, and `ExtendEnd` maps to
`Compact`, or to `Put` of the key whose append was waiting.

### Saving and loading

A map loaded from a cut-off file is half a map: a name may be in two buckets and
chains have holes. So what is proved of bucket arrays comes in two parts: what
holds of all of them (`MapOK`: flags agree, and the map does not count fewer
buckets than are occupied, hence always finds room), and what holds of those
that do not come from such a file (`Whole`). The actions of `HashMap` keep each
part; a rehash turns the first into the second, since it inserts every bucket's
name into a fresh array. `DiskInv` is these, with what the file holds
(`FileInv`: a file is the first pieces of some map, that map's contents are
`saved`, and it was `Whole` unless it was itself torn), what the process still has
to write (`SaveInv`) and what a load brings back. `FileInv` quantifies over all bucket arrays, which TLC cannot
enumerate; the rest of the invariant was checked on the run's instance.

### The tokenizer

For every set of texts and a region of any size, what is written to a block of
the region stays in it and blocks share no byte (`BlocksNeverOverlap`), every
piece passed is in one token, in the text's order, or is a space outside all of
them (`NothingSkipped`), and no matcher is cut short by an earlier one (`FirstIsRight`). It is
assumed that the size of a token is positive and the region's a natural number
(`ArenaAssumption`), and that texts are sequences of strings. None is inductive
alone. A string's copy, without the quotes, fits only because a match of the
string matcher counts both quotes (`LengthsType`, `TypesType`, `MatchIsToken`); a
new token overlaps no earlier one because none reaches beyond the cursor and,
until EOQ, none is empty (`Behind`). `TokInv` is their conjunction with the types;
`OneMoreHolds` is one `region_alloc`, `SpaceCovered` and `TokenCovered` are the two
ways the cursor moves on. For `FirstIsRight` the first piece of a match decides
which of the seven can match at all, and the lengths of those that can are
compared.

### The parser

For every query that ends with EOQ and has no other, whatever its tokens, its
length and how deep it is nested; that the tokenizer hands over such a query is
part of `NothingIsDropped`.

The argument. A call that began at i and ended well at j has read i .. j, and
says so in its tree: `Grown(tree, i .. j)`. That is, the tree's nodes are tokens
of i .. j, one node a token, what is below a child lies within the child's
part, the parts are in the order they are read, and what is in no node is a
parenthesis or was stepped over (`Neat`, `Placed`). Neither is inductive without
the other: that reading in order is possible at all needs that no two nodes have
the same token. `SoundCall` adds that calls start inside the query, that a call
ends on an expression, and what is known where it fails: a crash has `char (`
before the end. One turn of the loop hangs the operands read under the operator
between them (`InfixReads`, `InfixSound`); all turns (`TurnsSound`) and all
nestings (`NestedSound`) follow by induction over numbers, as below for the
session, since the recursive functions of the model are data. The actions of `parse` hang trees
under the root behind those already there; that is the invariant `ParseInv`. It
speaks of what was hung under the root (`Hangs`), of which the root's array
remembers the part that was appended since it last grew (`Remembers`): an append
forgets either nothing or all there was (`GoneFacts`), since what an array of n
has room for is 0 or `FirstCapa` doubled until it is n or more (`CapaFacts`).

That binding powers hold is a statement about two tokens and the parentheses
between them. It is proved by what an operator can rely on that takes a tree as
its operand: the tree ends on the level of parentheses it began on, and if its
head is an operator on that level, then that binds at least as strongly as the
call was asked to, and the token behind the tree is too weak for it, or, if it
is a prefix operator, ends the expression (`Heads`, `Weak`; `Strong` says so for
every way to count levels that fits the tree, since which tokens are stepped over
is known only when the query is read). So the two comparisons at two levels of
recursion, `l_bp < min_bp` here and the power handed over there, come together in
`InfixBinds`: what is behind the left operand is the operator itself, and the
right operand was asked for with its power.

That the sentences of the grammar are accepted (`SentencesAreUnderstood`) is
proved of CREATE and INSERT with as many columns or values as there are tokens
for; `SentencesUnderstood` says word by word what a sentence is, and its length
decides how many elements it can have. Columns and values are both a list in
parentheses whose elements `Start` knows how to read (`AList`; `InsertList` and
`CreateList` show that they are). Two calls deep, the loop takes a comma and an
element a turn, since an element's own call, asked for with a comma's power,
stops before the next comma (`ElementCall`, `ListGrows`, `ListParsed`); the tree
leans to the left, and so deep must `preorder_tree` go to make a list of it again
(`ListItems`). The invariant `SentInv` says that a sentence has either not been
looked at or been read whole. It needs an array that has room for two children
at first (`FirstCapa >= 2`; 32 in the code), since `append` forgets the rest.

What the front end accepts (`NothingIsDropped`) is the invariant `FrontInv`: as
long as the parser has not been called, its variables are as they began; once it
has, the query is the tokens' words (`TokensAreQuery`), the invariants of the
parser hold of it, and the tokens stay.

### The stack machine

For every set of programs, every depth of the stack, and words of any width in
which objects and strings have addresses of their own (`WordsAssumption`,
`AddressAssumption`). Types are inductive by themselves: `StackMachineProofs` has a
lemma per instruction. That a program is a sequence of instructions is
`ProgramsAssumption`. The other theorems are action properties and follow from
the types, instruction by instruction; that IDIV truncates is arithmetic about a
quotient of absolute values and its sign, for any width.

### The engine

For every set of well-typed statements (`StatementsAssumption`) of any length,
ints of more than three bits, and every depth of the stack. The invariant `EInv`
says where each item's code lies in the program, as a function of the item's
index, as far as all items before it are well-formed (`Laid`); where the machine
is, by the number of items done and of instructions of the next, with what is on
the stack and in the heap by then (`Stage`, `Made`, `Opening`); that `col_def_arr` is
what the last CREATE left (`PointerInv`), and that each row done fits it
(`RowsInv`). A statement with an ill-formed item has the code of the items before
it, and never gets past it. That results stand needs that the arrays of a running
program are newer than those of all statements done (the last conjunct of `Made`).
TLC checked `EInv` on stacks of four and five words before it was proved.

### The session

For pages of any size, strings and columns of any length, and any statements.
Every step of the session is a step of the engine (`SessionIsEngine`), so the
engine's theorems hold of it. `SInv` adds the memory area: page numbers are places
in the buffer; a page carries its table's name, as many rows as were inserted
into it and as much free space as their layouts leave; no rows are filed for a
table without a page. Layouts do not change, because results stand. The page's
arithmetic is `RowOnPage`, `RoomIs` and `NoRoom`, down to the last byte, where
`freespacetr` wraps. `SInv` was checked on the instance of the run `Session`.

That the session implements `Tables` needs the bytes. `ReadInv` adds to `SInv`
that each page holds, at the place of each of its rows, the bytes of that row's
`Tuple` (`BytesInv`), and that statements done are well-formed (`DoneWell`). A new
row goes to the bytes before those of the rows already there and the pages of
other tables are left alone (`RowHeld`, `RowsHeld`, `RowKeepsBytes`), so `ReadInv`
is inductive (`BytesStay`). It was checked on the instance of the run `Session`
before it was proved.

What is read back is a matter of one row. Columns lie apart, so no column's own
copy is hit by that of a column before it except where a string is longer than
its column, and then the later copy wins (`ByteOfColumn`): a number, whose copy
fills its column, is read as written, and so is a string unless one at its place
or before it spills (`ReadBack`). A copy that ends early leaves zeros behind it,
which is why a string shorter than its column is told from one that fills it,
and empty strings are not told apart. The abstract state is then a function of
the log and the bytes (`ReadsTables`, `ReadsColumns`), each step of the session
that files a table or a row, or takes a SELECT, is that step of `Tables`, and
the compiler's and the machine's steps change nothing of it (`SessionReads`). A
step that leads astray is not in the log of `Tables`: `TablesImplemented` says that
up to there all is as promised.

The theorems on pages have the hypothesis `MaxStmts < HeaderMod`. `slotno` has 32
bits and wraps after 2^32 rows of one page; since a page has fewer bytes than
that, only rows of no bytes could get there (a table without columns, or with
columns of size 0).

Row offsets, room and lists of rows are recursive functions on `0 .. n`. The
library's induction theorems take operators as parameters, which the provers
cannot instantiate; the first lemmas of `SessionProofs` get around that for
these: induction is over a set of numbers (its complement has a least element),
and a recursion is given by its step, which is a function, that is, data
(`Induction`, `Recursion`, `SameRecursion`).

### What is model-checked only

* Liveness (`AppendCompletes`, `ForwardProgramsEnd`, `StatementsEnd`, `TextsEnd`):
  the prover has no ENABLED.
* `AsMeant` of `FrontEnd`: it is about particular texts, sentences spelled and
  spaced in every way; there is nothing in it to generalise from the constants.
  That what the tokenizer makes of a text is right in itself is proved
  (`NothingSkipped`, `FirstIsRight`), and that the parser accepts the sentences,
  as words, is, too.

The proofs led to a few changes of the model, none of them in what it says of
the code. `Stored` of `Tables` allows that an empty string reads as another one:
the proof of the refinement stopped there, and the instance now has two empty
strings. `Sums`, `RowsUpTo` and what rests on them are recursive functions;
`Entered` and `Create` of `Tables` are written out where they used operators of
`TLC`, which the prover knows nothing of; names of columns and texts of strings are
among `Strings`, where they had been any word; `TornInventsNothing` names the one
key whose pages may be zeros, or none. The parser's tree is a set of nodes and
its parsers recursive functions, where both had been RECURSIVE. `Precedence` was
false of longer queries than the run's, because a string `'('` after char is not a
parenthesis, but its partner behind the size is: the proof stopped there.
`SentencesUnderstood` says what a sentence of any length is and what each of its
nodes must be; it had named the few sentences the run has.

## Not modelled, and the plan

1. The parser's own allocations in the region, and the accessors of `array.c`.
2. `WordCount` (`main_hashtable`), which nothing calls: a client of `HashMap`.

The prompt of `main_sqlparser` runs the same text by text with a new region.
Left out for good: printing (`vm_dump_*`, `print_ast*`, `hashmap_print`),
constructors of instructions, the regular expressions themselves, the
playground, and `sql_exec_select` / `sql_exec_insert`, drafts that nothing
calls.
