# A formal model of loris_framework

TLA+ specifications of the parts of loris_framework whose correctness depends on
who does what in which order, model-checked with TLC, and theorems about them
checked with TLAPS. Paths are relative to the root of the repository's source tree.

## The system

loris_framework is a C process that loads *bundles* (shared objects) at run time.
A bundle offers one *module*, from which other code creates *instances* by an
interface identifier. The shell is a bundle; from it a user installs, starts, stops and
uninstalls other bundles and compiles and runs programs of a small language, in
threads that the thread-pool bundle provides. The containers underneath are lock-free.

| Component | Code | State | Operations |
|---|---|---|---|
| thread pool | `src/mod_thread_pool` (`thpool.c`) | job queue, binary semaphore, two counters, two process-wide flags | init, add_work, wait, destroy, pause, resume; the worker loop |
| module framework | `src/framework/private/src/mod_bundle.c`, `mod.c`, the `bundle_*` functions of every module | the services and their states, the id counter, registered modules with their instance lists and counters | install, start, stop, uninstall; register, unregister; create, delete, query an instance |
| ownership of instances | `mod_ownership.c`, `rsa.c` | token and signature inside each instance | create, verify, clear |
| lock-free list, hazard pointers | `std_lock_free_list.c`, `std_hazard_ptr.c` | marked `next` pointers, published pointers, retired nodes | add, find, delete, count, cleanup |
| lock-free key hash | `std_lock_free_key_hash.c` | buckets, each a list in the order of the keys' hashes, and a count | create, add, find, delete, destroy, walk, count |
| shell | `src/mod_shell`, `src/framework/private/src/main.c` | compile mutex, name of the current script, instance of the pool, flag of the exit, table of registered functions | compile, execute, thread_execute, script, exit, grace_exit, register, cmd_run, commands on bundles |
| virtual machine | `src/mod_lang_vm` | code, stack, frames, symbols, values with owners | link, run to the end, clean up; arrays, tuples, hashes; library functions |
| compiler | `src/mod_lang_compile` | the buffer of emitted texts, labels, the frame being laid out, the flag of an error | compile a definition or the commands, collect, reset |
| parser | `src/mod_lang_parse` | place in the text, flag of an error | read a text and hand each definition to the compiler |
| helpers, JSON, sample, generator | `std_safe.c`, `std_log.c`, `std_random.c`, tiny-json, `mod_helloworld`, `code_generator` | none of interest | |

How they interact: `main.c` installs and starts the compiler, parser, VM and shell
bundles and creates one instance of each; the shell calls the framework for the
commands on bundles, creates an instance of the thread pool to run a function, and
calls the compiler and the VM; the framework calls back into each bundle
(`bundle_create`, `bundle_start`, `bundle_stop`, `bundle_destroy`), which call the
framework in turn (`mod_register_instance_func`, `mod_bundle_IID_register`); the
framework keeps its services and instances in the lock-free containers.

What is hard, by component, and what makes the component correct:

* **Thread pool.** Threads under three mutexes, two condition variables and two
  variables read outside of any. A semaphore that holds one post stands for a queue
  of any length. Correct when no job is left in the queue with every worker asleep,
  each job runs once and in order, `thpool_wait` covers what was added before it and
  returns, and `thpool_destroy` loses nothing, ends and frees nothing still in use.
* **Module framework.** Commands and instance operations run in different threads and
  are long sequences of look-ups and updates without a lock: test-then-act on the
  number of instances, partial failures that nobody looks at, state kept in a static
  variable of a shared object. Correct when the state of a bundle, the registered
  modules, the IIDs and the instances agree, so that a bundle can always be started
  again, no instance outlives its module, and only the owner of an instance deletes it.
* **Lock-free list and hash.** Every CAS may fail, nodes are unlinked by others than
  those who marked them, and memory is freed when nobody has published it. Correct
  when they implement an atomic set, nobody reads freed memory and operations end.
* **Shell.** A mutex over compilation with early returns, a buffer of emitted code that
  every execution, in the console or in a job, collects and frees without that mutex, and a
  command that waits for the pool it may run in. Correct when an execution runs its script
  and not what another command compiled, nothing is collected twice, a job that was added
  ends, `grace_exit` leaves no job behind, and every command comes back to the prompt.
* **VM.** Fixed stack, locals below the operands, values that are signed, moved or copied
  between variables, containers and parameters. Correct when each text has one owner, none is
  used after it was freed, none is left over, and operands stay off the locals.
* **Compiler and parser.** Precedence, frames, labels of nested loops, the clean-up code of
  each way out of a block. Correct when the code does what the text says.

## Modules

| Module | What it is |
|---|---|
| `ThreadPool` | `thpool.c` and the use `bundle_stop` makes of it |
| `JobPool` | what `thpool.h` promises; `ThreadPool` implements it |
| `ThreadPoolProofs` | theorems about `ThreadPool` for any number of workers and jobs |
| `ModBundle` | `mod_bundle.c`, `mod.c`, their use of `mod_ownership.c`, and `bundle_*` |
| `ModBundleProofs` | theorems about `ModBundle` for any threads, bundles and handles: creation and deletion of instances |
| `ModBundleStopProofs` | the same: what a stop finds, the refinement, the states of bundles |
| `ServiceRegistry` | what users of `mod_create_instance` see; `ModBundle` implements it |
| `LockFreeList` | `std_lock_free_list.c` and `std_hazard_ptr.c` |
| `LockFreeListProofs` | theorems about `LockFreeList` for any threads, keys and nodes: nothing freed is touched |
| `LockFreeListSetProofs` | the same: the list is an atomic set |
| `KeySet` | what callers of the list expect, an atomic set; `LockFreeList` implements it |
| `KeyHash` | `std_lock_free_key_hash.c`; `list_add` and `list_del` are one step each |
| `KeyHashProofs` | theorems about `KeyHash` for any threads, keys, values and nodes |
| `KeyMap` | what callers of the hash expect, an atomic map; `KeyHash` implements it |
| `Parser` | `lang_parse.c` and the classes of words of `lang_lex.c` |
| `Compiler` | `ast_compile.c`, with `lang_ast.c` |
| `CompileFile` | one text through `Parser` and `Compiler` |
| `OwnedValues` | boxed values, the heap and the tokens of ownership (`virtual_machine_object.c`) |
| `Variables` | the four kinds of variables: `virtual_machine_safe_var.c`, `*_type.c` |
| `VirtualMachine` | the linker (`virtual_machine_READ.c`), one action per opcode (`virtual_machine_EXEC.c`), the library functions |
| `CodeShape` | the shape of the code the compiler writes, which the machine relies on: what each opcode takes and pushes |
| `Script` | a machine that runs the code of one text, and the properties of whole programs |
| `ScriptProofs` | theorems about `Script` for any code of that shape: operands, locals and saved places stay apart, and loops keep the stack |
| `ScriptText` | gives `Script` the modules `CompileFile` and `Variables`; texts from lines of words |
| `LongFolds` | a fold for sequences as long as programs, in blocks and without recursion |
| `Shell` | the console, its commands and the jobs it adds; its pool is `JobPool` |
| `ShellProofs` | theorems about `Shell` for any scripts, jobs, number of commands and user |
| `MCThreadPool`, `MCModBundle`, `MCLockFreeList`, `MCKeyHash`, `MCPrograms`, `MCValues`, `MCShell` | the values of the constants for TLC |

The composition: `ThreadPool` implements `JobPool`, and `Shell` is built on `JobPool`;
`ModBundle` implements `ServiceRegistry`; `LockFreeList` implements `KeySet`, and `KeyHash`,
whose buckets are such lists, implements `KeyMap`;
`CompileFile` is built on `Parser` and `Compiler`, `VirtualMachine` on `Variables`, and `Script`
on both and on `CodeShape`.

### ThreadPool

A step is a region under one mutex, or an access of a volatile outside of one.
`jobqueue_push` and `jobqueue_pull` change the queue under `rwmutex` and then post the
semaphore, which has a mutex of its own, still holding `rwmutex`: two steps each.
`thpool_wait` reads the queue's length and then `num_threads_working` under
`thcount_lock`, and the queue can change in between: two steps.

| Variable | Code |
|---|---|
| `pool` | the life of the `thpool_` structure |
| `keepalive`, `alive`, `working`, `thcount` | `threads_keepalive`, `num_threads_alive`, `num_threads_working`, holder of `thcount_lock` |
| `queue`, `rwmutex`, `has_jobs` | `jobqueue` from front to rear, its mutex, `has_jobs->v` |
| `wpc`, `wjob` | position and `job_p` of each worker in `thread_do` |
| `cpc`, `due` | position of each client in `thpool_wait`; what had been added when it called |
| `submitted`, `done` | history: jobs added, jobs whose function returned |

A worker in `thread_do` goes `ThreadAlive`, then round `LoopTest`, `bsem_wait`,
`Recheck`, `BeginWork`, `jobqueue_pull` (and `Repost`) or `PullNothing`, `RunJob`,
`EndWork`, and out by `Exit`, `ExitUnlock`. `pthread_cond_signal` wakes any one of the
blocked threads, spurious wakeups are actions of their own, and a woken thread tests its
condition again. A job is added by whoever calls `thpool_add_work`, at any time the
pool is ready, and is named like its caller. `BeginDestroy` stands for the call in
`bundle_stop`, right after its `thpool_wait`: by then the framework has found no
instance through which a job could be added. A pool can be made again after it was
freed, as a bundle can be started again.

`TypeOK` bounds the counters by the number of workers (theorem `TypeCorrect`). The safety properties are
`NoStrandedJob`, `WaitCoversDue` and `StopLosesNothing`, the liveness properties
`WaitReturns`, `DestroyEnds` and `ImplementsJobPool` (its fairness part says that
every job added is started and finished).

### ModBundle

A step ends where another thread can see or disturb what comes next: a look-up in the
hash, an access of a state, of a list or of a counter. The containers are atomic in this
module.

| Variable | Code |
|---|---|
| `global_id`, `srv` | `global_id`, the `mod_srv_t` of each id; `installed`: it is in `gp_mod_bundle_id_hash` |
| `service_id` | `bundle_service_id`, a static variable of each shared object |
| `registered`, `list`, `instance_counts` | the `mod_head_t` in `gp_mod_hash`, their lists and counters |
| `p_handle`, `heap`, `token`, `given` | the handle of each node, allocated handles, whose signature each carries, handles that callers hold |
| `dangling` | threads inside `mod.c` whose `p_head` has been freed |
| `th` | position and local variables of each thread |
| `broken` | history: the rules that were broken |

Admins install, uninstall, start (`StartCheck` to `Activate`) and stop (`StopCheck` to
`Stopped`); users create (`CreateFind` to `CreateCount`) and delete (`DeleteFind` to
`DeleteUncount`). A `bundle_start` that fails leaves the state `START_FAILED` with
whatever it had registered; the shell's only logs a failed registration (`Lenient`); the
thread pool's refuses an empty argument (`NeedsArg`). A user deletes a handle it was
given, as any owner. A signature is abstracted to the owner whose key made it.

Nothing in the code sees to the following rules. A step that breaks one is a step like any
other, and `broken` records it. The theorems say
`Clean(rules) => ...`: what holds in any behaviour until one of these rules has been broken.
A run keeps the rules in its constant `Kept`, which disables the steps that break them:
`bundle_safety` keeps all five, `bundle_race` all but `calmStops`.

* `calmStops`: no instance is being created while its bundle is being stopped. `bundle_race`
  shows what happens otherwise.
* `installOnce`: a bundle that is installed is not installed again. Without it
  (two bundles, three ids) `IIDRegisterFindsService` fails: install, install, uninstall the
  second, start the first, and its `bundle_start` registers its IID with service 0.
* `freshAddresses`: the allocator does not hand out an address while its old node is
  still in a list. Without it `StopFindsNoInstance` fails: the handle is freed before its
  node leaves the list, a new instance at the same address is found by its old node, which
  is deleted twice while the new node stays; the counter reads 0 and the list is not empty.
* `oneDeletion`: two callers do not delete the same handle at once. Without it
  `OwnerFreesLiveHandle` fails: both find the node, both verify the signature (`mod.c:192`), and
  both free the handle.
* `oneAdmin`: one command on bundles is run at a time. Without it (two admins)
  `RegistryMatchesState` fails: both pass the test of the state, and the one that comes second
  fails to register and sets `START_FAILED` over the other's `ACTIVE`.

### LockFreeList

A step is one access of shared memory. Stores of hazard pointers go into a buffer of
their thread, and `Flush` is the moment the oldest of them is seen by the others; a CAS
waits until the buffer is empty.

| Variable | Code |
|---|---|
| `next`, `marked`, `key` | the `next` pointers, split into address and mark, and the keys of the nodes |
| `alloc` | nodes that are allocated; `Free` is the `free` in `std_hazard_gc` |
| `hp`, `late` | slots 0 to 2 of each thread in `hazard_array`; stores of them under way |
| `retired` | `hazard_free_list` of each thread |
| `th` | position and local variables of each thread in `add`, `del`, `find` and `inline_find` |
| `seen` | history: whether the key of a call was in the list during the call |
| `broken` | history: the rules that were broken |

`FindStart` to `Advance` are `inline_find`; `AddLink` and `AddCAS`, `DelMark` and
`DelUnlink` what follows it in `add` and `del`; `Conflict`, `NoConflict`, `Free` and `GcDone`
are `std_hazard_gc` with `hazard_conflict`, one slot per step. The branch of `inline_find`
that unlinks a marked node has no action: `next` is stripped of its mark before the
mark is tested for (lines 345 and 346), and a node with a mark fails the test of line 350.

Two things go well by chance only. A step in which one of them does not is an action like
any other, and `broken` records it; `Clean` says that there was none so far. `Kept`, as in
`ModBundle`, names the rules that a run keeps: `list_safety` both, `list_livelock` the first.

* `loadsWait`: a load waits until the hazard pointers its thread has stored before have been
  seen, which x86 does not do without a fence. Without it (one updater, one finder)
  `NoFreedAccess` fails: a finder's store is still in its buffer while it validates the
  pointer; a deletion unlinks the node, finds no hazard pointer to it and frees it.
* `freshEntry`: an add that loses its CAS and starts over still has NULL in its entry's `next`.
  Without it (one adder, one deleter) `NoFreedAccess` fails: an add finds its place before node
  B; B is deleted; the CAS of the add fails and it searches again. Its `next` still leads
  to B, and if its place is now the end of the list, the second CAS links B in once more.
  `std_hazard_gc` frees B later. With two adders, three keys and three nodes the same lines (84 to
  90) turn the list into a ring, and `WellFormed` fails.

`KeySet` says that an addition or deletion that succeeds takes effect at one moment of
its call, and that every other answer was true at some moment of the call. The moments
are the CAS in `add` and the mark in `del`. The safety properties are `NoFreedAccess`,
`WellFormed`, `RetiredOnce` and `ImplementsKeySet`; the liveness property is `LockFree`.

### KeyHash

A bucket is a list of `LockFreeList`, and what `list_add` and `list_del` do to it is one step
each, since the list does what an atomic set does (`ListImplementsKeySet`). But `add`, `find` and
`del` of the hash first walk along the `next` pointers themselves, with one hazard pointer, no
second look at the pointer they came by, and no regard for marks. A step is one access of
what other threads may change. Keys stand for their XXH64.

| Variable | Code |
|---|---|
| `ready` | buckets whose `hazard_head` is set |
| `listed`, `left` | nodes in the list of their bucket; where a node leads that has left its list |
| `key`, `value`, `alloc`, `retired` | `u64_key` and `value` of each node, allocated nodes, `hazard_free_list` of each thread |
| `hp` | hazard pointer 0 of each thread |
| `total_count`, `destroyed` | the counter; whether `destroy` was called |
| `pc`, `call`, `arg`, `new`, `answer`, `cur`, `pos`, `entry` | place, parameters, result and locals of each thread |
| `seen`, `met` | history: the values its key has had, the nodes its bucket has listed, during the call |
| `robbed`, `twoWriters` | history: calls under which a node was freed that is in their `met`; whether there were two writers in a bucket at once |

`TestHead`, `InitNext` and `InitHead` are the first use of a bucket, `IsEmpty` to `Step` the walk (a
`del` reads `pos->next` before it compares: `ReadAhead`), `ReadValue`, `StoreValue`, `Remove` to
`CountDown` and `MakeEntry` to `Insert` the four ends of a call. `Collect` is the `std_hazard_gc`
that `list_del` ends with. `Destroy` is all of `destroy`, whose callers see to it that nobody uses
the hash.

`std_hazard_gc` runs in the middle of other calls, as in the code, and frees nodes under their
walks: the hazard pointer of a walk is set after the pointer to the node was read (`:170`) and is
never validated, and a walk that stands on a deleted node goes on to a node that may have been
freed. `robbed` records the calls that this can harm, those whose bucket has listed a freed
node since they began. The properties say that the harm ends there: only a robbed find reads
freed memory (`NoFreedAccess`), only its own answer may be wrong (`RobbedAnswer` in
`ImplementsKeyMap`), and no add or del is ever robbed.

Two writers in a bucket are possible too: `twoWriters` records that there were, and the theorems
say what holds until then. So it is with the hashes of the framework as long as one admin gives the
commands; it is not so for the bodies that `cmd_execute` stores from several jobs. `OneWriter` is a
bound of `hash_safety`, which disables a second writer. With `FALSE`
`NoFreedAccess`, `NoNodeLost` and `CountFits` fail: two first
adds both find `hazard_head` unset, and the second `std_lock_free_list_init` empties the list the
first has added to; two adds of a key both find it missing, both count it, and
`list_add` refuses one of the nodes, which nobody frees; a del is robbed by another.

Finds that overlap with writers, in any number, are left in: a find walks over nodes that are
deleted, freed and added meanwhile. `KeyMap` says that an addition or a deletion takes effect
at one moment of its call and that any other answer was true at some moment of the call. The
safety properties are `NoFreedAccess`, `NoNodeLost`, `CountFits` and `ImplementsKeyMap`.

### Parser, Compiler, CompileFile

Functions from data to data, no state. A parser is a record of the words that are left, the
tree read so far and the flag of an error; each production of the grammar is an
operator, with the limits and the recoveries of the code (`lang_lex_error`,
`lang_expect`). A text is a sequence of words: how the lexer cuts it is not modelled.
`statements()` loops for ever when no closing brace follows (`lang_parse.c:754`): it raises no
error and does not return. `MoreStatements` marks such a text as endless, `compile_file_body`
says that its compilation does not end, and `Script` then never gets a machine: it stays in status
`"compiling"`, and `Terminates` fails for it. The texts of the runs close their blocks.
The compiler is a record of the emitted code, the locals of the frame, the counter of labels
and the stack of loops; each `compile_*` function is an operator. A line of code is a
triple of an opcode and two operands, where the program prints and reads text.

### OwnedValues, Variables, VirtualMachine, CodeShape, Script

The heap is a record `m`: objects with the key that signed them, symbols with their
key, and `fault`, the accesses that went wrong so far. A function of the source that
changes the heap is an operator from heap to heap, with the frees, copies, signings and
early returns in the order of the code. A freed object is never allocated again, so that
every later access is seen. A number is an integer; `Junk` and `NullNumber` stand for the
bits of a pointer and of null read as a number, where the code reads them so.

`VirtualMachine` has the linked code, the stack with `Sp`, `Fp` and `Pc`, and one action
per group of opcodes. It takes the variables (`ReadVar`, `WriteVar`, ...) as operator
constants, to which the cfg gives the definitions of `Variables`, because the
machine relies on what they do and not on how; `Script` takes the compiler likewise. Library
functions of the shell are left out; the generator of random values, `cmd_create_instance` and
the JSON reader are constants.

| Variable | Code |
|---|---|
| `Codes`, `Stack`, `Sp`, `Fp`, `Pc` | the fields of `virtual_machine_t` of the same names |
| `mem` | the heap: objects, symbols, keys |
| `status` | where `mod_lang_vm_run_init`, `execute_code` and the clean-up are |
| `out`, `expected` | history: what `print` has shown; what the text says it should |

Operands, locals, arguments, the line to return to and the frame of the caller share one
array, and the opcodes write where the code tells them to. The machine tests none of it; that it
goes well is an agreement with the compiler, which `CodeShape` writes down. Each line has a
height, the number of values that the code before it has pushed and not taken
(`Heights` adds up `Nets` from the start of each statement); `CodeFits` says that a line finds
what it takes, that both ways to a line give it the same height, that a jump goes to the start of a
statement of its function, that a call has its arguments on the stack, and that a function writes to
no more arguments and locals than it has. It is a property of the code alone; `ShapeIsKept` states it
of the code of each program. What the shape cannot say is what a variable holds: an operation on
elements that finds a variable of another kind gives up before it takes its operands.
`ItemsFit` says that a program asks for none of these.

### Shell

A step is an access of what the console and the jobs share: the buffer of emitted code,
the code of each name, the pool, the modules. A script is a name with its lines of imports; of
its code only its place in the buffer and whether it has a main matter, of its effects only
`exit` and `grace_exit`.

An import is compiled where its line stands, by the `compile_file_body` that compiles the
script, so in front of it, and it may have a main: `files/script/test_all.nl` imports
`test_array.nl`, and `leetcode/20_valid_parentness.nl` imports `lib/hash_to_stack.nl`, which both
have one. The linker takes the first. `compile_file_body` never fails: `mod_lang_parse_parse` returns
0 whatever it meets, so a text with an error is compiled up to it (`Mains` are the scripts whose
main is emitted before any error of the parser), and what the compiler itself finds (`Bad`)
clears a flag that nothing sets again. Only a file that cannot be read is an error: as an import it
drops the rest of its line (`shell.c:356`), as the script it ends the command. Scripts that
import one another in a circle are left out (the code follows them until its stack is gone).

| Variable | Code |
|---|---|
| `pending`, `running`, `finished` | the state of `JobPool` |
| `global_compile_mutex`, `p_mod_thread_pool`, `global_exit` | the static variables of `shell.c` |
| `gen_buffer`, `parse_no_error` | the compiler's static variables (`ast_compile.c`) |
| `compiled_body` | the code collected for each name, which `cmd_execute` clears and fills |
| `pc`, `name`, `asked`, `index`, `code` | position and locals of the console and of each job in `cmd_execute` |
| `files`, `kind`, `jobs` | locals of the console's commands; `files` holds the lines of files still to read or compile |
| `fault`, `rushed` | history: freed texts and deleted modules that were used; collections that met another one, an exit that met jobs |
| `modules` | what `main` has deleted and unloaded |

The console goes `LoopTest`, a command, then `Lock`, `ReadFile` and `CompileText` for each
file, `Unlock` for a compilation and `FindBody` to `Cleanup` for an execution; a job goes `FindBody` to `Cleanup`.
`global_compile_mutex` is a semaphore of one post: a return that does not post it leaves it
taken for good. It guards compilation, which only the console does; the buffer it fills is
collected outside it.

`RunsFirstMain` compares what a thread runs with `FirstMain`, the first main among a script and its
imports, computed from the constants alone. It speaks of scripts that could be read and of the time
before the first error. What `help()` says, that a name runs the script of that name
(`RunsItsScript`), is not so: an import's main comes first, and, without imports, what was compiled
before (`shell_help`).

`Patient` says what the user of the run `shell` is taken to do; nothing in the code makes a user
do so. A patient user lets nothing be compiled before what was compiled is collected by an execution
that has linked its code, executes the script compiled last, adds one job at a time, and exits when
the jobs are done. An impatient one meets, within three commands: `execute` of the second of
two compiled scripts runs the first; the second job of `thread_execute(2, ...)` finds an empty
buffer and runs nothing; two executions at once read texts that the other has freed; a
compilation between them adds its code to the wrong script; `exit` while jobs run lets them use
modules that `main` has unloaded. A job that calls `grace_exit` waits for itself
(`GraceExitInJobHangs`). The theorems are about any user; `FaultsHaveTheirCause` says which of
these events a fault needs.

## Runs

| Run | Instance | What it shows |
|---|---|---|
| `pool` | 3 workers, 1 client, 2 jobs, fairness | the safety properties of the pool; `thpool_wait` returns, `thpool_destroy` ends, `JobPool` is implemented |
| `pool_freed` | 2 workers, 1 job | violated: `FreedMeansGone` |
| `bundle_safety` | 2 bundles, 1 admin, 2 users, 2 owners, 2 handles, 3 nodes, 3 ids; all rules kept | the registry, the services and the instances agree; `ServiceRegistry` is implemented |
| `bundle_race` | 1 bundle, `calmStops` not kept | violated: `StopFindsNoInstance` |
| `list_safety` | 2 threads that find, add and delete; 2 keys, 2 nodes; both rules kept | the list is an atomic set, stays sorted, and no freed node is used |
| `list_livelock` | 2 threads that find and delete, one of them also adds; `loadsWait` kept; fairness | violated: `LockFree` |
| `hash_safety` | 2 threads, 2 keys in one bucket and 1 in another, 2 values, 2 nodes, one writer in a bucket | the hash is an atomic map, loses no node, counts right, and only a find under which a node was freed reads freed memory or answers wrongly |
| `programs` | the scripts of `files/script` cut to a case each, 5 texts that are refused, all pairs of 11 operators, 18 nested loops | each program prints what it should, ends, returns behind its calls and keeps its stack; its code fits `CodeShape` and its operations their variables |
| `values` | all sequences of 2 of 23 statements that move texts | one owner per text, no use after free, no leak |
| `itself` | `a[0] = a[0]` | violated: `NoFault` |
| `shell` | 5 scripts (with imports that have mains, have errors or are not there), 2 jobs, 5 commands, a patient user, fairness | an execution runs the first main of its script and imports, `grace_exit` leaves no job, commands and jobs end |
| `shell_help` | 3 scripts without imports, any user | violated: `RunsItsScript` |

Bounds. Two jobs are the least with which two posts are lost in one and a job is left
behind a pull; with three workers, one is blocked and another on its way while the third
reposts. The theorems make the number of workers and jobs irrelevant for safety. The set of clients is the one
caller of `thpool_wait` there is. In `ModBundle`, two users are needed for a deletion
to meet a creation, the third id lets a bundle be installed again while the other one
is still there, the third node lets a creation run while two old nodes are being unlinked.
Two nodes are the least with which a node is linked behind another one that is being
deleted, one thread retires two nodes while the other has published one of them, and
a freed node is used for a new entry while a stale pointer to its old life is around; keys 1
and 2 put a node before and behind another. Nodes are interchangeable, so `list_safety`
identifies states that differ by a permutation of them. In `hash_safety`, two keys in one bucket
are the least with which a find stands on one node while it is deleted and freed and
a key behind it is still to be found; the key in the other bucket lets two writers work at once, and with two
nodes a freed node comes back as the node of another key, or in the other bucket, under a find.
Threads, nodes and
values are interchangeable there.

`programs` runs every opcode and every library function but those of `shell_lib.c` at least once. The expected lines of the families are
computed from the meaning of the operators (`Meaning`, `Strength`), not by the parser. Two
operators are enough for every question of precedence and of the order of operands, two nested
loops with a break at each place for the labels. `MAX_STACK` is 60, a little more than
the programs need, so that a statement that leaves a value behind in a loop is also seen as
`LoopsKeepTheStack` fails. In `values`, each text moves at most three times in a body of two
statements: in, between, and at the end of `main`. `Moving` leaves out what is known to go
wrong: an element set from itself (`itself`), from its own array's alias, an in-place operator
on a text (`x += 1` loses the text), a tuple's element that is read without a copy when it is
a boxed number. Five commands are two compilations with their executions and an exit;
the script `all` imports one that is not there and behind it `test`, which is then left out, and
`nested`, which has no main, imports `all` and `test`; two jobs overlap with each other and with the console.

The runs check `TypeOK` of `Script`, which is no theorem, and of `Shell`, where it relates the pool to
its threads. That of `ThreadPool`, `ModBundle`, `LockFreeList` and `KeyHash` is left to the theorems, which
have it for all values of the constants.

Deadlock is checked for the pool and the list, and not for the others: a destroyed hash is
not used again, bundle ids run out (`MaxId`), programs end, and the shell's user stops (`MaxCommands`).

The violated properties are what the code or its documents say of it:

* `pool_freed`: the last worker lowers `num_threads_alive` and then unlocks
  `thcount_lock`; `thpool_destroy` polls the counter without that lock and frees both.
* `bundle_race`: `mod_bundle_cmd_stop` tests the number of instances, and a creation that
  has looked up the module already, or does so before it is unregistered, adds one
  afterwards. The assertions of `mod_unregister_instance_func` then fail, `bundle_stop`
  returns early and the bundle is reported as installed, with its module still registered.
* `list_livelock`: two deletions of neighbours. The second marks its node, the first takes
  out the node before it, so the second cannot unlink, searches again to let `inline_find`
  do it, and `inline_find` starts over at each marked node, for ever. An add in front of the
  marked node has the same effect.
* `itself`: `set_VAR_with_array_type` frees the element that is there and then reads the
  value it is to store, which is the same text.
* `shell_help`: `cmd_execute` takes a name and collects everything that was compiled, whatever
  its name; the first main function of it is run. In the trace that TLC finds, a script is
  compiled and then a command is typed that the shell compiles and executes itself.

## Fairness

Workers are threads: each takes the steps it can (weak fairness of `Worker(w)`), as
do a thread inside `jobqueue_push`, a client inside `thpool_wait` and the loop of
`thpool_destroy`. A thread that finds `thcount_lock` free again and again gets it in the
end (strong fairness of the steps that take it): without that, two workers that keep
taking the lock could starve a third, which a pthread mutex does not exclude by its
letter but every scheduler does in practice. Nobody has to add a job, to wait or to
destroy, job functions return, and no spurious wakeup is relied on. `ModBundle` and `KeyHash`
state no fairness, as their properties are safety properties. In `LockFreeList` each thread takes the
steps it can and each store is seen in the end (weak fairness of `Step(t)` and `Flush(t)`);
`LockFree` fails even so. A `Script` is one thread that nothing holds up (weak fairness of
`Next`). In `Shell` the console's own steps, the pool's start of a job (which `JobPool` promises,
and `pool` checks) and the steps of each thread in `cmd_execute` are weakly fair; no
command ever has to be given. `CommandReturns` is stated for sessions in which no command
names a script that is not there: after one, the mutex stays taken and the next
compilation never returns.

## Proofs

`ThreadPoolProofs` assumes of the constants what `ThreadPoolAssumption` says: finitely
many workers, and names that differ. It proves `SafeSpec => []IInv`, and from it:

* `TypeCorrect`: `TypeOK` always holds;
* `NoJobStranded`: `NoStrandedJob` always holds;
* `WaitIsCovering`: `WaitCoversDue` always holds;
* `StopIsLossless`: `StopLosesNothing` always holds;
* `RefinesJobPool`: the pool implements the safety part of `JobPool`.

None of these is inductive as it stands. `IInv` adds

* `CountsMatch`: each counter is the number of workers at the places where it counts
  them. It gives `TypeOK` its bounds and says that `working = 0` means no worker holds
  a job or is about to pull one.
* `JobsMatch`: a job that was added is in exactly one of the queue, the hands of one
  worker, and `done`, and the queue repeats none.
* `PoolPhase`: while the pool is ready every worker is in its loop and the flag is set,
  so a worker that is not blocked on the semaphore will come to it.
* `DueMatch`: a client that has found the queue empty waits only for jobs that workers
  hold already, so a counter of 0 settles it.

One lemma per part shows that each action preserves it. `NoStrandedJob` is the one that
needs an argument: the posts that are lost are those that find the semaphore up, and then
some worker that is not blocked has yet to take it; a worker that takes it is on its way to
the queue until it pulls; and a pull that leaves jobs behind posts again before it gives
`rwmutex` back. For the refinement, a pull is `Start` (a worker without a job means
that fewer jobs run than there are workers, by counting), the return of a job's function is
`Finish`, a push is `Add`, and every other step leaves the state of `JobPool` alone.

`ShellProofs` assumes `ShellConstants`: scripts with any imports, any set of jobs, any size of
the pool, any number of commands; `Patient` may be either, so the theorems are about any user. It
proves `Spec => []AnyUser`, and from it:

* `TypeCorrect`: `TypeOK` always holds;
* `GraceExitLeavesNoJob`: `LeavesNoJobBehind` always holds;
* `GraceExitInJobHangs`: a job that has called `grace_exit` stays in the call for ever,
  since the stop of the pool's bundle waits for all jobs and the job is one of them. In the
  model a job comes there when, for an impatient user, it collects what was typed at the
  prompt; in the code a script with the call in it does the same.

`LeavesNoJobBehind` is not inductive: the queue could be refilled after the stop. `Stopped`
says that the shell has then only its way out left: `cmd_grace_exit` sets
`global_exit`, and who gets past the wait is the console, since a job waits for itself.
`JobsRun` makes a job whose thread executes one that the pool counts; `Distinct` keeps
`TakeJob` from starting a job that runs or is done; `FewRun` bounds the jobs by the threads.
`Free(b, i)` and its lemmas say what collecting one text does to the buffer.

`FaultsAreExplained` says what `NoFault` depends on. Two executions may collect at once and `main` may
leave during a job, and then freed texts and deleted modules are used. `rushed` records
these two events, and the theorem says that a fault of each kind comes after its event: nothing
else that a user, a script or the pool does leads to one. `OneCollects` is the argument for the
texts: a text in the buffer that was freed lies behind the place of the one thread that collects,
and is gone when it is done. `JobsFirst` is the one for the modules: when `main` has left the loop and
all jobs are done, no thread executes (`NobodyLeft`), and `Leaving` lets none start.

`ModBundleProofs` and `ModBundleStopProofs` assume `ModBundleAssumption`: any sets of
threads, bundles, owners, handles and nodes, any dependences, any bound on the ids, any `Kept`, so
also the environment that keeps no rule. Each theorem is about every behaviour, up to the moment at
which one of the rules it depends on is broken for the first time:

| Theorem | Property | holds until one of these is broken |
|---|---|---|
| `OwnersFreeLiveHandles` | `OwnerFreesLiveHandle` | `oneDeletion` |
| `TypeCorrect` | `TypeOK` | `oneDeletion`, `oneAdmin`, `freshAddresses` |
| `StopsFindNoInstance` | `StopFindsNoInstance` | these three, `calmStops` |
| `NoHeadDangles` | `NoDanglingHead` | the same four |
| `HandlesHaveTheirNodes` | `EveryHandleHasItsNode` | the same four |
| `FrameworkImplementsRegistry` | `ImplementsServiceRegistry` | all five (stated in the property) |
| `IIDRegisterAlwaysFinds` | `IIDRegisterFindsService` | `oneDeletion`, `oneAdmin`, `installOnce` |
| `RegistryAlwaysMatches` | `RegistryMatchesState` | all five |

Read the other way round, each theorem is a complete list of what can make its property
fail: an instance that survives a stop, say, always has one of four causes. What they look like is
described under `ModBundle` above. What is not in a row may happen: `IIDRegisterAlwaysFinds` does
not mind instances created during a stop, and `TypeCorrect` bounds the counters while a stop
races with creations.

The inductive invariant is built in layers, each inductive relative to those below it:

* `AnyUse`: types, what the place of a thread says of its local variables (`Locals`), and
  who has which handle (`HandlesHeld`): a handle in the hands of a creation is given to nobody
  yet, one in those of a deletion carries the verified signature, and no two threads have the
  same. It holds until two deletions of one handle overlap, whatever else races, so what `mod_ownership_verify` has seen is still there when
  the instance is freed.
* `OneUser`: a handle is in one node and a node in one list (`OneNode`); what a deletion has
  found is still there, or was freed and is about to leave (`NodesHeld`, `Listed`); what is not
  registered is empty (`Withdrawn`); and `instance_counts` is the number of nodes in the
  list, without those about to be counted and with those about to be uncounted
  (`CountsMatch`). `TypeOK` needs it: without `CountsMatch` nothing keeps a counter above zero.
  It does not need `calmStops`, with threads that dangle left out, so it says what remains
  true when a stop races.
* `QuietStop`: from the test of a stop to the freeing of the head nobody is inside (`Quiet`).
  `StopCheckFinds` is the heart of it: the counter reads 0, by `CountsMatch` no node is
  counted, so each node in the list belongs to a creation that is about to count it; there is
  none by `calmStops`, so the list is empty, nobody is about to uncount, and a deletion at any
  earlier place would have a node in the list. `FreeHead` then catches nobody.
* `Services`: a bundle has at most one service, and `bundle_service_id` is its id.
* `StateInv`: `Progress` says at each place of a start or a stop whether the head is in the hash
  and whether the service has its IID; `Unregister` takes its way out with an instance left
  never, by `Quiet`, and so no command ends half done.

For the refinement, `RegisterAdd` is `Offer`, `HashDel` is `Withdraw` (its bundle has no
instance, by `Quiet`), `CreateAdd` is `Create` (its handle is in no list, by `Listed`),
`DeleteUnlink` is `Delete` (no second node holds the handle, by `OneNode`), and every other step
leaves the state of `ServiceRegistry` alone. `AnyUse`, `OneUser`, `QuietStop` and `StateInv` were
first checked by TLC on the instance of `bundle_safety`, and the first two on that of `bundle_race`.

`LockFreeListProofs` and `LockFreeListSetProofs` assume `LockFreeListAssumption`: any number of
threads that `hazard_array` has room for (`HAZARD_MAX_THREAD`), any of them adders and deleters, any
keys, any finite set of nodes, any `Kept`. Calls may meet each other anywhere in the list. The
theorems are about every behaviour up to the first load that overtakes a store of a hazard
pointer or the first add that starts over with a `next` in its entry (`Clean => ...`), and so say that nothing
else can make their properties fail; under `LockFreeList` above it is said how these two do.
They prove `SafeSpec => [](Clean => SafeInv)`, and from it:

* `TypesHold`: `TypeOK` holds while `Clean`;
* `NobodyTouchesFreed`: `NoFreedAccess` holds while `Clean`;
* `ListIsWellFormed`: `WellFormed` holds while `Clean`;
* `RetiredOnceHolds`: `RetiredOnce` holds while `Clean`;
* `ListImplementsKeySet`: `SafeSpec => ImplementsKeySet`.

`SafeInv` puts the nodes that are allocated into three sets: `Pending` (the entry of an add under
way), `Listed` and `Retired`. Its parts say:

* `Shape`: the listed nodes hang one behind the other, from `head` on, in the order of
  their keys. It speaks of neighbours only; that what a walk meets (`Reachable`) is `Listed` is a
  lemma, which takes the node with the least key that a walk could miss.
* `Memory`, `EntryOK`, `EntriesApart`, `Unlinkers`: a node is marked before it is retired and
  retired once; an entry is its caller's own, with a next pointer that is NULL but at the CAS;
  one thread only is about to take a given node out.
* `Walk`, with `PrevSafe` and `CurSafe`: `prev` and `cur` are `Safe`. A hazard pointer that was set
  after the node was retired is worth nothing, so `Safe` relates it to those who scan: each
  thread that is about to free the node has yet to come to that pointer (`Guards`). A node becomes
  safe where the code reads the pointer to it for the second time and finds no mark, since
  then it is in the list and nobody scans for it. `Advance` publishes it in the next slot
  before its old one is written again, and upwards, the way `hazard_conflict` goes: a
  scan that has passed the new slot has passed the old one before, which held the node.
* `Buffer`: which stores are still under way, and so which slot protects `cur` and `prev`.

TLC agrees with `SafeInv` and `SeeInv` on the instance of `list_safety`. `SeeInv` is what the
refinement needs beyond `SafeInv`: a call that decides at `Compare` has seen its answer be true.
The CAS of an add is `Add`: `prev` is listed, not marked and leads to `cur`, so by
`NoKeyBetween` the key is not there. The mark is `Delete`. That a key was found was the truth at
`CheckNext`, when `cur` led to its next node without a mark; that it was not found is the truth
where the walk ends, or was at that `CheckNext` if `cur` was the last node. Every other step
leaves the set alone.

Two definitions have their form because of the proofs. `LinkAt` is an `IF`, since the arms of the
`CASE` that the code suggests overlap where an entry has no chain, and TLA+ leaves open which is
taken. `From` is the least set closed under `next`, in place of a recursive definition that TLC
finds to be the same in every state. The inner parentheses of `{(k \in keys)}` are there because
tlapm 1.4.5 takes the set without them for an empty one.

`KeyHashProofs` assumes `KeyHashAssumption`: any finite sets of threads and nodes, any keys, values
and buckets, and either value of `OneWriter`. The theorems are about every behaviour until there are two
writers in a bucket at once (`~twoWriters => ...`), with `std_hazard_gc` at any moment; under
`KeyHash` above it is said what fails then. It proves
`Spec => [](~twoWriters => Inv)` (`InvHolds`), and from it:

* `HashTypesHold`: `TypeOK` holds while `~twoWriters`;
* `WalksAreSafe`: `NoFreedAccess` holds while `~twoWriters`;
* `NodesAreKept`: `NoNodeLost` holds while `~twoWriters`;
* `CountHolds`: `CountFits` holds while `~twoWriters`;
* `HashImplementsKeyMap`: `Spec => ImplementsKeyMap`.

`NoFreedAccess` and the refinement are far from inductive: a walk goes through deleted nodes, and
what such a node leads to was right when it was deleted and may be wrong now. The parts of `Inv` are

* `PlaceFits`, `OneAtATime`: what the place of a thread says of its call and of its bucket; only a find is
  robbed. `TypeOK` needs `CountFits` to keep `total_count` above zero.
* `NodesFit`: an allocated node is listed, retired or an entry, and no two listed ones have a key.
* `MetFits`, of the calls that are not robbed: every node the bucket has listed during a call is listed or
  retired, not freed; one with
  the call's key has a value that the call has seen; one that has left leads to another met one or
  to the end. A writer has met exactly what is listed, so its walk is one through the list as it is.
* `WalkFits`, with `Leads(t, x)`: either the key was gone at some moment of the call, or from `x` there
  is a set of met nodes, none of them behind the key, each listed or leading to another of the set: so
  a walk that comes to the end without a match has an answer that was true. `LeadsOn` is the
  heart of it, in `Remove`: if the deleted node is the key's, `Null` is seen; otherwise the node
  keeps its pointer to the next one, which has joined the set before the list forgets it. An `Insert`
  between two nodes of the set disturbs nothing, since only nodes that have left need their
  pointer in the set.

TLC agrees with `Inv` on the instance of `hash_safety`. For the refinement, `StoreValue` and `Insert`
are `Add`, `Remove` is `Delete`, whatever finds no node is `Find` or `NotDeleted` by `WalkFits`,
`ReadValue` is `Find` by `MetFits`, `MakeEntry` and `Collect` change no node that `Lookup` finds, and
every other step leaves the map alone. `SeenFits` says that a thread without a call has seen nothing.

`ScriptProofs` assumes a `MAX_STACK` of 2 or more and nothing of the operators that stand for
variables, the library, JSON and the compiler. Its hypothesis is `[]ShapeIsKept`, which `programs`
checks: the code fits `CodeShape`; the heap keeps its record of faults, which those operators
could drop; and `count_item` is not asked for a null, where the code does break its stack:
`execute_code_COUNT_ITEM` (`virtual_machine_EXEC.c:1060`) returns without a push when the variable
holds null, as it does after a `find_item` that found nothing; the store behind it takes the value in
the next slot, the last local, and the next push overwrites that local with a value that is then used
as a symbol. With `Statements <- WithCounts` and `Length = 2` in `Script_itself.cfg`, TLC finds `NoFault`
violated that way. It proves, for any such code and any depth of calls:

* `OperandsStayAboveLocals`: `OperandsAboveLocals` always holds;
* `FunctionsReturnToTheirCall`: `ReturnsBehindItsCall` holds of every return.

Neither is inductive: a return is right because what FRAME and CALL saved, any number of calls
ago, is still there. `Inv` (theorem `CodeKeepsItsStack`) says that there is a set `F` of open
frames that is a `Chain`: the topmost is at `Fp`; each one's saved place leads to the next
one and to a line behind a CALL of its function, and the whole frame lies below the operands that
its caller had at that CALL. `AtWork`, `Starting` and `Entering` are the three places of the machine: in a
body, before the main function, and between a CALL, which has pushed its line, and the FRAME that
pushes `Fp`. `Walk` is the step of an opcode inside a function: it keeps `Inv` if it goes to a line that
may follow, pushes no more and takes no less than `Nets` says and writes to no saved place; the lemmas
from `DropWalk` to `LeaveTwoWalk` bring each group of opcodes to it. `VAR_A` is the one that writes
above the frame: its slot belongs to an argument the caller pushed, as it is below the
caller's operands at the CALL, whose frame is further up (`CallFits`). FRAME adds the topmost frame to `F`
and RET takes it off. RET itself is left out of `OperandsAboveLocals`: a command's value is
dropped by a POP even when it has none, which is the line before the RET, and RET sets `Sp` anew.

That operands stay above the locals says nothing of how many there are: a loop whose
rounds each left a value would keep `OperandsAboveLocals` until the stack is used up, of which nothing
tests the bound. The same `Inv`, with `e` true, has an equality in each place (`Reaches`): the
operands of the running function, and those of each caller at its CALL, are exactly as many as
`Heights` counts. For this every opcode has to take what `Nets` says, and three groups do so only on the kind
of variable they are meant for: `execute_code_ADD_ITEM` of anything but a tuple,
`execute_code_ADD_KEY_ITEM` of anything but a hash and `execute_code_RESIZE_ARRAY` of anything
but an array return without a pop (`GiveUpWalk`). Hence the second hypothesis, `[]ItemsFit`, which
`programs` checks too. `find_item` and `del_item` that give up leave as many values as they
found, and need no hypothesis. A jump goes to a line of height 0 (`CodeFits`), so:

* `CodeCountsItsOperands`: `Inv(TRUE)` always holds;
* `LoopsStartAfresh`: `LoopsKeepTheStack`, for any number of rounds, nested to any depth, with any
  calls inside.

Only model-checked: liveness under fairness (`WaitReturns`, `DestroyEnds`,
`CommandReturns`, `JobsFinish`, the fairness of `JobPool`, `Terminates`), which is out of the
prover's reach; and what depends on the code a text is compiled to or on the contents of the heap:
`PrintsExpected`, `NoFault`, `NoDangling`, `OwnedOnce`, `NothingLeaks`, and the two hypotheses
`ShapeIsKept` and `ItemsFit`. The parser, the compiler and the variables are recursive, and what a recursive
definition computes for every input is out of the prover's reach as well. `TypeOK` of `Script` is no
theorem: a program may use up the stack, whose size nothing tests against it.

## What is not modelled, and the plan

* `std_lock_free_key_hash_value_walk` and `get_total_count`, which change nothing; what the two
  variants of `destroy` do with the values. XXH64 of two texts is never the same.
* `thpool_pause`, `thpool_resume` and the signal handler, which have no caller;
  `std_lock_free_list_count` and `std_lock_free_list_cleanup`, which nothing calls while others
  use the list; `del_flag` and the walks of `mod.c` that publish nothing.
* Two installations or uninstallations at once, each of which is one step; `mod_bundle_cleanup`, which runs when the process ends.
* The shell's table of registered functions (`cmd_run`, `mod_shell_register`), `dynamic_exec` and
  the commands on bundles, which call what `ModBundle` has.
* The lexer's cutting of words. Known of it and not shown here: `a/b` without spaces loses the
  sign, and `-10 - 5` is read as -5.
* The machine code made from scripts, the boxing of values into doubles, the RSA arithmetic and the limits of the text buffers (the text of a function
  is cut at 4096 characters).
* The JSON code (third-party), the helpers, the sample module and the code generator.

Next: a run of `ModBundle` with two admins, and what still holds then; a hash whose lists are those of `LockFreeList` step by step.
