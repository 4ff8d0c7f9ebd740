-------------------------------- MODULE Shell --------------------------------
(***************************************************************************)
(* The console of shell.c, its commands, and the jobs it gives to the      *)
(* thread pool with thread_execute.                                        *)
(*                                                                         *)
(* A script is a name; its code is one entry of gen_buffer, which the      *)
(* compiler appends and cmd_execute, in whatever thread it runs, collects, *)
(* frees and resets.  Scripts import others, which are compiled before     *)
(* them; of what a script does only exit() and grace_exit() matter here.   *)
(* The pool is the module JobPool, which ThreadPool implements; its bundle *)
(* is taken to be installed and started.                                   *)
(***************************************************************************)
EXTENDS Integers, Sequences, FiniteSets

CONSTANTS Scripts, Imports,   \* what each script imports, line by line
          Mains,              \* scripts with a main before any error of the parser
          Bad,                \* scripts with an error the compiler finds
          Missing,            \* scripts that cannot be read
          Jobs, PoolSize,
          MaxCommands,        \* bound: how many commands are given
          Patient             \* whether the user waits as Ready says

Console == "console"
Threads == Jobs \cup {Console}

ASSUME ShellConstants ==
    /\ Console \notin Jobs /\ Imports \in [Scripts -> Seq(Seq(Scripts) \ {<<>>})]
    /\ Missing \subseteq Scripts /\ Mains \subseteq Scripts
    /\ "nothing" \notin Scripts /\ "exit" \notin Scripts /\ "grace_exit" \notin Scripts
    /\ Patient \in BOOLEAN /\ PoolSize \in Nat \ {0} /\ MaxCommands \in Nat

Typed == {"exit", "grace_exit"}     \* typed at the prompt, compiled as "terminal"
Names == Scripts \cup {"terminal"}
Nothing == "nothing"

VARIABLES
    pending, running, finished,     \* the pool's jobs
    global_compile_mutex,           \* who holds it
    gen_buffer,                     \* [text, main, live]: code that was not collected yet
    parse_no_error,                 \* of the compiler; nothing ever sets it again
    compiled_body,                  \* the collected code of each name
    pc, name, asked,                \* of each thread: the name it executes and the script meant
    index, code,                    \* of each thread: place in gen_buffer, linked code
    files, kind, jobs,              \* of the console: lines of files to compile, command, jobs to add
    p_mod_thread_pool, bundle,      \* the shell's instance of the pool, the pool's bundle
    global_exit, modules,           \* "there", "deleted" by main, "gone" with the process
    commands, fault,
    rushed                          \* history: what happened that NoFault cannot survive

poolVars == <<pending, running, finished>>
buffers == <<gen_buffer, parse_no_error, compiled_body>>
threads == <<name, asked, index, code>>
command == <<files, kind, jobs, commands>>
rest == <<p_mod_thread_pool, bundle, global_exit, modules>>
vars == <<poolVars, buffers, threads, command, rest, global_compile_mutex, pc, fault, rushed>>

Pool == INSTANCE JobPool WITH MaxRunning <- PoolSize

Init ==
    /\ Pool!Init
    /\ global_compile_mutex = Nothing
    /\ gen_buffer = <<>> /\ parse_no_error = TRUE /\ compiled_body = [n \in Names |-> <<>>]
    /\ pc = [t \in Threads |-> IF t = Console THEN "loop" ELSE "idle"]
    /\ name = [t \in Threads |-> "terminal"] /\ asked = [t \in Threads |-> Nothing]
    /\ index = [t \in Threads |-> 0] /\ code = [t \in Threads |-> <<>>]
    /\ files = <<>> /\ kind = Nothing /\ jobs = 0 /\ commands = 0
    /\ p_mod_thread_pool = FALSE /\ bundle = "started"
    /\ global_exit = FALSE /\ modules = "there" /\ fault = {} /\ rushed = {}

Goto(t, place) == pc' = [pc EXCEPT ![t] = place]

(* The label function__main that comes first is the one that is run.       *)
MainOf(body) ==
    LET mains == {i \in DOMAIN body : body[i].main}
    IN  IF mains = {} THEN Nothing
        ELSE body[CHOOSE i \in mains : \A j \in mains : i <= j].text

-----------------------------------------------------------------------------
(* The console's loop and its commands.                                    *)

Collecting(t) == pc[t] \in {"find", "output", "reset", "link"}

(* A patient user compiles nothing before what was compiled is executed,   *)
(* gives no command before a job has linked its code, executes the script  *)
(* compiled last, adds one job at a time and exits when all jobs are done; *)
(* any user executes only scripts that were compiled.                      *)
Ready(command_kind, n, count) ==
    \/ /\ ~Patient
       /\ command_kind \in {"execute", "thread_execute"} =>
              \E i \in DOMAIN gen_buffer : gen_buffer[i].text = n
    \/ /\ pending = <<>> /\ \A t \in Threads : ~Collecting(t)
       /\ IF command_kind \in {"execute", "thread_execute"}
          THEN kind = "compile" /\ asked[Console] = n
          ELSE kind # "compile" /\ (n = "exit" => running = {})
       /\ count = 1

LoopTest ==
    /\ pc[Console] = "loop"
    /\ Goto(Console, IF global_exit THEN "left" ELSE "prompt")
    /\ UNCHANGED <<poolVars, buffers, threads, command, rest, global_compile_mutex, fault, rushed>>

Give(command_kind, n, count) ==
    /\ pc[Console] = "prompt" /\ modules = "there"
    /\ commands < MaxCommands /\ Ready(command_kind, n, count)
    /\ commands' = commands + 1 /\ kind' = command_kind
    /\ asked' = [asked EXCEPT ![Console] = n]
    /\ name' = [name EXCEPT ![Console] = IF n \in Typed THEN "terminal" ELSE n]
    /\ UNCHANGED <<poolVars, buffers, index, code, bundle, global_exit, modules, global_compile_mutex, fault, rushed>>

(* compile, script, and what the shell does not know: compiled as a text.  *)
CompileCommand(command_kind, n) ==
    /\ Give(command_kind, n, 1)
    /\ Goto(Console, "lock")
    /\ files' = <<<<[text |-> n, read |-> n \in Typed]>>>>
    /\ UNCHANGED <<jobs, p_mod_thread_pool>>

ExecuteCommand(n) ==
    /\ Give("execute", n, 1)
    /\ Goto(Console, "find")
    /\ UNCHANGED <<files, jobs, p_mod_thread_pool>>

ThreadExecute(n, count) ==
    /\ Give("thread_execute", n, count)
    /\ Cardinality(Pool!Known) + count <= Cardinality(Jobs)
    /\ p_mod_thread_pool' = TRUE
    /\ Goto(Console, "add") /\ jobs' = count
    /\ UNCHANGED files

AddWork ==
    /\ pc[Console] = "add"
    /\ \E j \in Jobs :
        /\ Pool!Add(j)
        /\ name' = [name EXCEPT ![j] = name[Console]]
        /\ asked' = [asked EXCEPT ![j] = asked[Console]]
    /\ jobs' = jobs - 1
    /\ Goto(Console, IF jobs = 1 THEN "loop" ELSE "add")
    /\ UNCHANGED <<buffers, index, code, files, kind, commands, rest, global_compile_mutex, fault, rushed>>

-----------------------------------------------------------------------------
(* cmd_compile_file and cmd_compile_body.                                  *)

Lock ==
    /\ pc[Console] = "lock" /\ global_compile_mutex = Nothing
    /\ global_compile_mutex' = Console
    /\ Goto(Console, "compile")
    /\ UNCHANGED <<poolVars, buffers, threads, command, rest, fault, rushed>>

(* The file that is read or compiled next: the first of the first line.    *)
(* An import line is dealt with where it stands, before what follows it.   *)
NextFile == files[1][1]

WithoutFile == (IF Len(files[1]) = 1 THEN <<>> ELSE <<Tail(files[1])>>) \o Tail(files)

ImportsOf(n) ==
    [l \in DOMAIN Imports[n] |->
        [i \in DOMAIN Imports[n][l] |-> [text |-> Imports[n][l][i], read |-> FALSE]]]

Opened == <<<<[NextFile EXCEPT !.read = TRUE]>> \o Tail(files[1])>> \o Tail(files)

(* Fault: an import that cannot be read is left out, and only that.        *)
Faulty_ReadFile ==
    /\ pc[Console] = "compile" /\ files # <<>> /\ ~NextFile.read
    /\ IF NextFile.text \in Missing
       THEN files' = WithoutFile /\ Goto(Console, IF Len(files) = 1 THEN "loop" ELSE "compile")
       ELSE files' = ImportsOf(NextFile.text) \o Opened /\ UNCHANGED pc
    /\ UNCHANGED <<poolVars, buffers, threads, kind, jobs, commands, rest, global_compile_mutex, fault, rushed>>

(* Reading a file compiles what it imports before the file itself.  An     *)
(* import that cannot be read ends its line, the imports behind it are     *)
(* left out; if the script itself cannot be read, the command returns with *)
(* the mutex held.                                                         *)
ReadFile ==
    /\ pc[Console] = "compile" /\ files # <<>> /\ ~NextFile.read
    /\ IF NextFile.text \in Missing
       THEN files' = Tail(files) /\ Goto(Console, IF Len(files) = 1 THEN "loop" ELSE "compile")
       ELSE files' = ImportsOf(NextFile.text) \o Opened /\ UNCHANGED pc
    /\ UNCHANGED <<poolVars, buffers, threads, kind, jobs, commands, rest, global_compile_mutex, fault, rushed>>

(* compile_file_body never fails: what comes before an error of the parser *)
(* is emitted, what the compiler refuses only clears its flag.  An import  *)
(* may have a main as well.  After an error the compiler emits no more     *)
(* than the names of libraries.                                            *)
CompileText ==
    /\ pc[Console] = "compile" /\ files # <<>> /\ NextFile.read
    /\ LET text == NextFile.text
           main == parse_no_error /\ text \in Mains \cup Typed
       IN  /\ gen_buffer' = Append(gen_buffer, [text |-> text, main |-> main, live |-> TRUE])
           /\ parse_no_error' = (parse_no_error /\ text \notin Bad)
    /\ files' = WithoutFile
    /\ UNCHANGED <<poolVars, compiled_body, threads, kind, jobs, commands, rest, global_compile_mutex, pc, fault, rushed>>

(* Fault: the mutex stays locked after an error, as it does for a script   *)
(* that cannot be read.                                                    *)
Faulty_Unlock ==
    /\ pc[Console] = "compile" /\ files = <<>>
    /\ Goto(Console, IF kind = "compile" THEN "loop" ELSE "find")
    /\ global_compile_mutex' = IF parse_no_error THEN Nothing ELSE Console
    /\ UNCHANGED <<poolVars, buffers, threads, command, rest, fault, rushed>>

Unlock ==
    /\ pc[Console] = "compile" /\ files = <<>>
    /\ global_compile_mutex' = Nothing
    /\ Goto(Console, IF kind = "compile" THEN "loop" ELSE "find")
    /\ UNCHANGED <<poolVars, buffers, threads, command, rest, fault, rushed>>

-----------------------------------------------------------------------------
(* cmd_execute, by the console or by a job, without a lock.                *)

At(t, place) == pc[t] = place /\ modules # "gone"

(* A step uses the modules, which main may have deleted.                   *)
Used(more) ==
    fault' = fault \cup more \cup (IF modules = "there" THEN {} ELSE {"deleted module"})

Rushes(what, happens) == rushed' = rushed \cup (IF happens THEN {what} ELSE {})

(* The body of this name is cleared, whoever may be reading it, and the    *)
(* texts are collected, whoever may be collecting them.                    *)
FindBody(t) ==
    /\ At(t, "find")
    /\ Rushes("two collections", \E u \in Threads \ {t} : pc[u] \in {"output", "reset"})
    /\ compiled_body' = [compiled_body EXCEPT ![name[t]] = <<>>]
    /\ index' = [index EXCEPT ![t] = 1]
    /\ Goto(t, "output") /\ Used({})
    /\ UNCHANGED <<poolVars, gen_buffer, parse_no_error, name, asked, code, command, rest, global_compile_mutex>>

gen_buffer_output(t) ==
    /\ At(t, "output") /\ index[t] <= Len(gen_buffer)
    /\ compiled_body' = [compiled_body EXCEPT ![name[t]] = Append(@, gen_buffer[index[t]])]
    /\ gen_buffer' = [gen_buffer EXCEPT ![index[t]] = [text |-> @.text, main |-> @.main, live |-> FALSE]]
    /\ index' = [index EXCEPT ![t] = @ + 1]
    /\ Used(IF gen_buffer[index[t]].live THEN {} ELSE {"freed text"})
    /\ UNCHANGED <<poolVars, parse_no_error, pc, name, asked, code, command, rest, global_compile_mutex, rushed>>

OutputDone(t) ==
    /\ At(t, "output") /\ index[t] > Len(gen_buffer)
    /\ Goto(t, "reset")
    /\ UNCHANGED <<poolVars, buffers, threads, command, rest, global_compile_mutex, fault, rushed>>

(* Fault: the texts stay in the buffer after they were freed.              *)
Faulty_gen_buffer_reset(t) ==
    /\ At(t, "reset")
    /\ Goto(t, "link")
    /\ UNCHANGED <<poolVars, buffers, threads, command, rest, global_compile_mutex, fault, rushed>>

gen_buffer_reset(t) ==
    /\ At(t, "reset")
    /\ gen_buffer' = <<>>
    /\ Goto(t, "link")
    /\ UNCHANGED <<poolVars, parse_no_error, compiled_body, threads, command, rest, global_compile_mutex, fault, rushed>>

(* mod_lang_vm_run_init reads the body into the codes of this thread.      *)
RunInit(t) ==
    /\ At(t, "link")
    /\ code' = [code EXCEPT ![t] = compiled_body[name[t]]]
    /\ Goto(t, "run") /\ Used({})
    /\ UNCHANGED <<poolVars, buffers, name, asked, index, command, rest, global_compile_mutex, rushed>>

(* The script runs to its end, or as far as its call of grace_exit.        *)
Execute(t) ==
    /\ At(t, "run")
    /\ global_exit' = (global_exit \/ MainOf(code[t]) = "exit")
    /\ Goto(t, IF MainOf(code[t]) = "grace_exit" THEN "grace_exit" ELSE "cleanup")
    /\ Used({})
    /\ UNCHANGED <<poolVars, buffers, threads, command, p_mod_thread_pool, bundle, modules, global_compile_mutex, rushed>>

(* cmd_grace_exit deletes the instance of the pool and stops its bundle,   *)
(* which waits for all jobs; the other bundles have instances of main and  *)
(* refuse to stop.                                                         *)
GraceExit(t) ==
    /\ At(t, "grace_exit")
    /\ p_mod_thread_pool' = FALSE
    /\ Goto(t, "wait") /\ Used({})
    /\ UNCHANGED <<poolVars, buffers, threads, command, bundle, global_exit, modules, global_compile_mutex, rushed>>

(* Fault: the stop waits for an empty queue, not for the jobs that run.    *)
Faulty_Stop(t) ==
    /\ At(t, "wait") /\ pending = <<>>
    /\ bundle' = "stopped" /\ global_exit' = TRUE
    /\ Goto(t, "cleanup") /\ Used({})
    /\ UNCHANGED <<poolVars, buffers, threads, command, p_mod_thread_pool, modules, global_compile_mutex, rushed>>

Stop(t) ==
    /\ At(t, "wait")
    /\ bundle = "started" => pending = <<>> /\ running = {}
    /\ bundle' = "stopped" /\ global_exit' = TRUE
    /\ Goto(t, "cleanup") /\ Used({})
    /\ UNCHANGED <<poolVars, buffers, threads, command, p_mod_thread_pool, modules, global_compile_mutex, rushed>>

(* Fault: the job ends without the pool being told.                        *)
Faulty_Cleanup(t) ==
    /\ At(t, "cleanup")
    /\ code' = [code EXCEPT ![t] = <<>>] /\ index' = [index EXCEPT ![t] = 0]
    /\ Goto(t, IF t = Console THEN "loop" ELSE "idle") /\ Used({})
    /\ UNCHANGED <<poolVars, buffers, name, asked, command, rest, global_compile_mutex, rushed>>

Cleanup(t) ==
    /\ At(t, "cleanup")
    /\ code' = [code EXCEPT ![t] = <<>>] /\ index' = [index EXCEPT ![t] = 0]
    /\ IF t = Console THEN Goto(t, "loop") /\ UNCHANGED poolVars
       ELSE Goto(t, "idle") /\ Pool!Finish(t)
    /\ Used({})
    /\ UNCHANGED <<buffers, name, asked, command, rest, global_compile_mutex, rushed>>

(* A thread of the pool takes the first job.                               *)
TakeJob ==
    /\ bundle = "started" /\ modules # "gone"
    /\ Pool!Start
    /\ Goto(Head(pending), "find")
    /\ UNCHANGED <<buffers, threads, command, rest, global_compile_mutex, fault, rushed>>

-----------------------------------------------------------------------------
(* main, after the loop: the modules' instances go, then the process.      *)

DeleteModules ==
    /\ pc[Console] = "left" /\ modules = "there"
    /\ modules' = "deleted"
    /\ Rushes("exit during a job", pending # <<>> \/ running # {})
    /\ UNCHANGED <<poolVars, buffers, threads, command, p_mod_thread_pool, bundle, global_exit, global_compile_mutex, pc, fault>>

ProcessEnds ==
    /\ modules = "deleted"
    /\ modules' = "gone"
    /\ UNCHANGED <<poolVars, buffers, threads, command, p_mod_thread_pool, bundle, global_exit, global_compile_mutex, pc, fault, rushed>>

Command ==
    \/ \E n \in Scripts : CompileCommand("compile", n) \/ CompileCommand("script", n)
    \/ \E n \in Typed : CompileCommand("process", n)
    \/ \E n \in Scripts : ExecuteCommand(n)
    \/ \E n \in Scripts, count \in 1 .. Cardinality(Jobs) : ThreadExecute(n, count)

cmd_execute(t) ==
    \/ FindBody(t) \/ gen_buffer_output(t) \/ OutputDone(t) \/ gen_buffer_reset(t) \/ RunInit(t)
    \/ Execute(t) \/ GraceExit(t) \/ Stop(t) \/ Cleanup(t)

cmd_shell == LoopTest \/ AddWork \/ Lock \/ ReadFile \/ CompileText \/ Unlock \/ DeleteModules \/ ProcessEnds

Next ==
    \/ Command \/ cmd_shell \/ TakeJob
    \/ \E t \in Threads : cmd_execute(t)

(* Nobody has to give a command, but the threads do not stop.              *)
Spec ==
    /\ Init /\ [][Next]_vars
    /\ WF_vars(cmd_shell) /\ WF_vars(TakeJob)
    /\ \A t \in Threads : WF_vars(cmd_execute(t))

-----------------------------------------------------------------------------
(* Properties.                                                             *)

TypeOK ==
    /\ {pending[i] : i \in DOMAIN pending} \cup running \cup finished \subseteq Jobs
    /\ \A t \in Jobs : t \in running <=> pc[t] # "idle"
    /\ Cardinality(running) <= PoolSize
    /\ \A i \in DOMAIN gen_buffer : gen_buffer[i].text \in Scripts \cup Typed
    /\ modules \in {"there", "deleted", "gone"}

(* help() of the shell: execute("script_name").  What runs under a name is *)
(* the script of that name.                                                *)
RunsItsScript ==
    \A t \in Threads : pc[t] = "run" => MainOf(code[t]) \in {asked[t], Nothing}

(* The script whose main comes first when a script is compiled: the first  *)
(* of its imports that has one, itself or through its own imports, or else *)
(* the script itself.  Imports behind a missing one in a line do not count. *)
FirstMain[n \in Scripts] ==
    LET places == UNION {{l} \X DOMAIN Imports[n][l] : l \in DOMAIN Imports[n]}
        at(p) == Imports[n][p[1]][p[2]]
        found == {p \in places : /\ FirstMain[at(p)] # Nothing
                                 /\ \A i \in 1 .. p[2] : at(<<p[1], i>>) \notin Missing}
        before(p, q) == p[1] < q[1] \/ (p[1] = q[1] /\ p[2] <= q[2])
    IN  CASE n \in Missing -> Nothing
          [] found # {} -> FirstMain[at(CHOOSE p \in found : \A q \in found : before(p, q))]
          [] OTHER -> IF n \in Mains THEN n ELSE Nothing

(* cmd_execute of a script that could be read runs the first main among it *)
(* and its imports, nothing older and nothing of another command, unless   *)
(* an error was found since the start.                                     *)
RunsFirstMain ==
    \A t \in Threads :
        pc[t] = "run" /\ parse_no_error /\ asked[t] \notin Missing =>
            MainOf(code[t]) = IF asked[t] \in Typed THEN asked[t] ELSE FirstMain[asked[t]]

(* No code is collected twice and no instance is used after its deletion.  *)
NoFault == fault = {}

(* What is the cause when one of the two happens all the same: a thread    *)
(* that starts to collect while another still does, or the exit of main    *)
(* before all jobs are done; nothing else the user or a script may do.     *)
FaultsHaveTheirCause ==
    /\ "freed text" \in fault => "two collections" \in rushed
    /\ "deleted module" \in fault => "exit during a job" \in rushed

(* grace_exit leaves no job behind: each one that was added has finished.  *)
LeavesNoJobBehind == bundle = "stopped" => pending = <<>> /\ running = {}

(* Each command returns to the prompt or leaves the loop, in a session in  *)
(* which every script a command names can be read.                         *)
CommandReturns ==
    [](asked[Console] \notin Missing) =>
        (pc[Console] \notin {"prompt", "left"} ~> pc[Console] \in {"prompt", "left"})

(* A job that was added runs to its end.                                   *)
JobsFinish == \A j \in Jobs : j \in Pool!Known ~> j \in finished

=============================================================================
