----------------------------- MODULE ShellProofs -----------------------------
(***************************************************************************)
(* Theorems about Shell, for any scripts, imports, jobs and number of      *)
(* commands, whoever gives them and when.                                  *)
(***************************************************************************)
EXTENDS Shell, FiniteSetTheorems, SequenceTheorems, TLAPS

Texts == Scripts \cup Typed
Entry == [text : Texts, main : BOOLEAN, live : BOOLEAN]
Item == [text : Scripts, read : BOOLEAN] \cup [text : Typed, read : {TRUE}]
Line == Seq(Item) \ {<<>>}
Running == {"find", "output", "reset", "link", "run", "grace_exit", "wait", "cleanup"}
AtRest == {"loop", "prompt", "left"}
Kinds == {"compile", "script", "process", "execute", "thread_execute", Nothing}

PoolTypes == pending \in Seq(Jobs) /\ running \in SUBSET Jobs /\ finished \in SUBSET Jobs

BufferTypes ==
    /\ gen_buffer \in Seq(Entry) /\ parse_no_error \in BOOLEAN
    /\ compiled_body \in [Names -> Seq(Entry)]

PlaceTypes ==
    /\ pc \in [Threads -> Running \cup AtRest \cup {"lock", "compile", "add", "idle"}]
    /\ \A j \in Jobs : pc[j] \in Running \cup {"idle"}
    /\ pc[Console] # "idle"

ThreadTypes ==
    /\ name \in [Threads -> Names] /\ asked \in [Threads -> Texts \cup {Nothing}]
    /\ index \in [Threads -> Nat] /\ code \in [Threads -> Seq(Entry)]

CommandTypes ==
    /\ files \in Seq(Line) /\ kind \in Kinds
    /\ jobs \in Nat /\ (pc[Console] = "add" => jobs > 0)
    /\ bundle \in {"started", "stopped"} /\ global_exit \in BOOLEAN
    /\ modules \in {"there", "deleted", "gone"}

Types == PoolTypes /\ BufferTypes /\ PlaceTypes /\ ThreadTypes /\ CommandTypes

\* The pool's threads and the shell agree on which jobs run.
JobsRun == \A j \in Jobs : j \in running <=> pc[j] # "idle"

\* A job is in one place, and in the queue once.
Distinct ==
    /\ \A i \in DOMAIN pending : pending[i] \notin running \cup finished
    /\ \A i, k \in DOMAIN pending : pending[i] = pending[k] => i = k
    /\ running \cap finished = {}

\* Once the bundle of the pool is stopped, only the way out is left.
Stopped ==
    bundle = "stopped" =>
        /\ pending = <<>> /\ running = {} /\ global_exit
        /\ pc[Console] \in {"cleanup", "loop", "left"}

Leaving ==
    /\ pc[Console] = "left" => global_exit
    /\ modules # "there" => pc[Console] = "left"

\* A thread that collects has a place in the buffer.
Reading == \A t \in Threads : pc[t] = "output" => index[t] > 0

FewRun == IsFiniteSet(running) /\ Cardinality(running) <= PoolSize

\* What holds whoever gives the commands.
AnyUser == Types /\ JobsRun /\ Distinct /\ Stopped /\ Leaving /\ Reading /\ FewRun

-----------------------------------------------------------------------------
(* What the steps do to a code.                                            *)

LEMMA NoCode == <<>> \in Seq(Entry)
OBVIOUS

Free(b, i) == [b EXCEPT ![i] = [text |-> @.text, main |-> @.main, live |-> FALSE]]

LEMMA Freed ==
    ASSUME NEW b \in Seq(Entry), NEW i \in Nat, i > 0, i <= Len(b)
    PROVE  /\ Free(b, i) \in Seq(Entry) /\ Len(Free(b, i)) = Len(b)
           /\ \A k \in 1 .. Len(b) :
                  /\ Free(b, i)[k].text = b[k].text /\ Free(b, i)[k].main = b[k].main
                  /\ k # i => Free(b, i)[k] = b[k]
<1> DEFINE e == [text |-> b[i].text, main |-> b[i].main, live |-> FALSE]
<1>1. b[i] \in Entry
  OBVIOUS
<1>2. e \in Entry
  BY <1>1 DEF Entry
<1>3. Free(b, i) = [b EXCEPT ![i] = e]
  BY DEF Free
<1> HIDE DEF e
<1>4. [b EXCEPT ![i] = e] \in Seq(Entry) /\ Len([b EXCEPT ![i] = e]) = Len(b)
  BY <1>2
<1>5. \A k \in 1 .. Len(b) : [b EXCEPT ![i] = e][k] = IF k = i THEN e ELSE b[k]
  OBVIOUS
<1>6. e.text = b[i].text /\ e.main = b[i].main
  BY DEF e
<1> QED BY <1>3, <1>4, <1>5, <1>6

LEMMA MoreCode ==
    ASSUME NEW f \in [Names -> Seq(Entry)], NEW n \in Names, NEW e \in Entry
    PROVE  [f EXCEPT ![n] = Append(@, e)] \in [Names -> Seq(Entry)]
<1>1. Append(f[n], e) \in Seq(Entry)
  OBVIOUS
<1> QED BY <1>1

-----------------------------------------------------------------------------
(* Lines of files to compile.                                              *)

LEMMA OneLine == ASSUME NEW i \in Item PROVE <<i>> \in Line
<1>1. <<i>> \in Seq(Item) /\ Len(<<i>>) = 1
  OBVIOUS
<1>2. <<i>> # <<>>
  BY <1>1
<1> QED BY <1>1, <1>2 DEF Line

LEMMA Longer ==
    ASSUME NEW S, NEW a \in Seq(S), NEW b \in Seq(S) PROVE a \o b \in Seq(S)
OBVIOUS

LEMMA Shorter ==
    ASSUME NEW S, NEW s \in Seq(S), s # <<>>, Len(s) # 1
    PROVE  Tail(s) \in Seq(S) /\ Tail(s) # <<>>
<1>1. Len(s) \in Nat /\ Len(s) # 0
  BY EmptySeq
<1>2. Tail(s) \in Seq(S) /\ Len(Tail(s)) = Len(s) - 1
  BY HeadTailProperties
<1>3. Tail(s) # <<>>
  BY ONLY <1>1, <1>2, EmptySeq, Len(s) # 1
<1> QED BY <1>2, <1>3

LEMMA ImportLines == ASSUME NEW n \in Scripts PROVE ImportsOf(n) \in Seq(Line)
<1> DEFINE line(l) == [i \in DOMAIN Imports[n][l] |-> [text |-> Imports[n][l][i], read |-> FALSE]]
<1>1. Imports[n] \in Seq(Seq(Scripts) \ {<<>>})
  BY ShellConstants
<1>2. ASSUME NEW l \in DOMAIN Imports[n] PROVE line(l) \in Line
  <2>1. Imports[n][l] \in Seq(Scripts) /\ Imports[n][l] # <<>>
    BY <1>1
  <2> DEFINE s == Imports[n][l]
  <2>4. \A x \in Scripts : [text |-> x, read |-> FALSE] \in Item
    BY DEF Item
  <2> HIDE DEF s
  <2>5. s \in Seq(Scripts)
    BY <2>1 DEF s
  <2>6. [i \in DOMAIN s |-> [text |-> s[i], read |-> FALSE]] \in Seq(Item)
        /\ Len([i \in DOMAIN s |-> [text |-> s[i], read |-> FALSE]]) = Len(s)
    <3>1. DOMAIN s = 1 .. Len(s) /\ Len(s) \in Nat /\ \A i \in DOMAIN s : s[i] \in Scripts
      BY <2>5
    <3>2. \A i \in DOMAIN s : [text |-> s[i], read |-> FALSE] \in Item
      BY <3>1, <2>4
    <3> HIDE DEF Item
    <3> QED BY <3>1, <3>2
  <2>2. line(l) \in Seq(Item) /\ Len(line(l)) = Len(Imports[n][l])
    BY <2>6 DEF s
  <2>3. Len(Imports[n][l]) # 0
    BY <2>1
  <2> QED BY <2>2, <2>3 DEF Line
<1> QED BY <1>1, <1>2 DEF ImportsOf

LEMMA ReadItem == ASSUME NEW x \in Item PROVE [x EXCEPT !.read = TRUE] \in Item
<1>1. CASE x \in [text : Scripts, read : BOOLEAN]
  BY <1>1 DEF Item
<1>2. CASE x \in [text : Typed, read : {TRUE}]
  BY <1>2 DEF Item
<1> QED BY <1>1, <1>2 DEF Item

LEMMA FileTypes ==
    ASSUME files \in Seq(Line), files # <<>>
    PROVE  /\ NextFile \in Item
           /\ Opened \in Seq(Line) /\ WithoutFile \in Seq(Line) /\ Tail(files) \in Seq(Line)
<1>1. files[1] \in Line /\ Tail(files) \in Seq(Line)
  OBVIOUS
<1>2. NextFile \in Item /\ Tail(files[1]) \in Seq(Item)
  BY <1>1 DEF NextFile, Line
<1>3. Opened \in Seq(Line)
  <2> DEFINE i == [NextFile EXCEPT !.read = TRUE]
             line == <<i>> \o Tail(files[1])
  <2>1. i \in Item
    <3> HIDE DEF NextFile, i
    <3>1. NextFile \in Item
      BY <1>2
    <3> QED BY <3>1, ReadItem DEF i
  <2>2. line \in Seq(Item) /\ Len(line) = 1 + Len(Tail(files[1]))
    BY <2>1, <1>2
  <2>3. line \in Line
    BY <2>2, <1>2 DEF Line
  <2>4. Opened = <<line>> \o Tail(files)
    BY DEF Opened
  <2> HIDE DEF line
  <2>5. <<line>> \in Seq(Line)
    BY <2>3
  <2> QED BY ONLY <2>4, <2>5, <1>1, Longer
<1>4. WithoutFile \in Seq(Line)
  <2>1. CASE Len(files[1]) = 1
    BY <2>1, <1>1 DEF WithoutFile
  <2>2. CASE Len(files[1]) # 1
    <3>1. Tail(files[1]) \in Line
      <4>1. files[1] \in Seq(Item) /\ files[1] # <<>>
        BY <1>1 DEF Line
      <4> QED BY ONLY <4>1, <2>2, Shorter DEF Line
    <3>3. WithoutFile = <<Tail(files[1])>> \o Tail(files)
      BY <2>2 DEF WithoutFile
    <3>2. <<Tail(files[1])>> \in Seq(Line)
      BY ONLY <3>1
    <3> QED BY ONLY <3>2, <3>3, <1>1, Longer
  <2> QED BY <2>1, <2>2
<1> QED BY <1>1, <1>2, <1>3, <1>4

-----------------------------------------------------------------------------
(* Steps of any user.                                                      *)

LEMMA InitAny == Init => AnyUser
<1> SUFFICES ASSUME Init PROVE AnyUser
  OBVIOUS
<1> USE ShellConstants DEF Init, Pool!Init
<1>1. PoolTypes /\ gen_buffer \in Seq(Entry) /\ parse_no_error \in BOOLEAN
  BY DEF PoolTypes
<1>6. <<>> \in Seq(Entry)
  OBVIOUS
<1>7. compiled_body \in [Names -> Seq(Entry)] /\ code \in [Threads -> Seq(Entry)]
  BY <1>6
<1>2. PlaceTypes
  <2>1. pc \in [Threads -> {"loop", "idle"}] /\ pc[Console] = "loop" /\ \A j \in Jobs : pc[j] = "idle"
    BY DEF Threads
  <2> QED BY <2>1 DEF PlaceTypes, Running, AtRest
<1>3. ThreadTypes /\ CommandTypes
  <2>1. name \in [Threads -> Names]
    BY DEF Names
  <2>2. asked \in [Threads -> Texts \cup {Nothing}]
    OBVIOUS
  <2>3. index \in [Threads -> Nat]
    OBVIOUS
  <2>4. files \in Seq(Line) /\ kind \in Kinds /\ jobs \in Nat /\ pc[Console] # "add"
    BY DEF Kinds, Threads
  <2> QED BY <2>1, <2>2, <2>3, <2>4, <1>7 DEF ThreadTypes, CommandTypes
<1>4. JobsRun /\ Distinct /\ Stopped /\ Leaving /\ Reading
  BY DEF JobsRun, Distinct, Stopped, Leaving, Reading, Threads
<1>5. FewRun
  BY FS_EmptySet DEF FewRun
<1> QED BY <1>1, <1>2, <1>3, <1>4, <1>5, <1>7 DEF AnyUser, Types, BufferTypes

(* Each action keeps it: the parts in order of Types, the jobs, the way   *)
(* out, and the number of jobs that run.                                   *)
LEMMA NextAny == AnyUser /\ [Next]_vars => AnyUser'
<1> SUFFICES ASSUME AnyUser, [Next]_vars PROVE AnyUser'
  OBVIOUS
<1> USE ShellConstants DEF AnyUser, Types, Threads, Goto, At, Used, poolVars, buffers, threads, command, rest, vars
<1>1. CASE LoopTest
  BY <1>1 DEF LoopTest, PoolTypes, BufferTypes, PlaceTypes, ThreadTypes, CommandTypes, Running,
     AtRest, Kinds, Names, Texts, JobsRun, Distinct, Stopped, Leaving, Reading, FewRun
<1>2. ASSUME NEW ck \in {"compile", "script", "process"}, NEW n \in Scripts \cup Typed, CompileCommand(ck, n) PROVE AnyUser'
  <2>1. [text |-> n, read |-> n \in Typed] \in Item
    <3>1. CASE n \in Typed
      <4>1. (n \in Typed) = TRUE
        BY ONLY <3>1
      <4> QED BY ONLY <3>1, <4>1 DEF Item
    <3>2. CASE n \notin Typed
      <4>1. (n \in Typed) = FALSE /\ n \in Scripts
        BY ONLY <3>2, n \in Scripts \cup Typed
      <4> QED BY ONLY <4>1 DEF Item
    <3> QED BY <3>1, <3>2
  <2>2. files' = <<<<[text |-> n, read |-> n \in Typed]>>>>
    BY <1>2 DEF CompileCommand
  <2>3. files' \in Seq(Line)
    BY ONLY <2>1, <2>2, OneLine
  <2> HIDE DEF Line
  <2> QED BY <1>2, <2>3, SMTT(20) DEF CompileCommand, Give, PoolTypes, BufferTypes, PlaceTypes, ThreadTypes,
     CommandTypes, Running, AtRest, Kinds, Names, Texts, JobsRun, Distinct, Stopped, Leaving,
     Reading, FewRun
<1>3. ASSUME NEW n \in Scripts, ExecuteCommand(n) PROVE AnyUser'
  BY <1>3 DEF ExecuteCommand, Give, PoolTypes, BufferTypes, PlaceTypes, ThreadTypes, CommandTypes,
     Running, AtRest, Kinds, Names, Texts, JobsRun, Distinct, Stopped, Leaving, Reading, FewRun
<1>4. ASSUME NEW n \in Scripts, NEW count \in 1 .. Cardinality(Jobs), ThreadExecute(n, count) PROVE AnyUser'
  BY <1>4 DEF ThreadExecute, Give, PoolTypes, BufferTypes, PlaceTypes, ThreadTypes, CommandTypes,
     Running, AtRest, Kinds, Names, Texts, JobsRun, Distinct, Stopped, Leaving, Reading, FewRun
<1>5. CASE AddWork
  <2> USE <1>5 DEF AddWork, Pool!Add, Pool!Known
  <2>1. Types'
    <3>1. PICK j \in Jobs :
              /\ Pool!Add(j)
              /\ name' = [name EXCEPT ![j] = name[Console]]
              /\ asked' = [asked EXCEPT ![j] = asked[Console]]
      OBVIOUS
    <3>2. PoolTypes' /\ BufferTypes' /\ PlaceTypes'
      BY <3>1 DEF PoolTypes, BufferTypes, PlaceTypes, Running, AtRest
    <3>3. ThreadTypes'
      BY <3>1 DEF ThreadTypes
    <3>4. CommandTypes'
      BY <3>1 DEF CommandTypes, PlaceTypes
    <3> QED BY <3>2, <3>3, <3>4
  <2>2. (JobsRun /\ Distinct)'
    BY DEF JobsRun, Distinct, PoolTypes, PlaceTypes
  <2>3. (Stopped /\ Leaving)'
    BY DEF Stopped, Leaving, JobsRun, PoolTypes, PlaceTypes, Running
  <2>4. (Reading /\ FewRun)'
    BY DEF Reading, FewRun, PlaceTypes, ThreadTypes
  <2> QED BY <2>1, <2>2, <2>3, <2>4
<1>6. CASE Lock
  BY <1>6 DEF Lock, PoolTypes, BufferTypes, PlaceTypes, ThreadTypes, CommandTypes, Running,
     AtRest, Kinds, Names, Texts, JobsRun, Distinct, Stopped, Leaving, Reading, FewRun
<1>7. CASE CompileText
  <2> USE <1>7 DEF CompileText
  <2>1. Types'
    <3>6. NextFile.text \in Texts /\ WithoutFile \in Seq(Line)
      BY FileTypes DEF CommandTypes, Item, Texts
    <3>1. gen_buffer' \in Seq(Entry)
      <4> DEFINE main == parse_no_error /\ NextFile.text \in Mains \cup Typed
      <4>1. [text |-> NextFile.text, main |-> main, live |-> TRUE] \in Entry
        BY <3>6 DEF BufferTypes, Entry
      <4> QED BY <4>1 DEF BufferTypes
    <3>2. parse_no_error' \in BOOLEAN
      OBVIOUS
    <3>3. (PoolTypes /\ ThreadTypes)'
      BY DEF PoolTypes, ThreadTypes
    <3>4. PlaceTypes'
      BY DEF PlaceTypes, AtRest
    <3>5. CommandTypes'
      BY <3>6 DEF CommandTypes, PlaceTypes
    <3> QED BY <3>1, <3>2, <3>3, <3>4, <3>5 DEF BufferTypes
  <2>2. (JobsRun /\ Distinct)'
    BY DEF JobsRun, Distinct, PoolTypes, PlaceTypes
  <2>3. (Stopped /\ Leaving)'
    BY DEF Stopped, Leaving, JobsRun, PoolTypes, PlaceTypes, Running
  <2>4. (Reading /\ FewRun)'
    BY DEF Reading, FewRun, PlaceTypes, ThreadTypes
  <2> QED BY <2>1, <2>2, <2>3, <2>4
<1>22. CASE ReadFile
  <2> USE <1>22 DEF ReadFile
  <2>1. Types'
    <3>1. NextFile \in Item /\ Opened \in Seq(Line) /\ Tail(files) \in Seq(Line)
      BY FileTypes DEF CommandTypes
    <3>2. NextFile.text \in Scripts
      BY <3>1 DEF Item
    <3>3. ImportsOf(NextFile.text) \o Opened \in Seq(Line)
      BY <3>1, <3>2, ImportLines, Longer
    <3>4. files' \in Seq(Line)
      BY ONLY <1>22, <3>1, <3>3 DEF ReadFile
    <3>5. (PoolTypes /\ BufferTypes /\ ThreadTypes)'
      BY DEF PoolTypes, BufferTypes, ThreadTypes
    <3>6. pc' \in {pc, [pc EXCEPT ![Console] = "loop"], [pc EXCEPT ![Console] = "compile"]}
      OBVIOUS
    <3>7. PlaceTypes'
      BY <3>6 DEF PlaceTypes, AtRest
    <3> QED BY <3>4, <3>5, <3>6, <3>7 DEF CommandTypes, PlaceTypes
  <2>2. (JobsRun /\ Distinct)'
    BY DEF JobsRun, Distinct, PoolTypes, PlaceTypes
  <2>3. (Stopped /\ Leaving)'
    BY DEF Stopped, Leaving, JobsRun, PoolTypes, PlaceTypes, Running
  <2>4. (Reading /\ FewRun)'
    BY DEF Reading, FewRun, PlaceTypes, ThreadTypes
  <2> QED BY <2>1, <2>2, <2>3, <2>4
<1>8. CASE Unlock
  BY <1>8 DEF Unlock, PoolTypes, BufferTypes, PlaceTypes, ThreadTypes, CommandTypes, Running,
     AtRest, Kinds, Names, Texts, JobsRun, Distinct, Stopped, Leaving, Reading, FewRun
<1>9. CASE TakeJob
  <2> USE <1>9 DEF TakeJob, Pool!Start
  <2>1. Types'
    <3>1. pending # <<>> /\ Head(pending) \in Jobs /\ Tail(pending) \in Seq(Jobs)
      BY DEF PoolTypes
    <3>2. PoolTypes'
      BY <3>1 DEF PoolTypes
    <3>3. PlaceTypes'
      BY <3>1 DEF PlaceTypes, Running
    <3>4. (BufferTypes /\ ThreadTypes)'
      BY DEF BufferTypes, ThreadTypes
    <3>5. CommandTypes'
      BY <3>1 DEF CommandTypes, PlaceTypes
    <3> QED BY <3>2, <3>3, <3>4, <3>5
  <2>2. (JobsRun /\ Distinct)'
    BY DEF JobsRun, Distinct, PoolTypes, PlaceTypes
  <2>3. (Stopped /\ Leaving)'
    BY DEF Stopped, Leaving, JobsRun, PoolTypes, PlaceTypes, Running
  <2>4. (Reading /\ FewRun)'
    <3>1. running' = running \cup {Head(pending)} /\ Cardinality(running) < PoolSize
      BY ONLY <1>9 DEF TakeJob, Pool!Start, Pool!Cardinality, Cardinality
    <3>2. IsFiniteSet(running)
      BY DEF FewRun
    <3>3. FewRun'
      <4>1. IsFiniteSet(running') /\ Cardinality(running') <= Cardinality(running) + 1
        BY ONLY <3>1, <3>2, FS_AddElement, FS_CardinalityType
      <4>2. Cardinality(running) \in Nat /\ Cardinality(running') \in Nat /\ PoolSize \in Nat
        BY ONLY <3>2, <4>1, FS_CardinalityType, ShellConstants
      <4> QED BY ONLY <3>1, <4>1, <4>2 DEF FewRun
    <3> QED BY <3>3 DEF Reading, PlaceTypes, ThreadTypes, PoolTypes
  <2> QED BY <2>1, <2>2, <2>3, <2>4
<1>10. CASE DeleteModules
  BY <1>10 DEF DeleteModules, PoolTypes, BufferTypes, PlaceTypes, ThreadTypes, CommandTypes,
     Running, AtRest, Kinds, Names, Texts, JobsRun, Distinct, Stopped, Leaving, Reading, FewRun
<1>11. CASE ProcessEnds
  BY <1>11 DEF ProcessEnds, PoolTypes, BufferTypes, PlaceTypes, ThreadTypes, CommandTypes,
     Running, AtRest, Kinds, Names, Texts, JobsRun, Distinct, Stopped, Leaving, Reading, FewRun
<1>12. ASSUME NEW t \in Threads, FindBody(t) PROVE AnyUser'
  <2> USE <1>12 DEF FindBody
  <2>1. Types'
    <3>2. BufferTypes'
      BY NoCode DEF BufferTypes
    <3> QED BY <3>2 DEF PoolTypes, PlaceTypes, ThreadTypes, CommandTypes, Running, AtRest, Kinds,
       Names, Texts
  <2>2. (JobsRun /\ Distinct)'
    BY DEF JobsRun, Distinct, PoolTypes, PlaceTypes
  <2>3. (Stopped /\ Leaving)'
    BY DEF Stopped, Leaving, JobsRun, PoolTypes, PlaceTypes, Running
  <2>4. (Reading /\ FewRun)'
    <3>1. Reading /\ index \in [Threads -> Nat]
      BY DEF ThreadTypes
    <3>2. index' = [index EXCEPT ![t] = 1] /\ pc' = [pc EXCEPT ![t] = "output"]
      OBVIOUS
    <3>3. Reading'
      BY ONLY <3>1, <3>2, ShellConstants DEF Reading
    <3> QED BY <3>3 DEF FewRun
  <2> QED BY <2>1, <2>2, <2>3, <2>4
<1>13. ASSUME NEW t \in Threads, gen_buffer_output(t) PROVE AnyUser'
  <2> USE <1>13 DEF gen_buffer_output
  <2>1. Types'
    <3>1. gen_buffer \in Seq(Entry) /\ index[t] \in Nat /\ compiled_body \in [Names -> Seq(Entry)]
      BY DEF BufferTypes, ThreadTypes
    <3>5. name[t] \in Names
      BY DEF ThreadTypes
    <3>6. index[t] > 0 /\ index[t] <= Len(gen_buffer)
      BY DEF BufferTypes, ThreadTypes, Reading
    <3>7. gen_buffer[index[t]] \in Entry
      BY ONLY <3>1, <3>6
    <3>8. gen_buffer' = Free(gen_buffer, index[t])
      BY DEF Free
    <3>2. gen_buffer' \in Seq(Entry)
      BY ONLY <3>1, <3>6, <3>8, Freed
    <3>3. compiled_body' \in [Names -> Seq(Entry)]
      BY <3>1, <3>5, <3>7, MoreCode
    <3>9. index \in [Threads -> Nat] /\ index' = [index EXCEPT ![t] = @ + 1]
      BY DEF ThreadTypes
    <3>4. index' \in [Threads -> Nat]
      BY ONLY <3>9
    <3> QED BY <3>2, <3>3, <3>4 DEF PoolTypes, BufferTypes, PlaceTypes, ThreadTypes, CommandTypes,
       Running, AtRest, Kinds, Names, Texts
  <2>2. (JobsRun /\ Distinct)'
    BY DEF JobsRun, Distinct, PoolTypes, PlaceTypes
  <2>3. (Stopped /\ Leaving)'
    BY DEF Stopped, Leaving, JobsRun, PoolTypes, PlaceTypes, Running
  <2>4. (Reading /\ FewRun)'
    <3>1. Reading /\ index \in [Threads -> Nat]
      BY DEF ThreadTypes
    <3>2. index' = [index EXCEPT ![t] = @ + 1] /\ pc' = pc
      OBVIOUS
    <3>3. Reading'
      BY ONLY <3>1, <3>2, ShellConstants DEF Reading
    <3> QED BY <3>3 DEF FewRun
  <2> QED BY <2>1, <2>2, <2>3, <2>4
<1>14. ASSUME NEW t \in Threads, OutputDone(t) PROVE AnyUser'
  BY <1>14 DEF OutputDone, PoolTypes, BufferTypes, PlaceTypes, ThreadTypes, CommandTypes, Running,
     AtRest, Kinds, Names, Texts, JobsRun, Distinct, Stopped, Leaving, Reading, FewRun
<1>15. ASSUME NEW t \in Threads, gen_buffer_reset(t) PROVE AnyUser'
  BY <1>15 DEF gen_buffer_reset, PoolTypes, BufferTypes, PlaceTypes, ThreadTypes, CommandTypes,
     Running, AtRest, Kinds, Names, Texts, JobsRun, Distinct, Stopped, Leaving, Reading, FewRun
<1>16. ASSUME NEW t \in Threads, RunInit(t) PROVE AnyUser'
  <2> USE <1>16 DEF RunInit
  <2>1. (PoolTypes /\ BufferTypes /\ CommandTypes)'
    BY DEF PoolTypes, BufferTypes, CommandTypes, PlaceTypes
  <2>2. PlaceTypes'
    BY DEF PlaceTypes, Running, AtRest, JobsRun
  <2>3. ThreadTypes'
    BY DEF ThreadTypes, BufferTypes
  <2>4. (JobsRun /\ Distinct)'
    BY DEF JobsRun, Distinct, PlaceTypes
  <2>5. (Stopped /\ Leaving)'
    BY DEF Stopped, Leaving, JobsRun, PlaceTypes
  <2>6. (Reading /\ FewRun)'
    BY DEF Reading, FewRun, PlaceTypes
  <2> QED BY <2>1, <2>2, <2>3, <2>4, <2>5, <2>6
<1>17. ASSUME NEW t \in Threads, Execute(t) PROVE AnyUser'
  BY <1>17 DEF Execute, PoolTypes, BufferTypes, PlaceTypes, ThreadTypes, CommandTypes, Running,
     AtRest, Kinds, Names, Texts, JobsRun, Distinct, Stopped, Leaving, Reading, FewRun
<1>18. ASSUME NEW t \in Threads, GraceExit(t) PROVE AnyUser'
  BY <1>18 DEF GraceExit, PoolTypes, BufferTypes, PlaceTypes, ThreadTypes, CommandTypes, Running,
     AtRest, Kinds, Names, Texts, JobsRun, Distinct, Stopped, Leaving, Reading, FewRun
<1>19. ASSUME NEW t \in Threads, Stop(t) PROVE AnyUser'
  <2> USE <1>19 DEF Stop
  <2>1. Types'
    BY DEF PoolTypes, BufferTypes, PlaceTypes, ThreadTypes, CommandTypes, Running, AtRest, Kinds,
       Names, Texts
  <2>2. (JobsRun /\ Distinct)'
    BY DEF JobsRun, Distinct, PoolTypes, PlaceTypes
  <2>3. (Stopped /\ Leaving)'
    <3>1. t = Console
      BY DEF JobsRun, Stopped, CommandTypes, PlaceTypes
    <3>2. pending = <<>> /\ running = {}
      BY DEF Stopped, CommandTypes
    <3> QED BY <3>1, <3>2 DEF Stopped, Leaving, PlaceTypes
  <2>4. (Reading /\ FewRun)'
    BY DEF Reading, FewRun, PlaceTypes, ThreadTypes
  <2> QED BY <2>1, <2>2, <2>3, <2>4
<1>20. ASSUME NEW t \in Threads, Cleanup(t) PROVE AnyUser'
  <2> USE <1>20 DEF Cleanup, Pool!Finish
  <2>1. Types'
    <3>1. ThreadTypes'
      BY NoCode DEF ThreadTypes
    <3>2. PoolTypes'
      BY DEF PoolTypes
    <3>3. (BufferTypes /\ CommandTypes)'
      BY DEF BufferTypes, CommandTypes, PlaceTypes, Running, Kinds, Texts
    <3>4. PlaceTypes'
      BY DEF PlaceTypes, Running, AtRest
    <3> QED BY <3>1, <3>2, <3>3, <3>4
  <2>2. (JobsRun /\ Distinct)'
    <3>1. CASE t = Console
      <4>1. UNCHANGED poolVars /\ \A j \in Jobs : pc'[j] = pc[j]
        BY <3>1 DEF PlaceTypes
      <4> QED BY <4>1 DEF JobsRun, Distinct
    <3>2. CASE t # Console
      <4>1. /\ t \in Jobs /\ t \in running /\ running' = running \ {t}
            /\ finished' = finished \cup {t} /\ pending' = pending
        BY <3>2
      <4>2. JobsRun'
        BY <3>2, <4>1 DEF JobsRun, PlaceTypes
      <4>3. Distinct
        OBVIOUS
      <4>4. Distinct'
        BY ONLY <4>1, <4>3 DEF Distinct
      <4> QED BY <4>2, <4>4
    <3> QED BY <3>1, <3>2
  <2>3. (Stopped /\ Leaving)'
    BY DEF Stopped, Leaving, JobsRun, PoolTypes, PlaceTypes, Running
  <2>4. (Reading /\ FewRun)'
    <3>1. running' = running \/ running' = running \ {t}
      OBVIOUS
    <3>2. FewRun
      OBVIOUS
    <3>3. FewRun'
      <4>1. IsFiniteSet(running) /\ Cardinality(running) \in Nat
        BY ONLY <3>2, FS_CardinalityType DEF FewRun
      <4>4. IsFiniteSet(running \ {t}) /\ Cardinality(running \ {t}) \in {Cardinality(running), Cardinality(running) - 1}
        BY ONLY <4>1, FS_RemoveElement
      <4>3. IsFiniteSet(running') /\ Cardinality(running') <= Cardinality(running)
        BY ONLY <4>1, <4>4, <3>1
      <4>2. Cardinality(running) \in Nat /\ Cardinality(running') \in Nat /\ PoolSize \in Nat
        BY ONLY <4>1, <4>3, FS_CardinalityType, ShellConstants
      <4> QED BY ONLY <3>2, <4>3, <4>2 DEF FewRun
    <3> QED BY <3>3 DEF Reading, PlaceTypes, ThreadTypes, PoolTypes
  <2> QED BY <2>1, <2>2, <2>3, <2>4
<1>21. CASE UNCHANGED vars
  BY <1>21 DEF PoolTypes, BufferTypes, PlaceTypes, ThreadTypes, CommandTypes, Running, AtRest,
     Kinds, Names, Texts, JobsRun, Distinct, Stopped, Leaving, Reading, FewRun
<1> QED BY <1>1, <1>2, <1>3, <1>4, <1>5, <1>6, <1>7, <1>8, <1>9, <1>10, <1>11, <1>12, <1>13, <1>14,
   <1>15, <1>16, <1>17, <1>18, <1>19, <1>20, <1>21, <1>22
  DEF Next, Command, cmd_shell, cmd_execute

-----------------------------------------------------------------------------
(* What holds for any user.                                                *)

(* AnyUser: the pool's jobs are the threads that execute, and once the     *)
(* pool is stopped only the way out of the shell is left (shell.c).        *)
THEOREM AnyUserAlways == Spec => []AnyUser
BY InitAny, NextAny, PTL DEF Spec

(* TypeOK: each job is queued, running or finished, the threads that       *)
(* execute are those of the jobs the pool runs, and never more than it has *)
(* threads (cmd_thread_execute, shell.c).                                  *)
THEOREM TypeCorrect == Spec => []TypeOK
<1>1. AnyUser => TypeOK
  <2> SUFFICES ASSUME AnyUser PROVE TypeOK
    OBVIOUS
  <2> USE DEF AnyUser, Types
  <2>1. {pending[i] : i \in DOMAIN pending} \cup running \cup finished \subseteq Jobs
    BY DEF PoolTypes
  <2>2. \A i \in DOMAIN gen_buffer : gen_buffer[i].text \in Scripts \cup Typed
    <3>1. \A i \in DOMAIN gen_buffer : gen_buffer[i] \in Entry
      BY DEF BufferTypes
    <3> QED BY <3>1 DEF Entry, Texts
  <2> QED BY <2>1, <2>2 DEF TypeOK, JobsRun, FewRun, CommandTypes
<1> QED BY <1>1, AnyUserAlways, PTL

(* LeavesNoJobBehind: whoever gives the commands and whatever the scripts  *)
(* are, cmd_grace_exit has stopped the pool only when every job that was   *)
(* added has finished, and none is added or started later.                 *)
THEOREM GraceExitLeavesNoJob == Spec => []LeavesNoJobBehind
<1>1. AnyUser => LeavesNoJobBehind
  BY DEF AnyUser, Stopped, LeavesNoJobBehind
<1> QED BY <1>1, AnyUserAlways, PTL

(* The price of it: a job whose script calls grace_exit waits for itself.  *)
(* Its thread never returns (cmd_grace_exit in a job, shell.c).            *)
NeverReturns == \A j \in Jobs : pc[j] = "wait" => pc'[j] = "wait"

THEOREM GraceExitInJobHangs == Spec => [][NeverReturns]_vars
<1>1. AnyUser /\ [Next]_vars => [NeverReturns]_vars
  <2> SUFFICES ASSUME AnyUser, [Next]_vars, NEW j \in Jobs, pc[j] = "wait" PROVE pc'[j] = "wait"
    BY DEF NeverReturns
  <2> USE ShellConstants DEF AnyUser, Types, PlaceTypes, Threads, Goto, At
  <2>1. j \in running /\ j # Console /\ bundle = "started"
    BY DEF JobsRun, Stopped, CommandTypes
  <2>2. CASE TakeJob
    <3>1. pending \in Seq(Jobs) /\ pending # <<>> /\ pc' = [pc EXCEPT ![Head(pending)] = "find"]
      BY <2>2 DEF TakeJob, Pool!Start, PoolTypes
    <3>2. Head(pending) \notin running
      <4>1. 1 \in DOMAIN pending /\ Head(pending) = pending[1]
        BY <3>1
      <4> QED BY <4>1 DEF Distinct
    <3> QED BY <2>1, <3>1, <3>2
  <2>3. CASE \E t \in Threads : cmd_execute(t)
    <3>1. PICK t \in Threads : cmd_execute(t)
      BY <2>3
    <3>2. CASE t = j
      BY <2>1, <3>1, <3>2 DEF cmd_execute, FindBody, gen_buffer_output, OutputDone,
         gen_buffer_reset, RunInit, Execute, GraceExit, Stop, Cleanup
    <3>3. CASE t # j
      BY <3>1, <3>3 DEF cmd_execute, FindBody, gen_buffer_output, OutputDone, gen_buffer_reset,
         RunInit, Execute, GraceExit, Stop, Cleanup, vars
    <3> QED BY <3>2, <3>3
  <2>4. CASE Command
    BY <2>1, <2>4 DEF Command, CompileCommand, ExecuteCommand, ThreadExecute, Give
  <2>5. CASE cmd_shell
    BY <2>1, <2>5 DEF cmd_shell, LoopTest, AddWork, Lock, ReadFile, CompileText, Unlock, DeleteModules,
       ProcessEnds
  <2>6. CASE UNCHANGED vars
    BY <2>6 DEF vars
  <2> QED BY <2>2, <2>3, <2>4, <2>5, <2>6 DEF Next
<1> QED BY <1>1, AnyUserAlways, PTL DEF Spec

-----------------------------------------------------------------------------
(***************************************************************************)
(* Code that is collected twice, and modules that are used after main has  *)
(* deleted them.                                                           *)
(***************************************************************************)

Collects(t) == pc[t] \in {"output", "reset"}

\* Until two threads collect at once, one at most does, and what was freed
\* lies behind it.
OneCollects ==
    "two collections" \notin rushed =>
        /\ \A t, u \in Threads : Collects(t) /\ Collects(u) => t = u
        /\ \A i \in DOMAIN gen_buffer :
               gen_buffer[i].live \/ \E t \in Threads : Collects(t) /\ (pc[t] = "output" => i < index[t])
        /\ "freed text" \notin fault

\* Until main leaves before its jobs are done, none is there when it has left.
JobsFirst ==
    "exit during a job" \notin rushed =>
        /\ modules # "there" => pending = <<>> /\ running = {}
        /\ "deleted module" \notin fault

Causes == OneCollects /\ JobsFirst /\ fault \subseteq {"freed text", "deleted module"}

\* Nobody executes once main has left, unless it left too early.
LEMMA NobodyLeft ==
    ASSUME AnyUser, JobsFirst, "exit during a job" \notin rushed, NEW t \in Threads, pc[t] \in Running
    PROVE  modules = "there"
<1> SUFFICES ASSUME modules # "there" PROVE FALSE
  OBVIOUS
<1>1. running = {} /\ pc[Console] = "left"
  BY DEF JobsFirst, AnyUser, Leaving
<1>2. CASE t = Console
  BY <1>1, <1>2 DEF Running
<1>3. CASE t \in Jobs
  BY <1>1, <1>3 DEF AnyUser, JobsRun, Running
<1> QED BY <1>2, <1>3 DEF Threads

\* A step that collects nothing, frees nothing and moves no thread into or
\* out of a collection.
LEMMA Apart ==
    ASSUME OneCollects, fault' = fault \/ fault' = fault \cup {"deleted module"},
           rushed \subseteq rushed', index' = index,
           \A t \in Threads : Collects(t) <=> Collects(t)',
           \A t \in Threads : Collects(t) => pc'[t] = pc[t],
           \A i \in DOMAIN gen_buffer' : gen_buffer'[i].live \/ (i \in DOMAIN gen_buffer /\ gen_buffer'[i] = gen_buffer[i])
    PROVE  OneCollects'
<1> SUFFICES ASSUME "two collections" \notin rushed'
    PROVE  /\ \A t, u \in Threads : Collects(t)' /\ Collects(u)' => t = u
           /\ \A i \in DOMAIN gen_buffer' :
               gen_buffer'[i].live \/ \E t \in Threads : Collects(t)' /\ (pc'[t] = "output" => i < index'[t])
           /\ "freed text" \notin fault'
  BY DEF OneCollects
<1>1. "two collections" \notin rushed
  OBVIOUS
<1> QED BY <1>1 DEF OneCollects

LEMMA FirstOf ==
    ASSUME NEW S, NEW s \in Seq(S), s # <<>>
    PROVE  1 \in DOMAIN s /\ s[1] \in S /\ Head(s) = s[1]
OBVIOUS

LEMMA AddedLast ==
    ASSUME NEW S, NEW b \in Seq(S), NEW e
    PROVE  \A i \in DOMAIN Append(b, e) :
               Append(b, e)[i] = e \/ (i \in DOMAIN b /\ Append(b, e)[i] = b[i])
<1>1. b \in Seq(S \cup {e}) /\ e \in S \cup {e}
  OBVIOUS
<1>2. /\ Append(b, e) \in Seq(S \cup {e}) /\ Len(Append(b, e)) = Len(b) + 1
      /\ \A i \in 1 .. Len(b) : Append(b, e)[i] = b[i]
      /\ Append(b, e)[Len(b) + 1] = e
  BY ONLY <1>1, AppendProperties
<1>3. DOMAIN b = 1 .. Len(b) /\ DOMAIN Append(b, e) = 1 .. Len(b) + 1 /\ Len(b) \in Nat
  BY ONLY <1>1, <1>2, LenProperties
<1> DEFINE a == Append(b, e)
           m == Len(b)
<1>4. \A i \in 1 .. m : a[i] = b[i] /\ i \in DOMAIN b
  BY <1>2, <1>3
<1>5. a[m + 1] = e /\ DOMAIN a = 1 .. m + 1 /\ m \in Nat
  BY <1>2, <1>3
<1> HIDE DEF a, m
<1>6. \A i \in DOMAIN a : a[i] = e \/ (i \in DOMAIN b /\ a[i] = b[i])
  <2> TAKE i \in DOMAIN a
  <2>1. i \in 1 .. m \/ i = m + 1
    BY ONLY <1>5
  <2> QED BY <2>1, <1>4, <1>5
<1> QED BY <1>6 DEF a

LEMMA NoPlace == DOMAIN <<>> = {}
BY EmptySeq

LEMMA InitCauses == Init => Causes
<1> SUFFICES ASSUME Init PROVE Causes
  OBVIOUS
<1>1. gen_buffer = <<>> /\ fault = {} /\ modules = "there" /\ pc = [t \in Threads |-> IF t = Console THEN "loop" ELSE "idle"]
  BY DEF Init
<1>2. OneCollects
  <2>1. \A t \in Threads : ~Collects(t)
    BY <1>1 DEF Collects
  <2>2. DOMAIN gen_buffer = {} /\ "freed text" \notin fault
    BY ONLY <1>1, NoPlace
  <2> QED BY <2>1, <2>2 DEF OneCollects
<1>3. JobsFirst
  BY <1>1 DEF JobsFirst
<1> QED BY <1>1, <1>2, <1>3 DEF Causes

LEMMA NextCauses == AnyUser /\ Causes /\ [Next]_vars => Causes'
<1> SUFFICES ASSUME AnyUser, Causes, [Next]_vars PROVE Causes'
  OBVIOUS
<1> USE ShellConstants DEF Causes
<1>t. /\ pc \in [Threads -> Running \cup AtRest \cup {"lock", "compile", "add", "idle"}]
      /\ index \in [Threads -> Nat] /\ gen_buffer \in Seq(Entry) /\ Console \in Threads /\ Jobs \subseteq Threads
  BY DEF AnyUser, Types, PlaceTypes, ThreadTypes, BufferTypes, Threads
<1>1. ASSUME LoopTest \/ Lock \/ ReadFile \/ Unlock \/ ProcessEnds \/ UNCHANGED vars PROVE Causes'
  <2>1. OneCollects'
    BY <1>1, <1>t, Apart DEF LoopTest, Lock, ReadFile, Unlock, ProcessEnds, Goto, vars, poolVars, buffers,
       threads, command, rest, Collects
  <2>2. JobsFirst'
    BY <1>1 DEF LoopTest, Lock, ReadFile, Unlock, ProcessEnds, Goto, vars, poolVars, threads, command,
       rest, JobsFirst
  <2>3. fault' = fault
    BY <1>1 DEF LoopTest, Lock, ReadFile, Unlock, ProcessEnds, vars
  <2> QED BY <2>1, <2>2, <2>3
<1>2. CASE Command
  <2>1. PICK k, n, count : /\ Give(k, n, count) /\ rushed' = rushed /\ fault' = fault
                           /\ \/ Goto(Console, "lock") \/ Goto(Console, "find") \/ Goto(Console, "add")
    BY <1>2 DEF Command, CompileCommand, ExecuteCommand, ThreadExecute, Give
  <2>2. pc[Console] = "prompt" /\ UNCHANGED <<poolVars, gen_buffer, index, modules>>
    BY <2>1 DEF Give, buffers
  <2>3. OneCollects'
    BY <2>1, <2>2, <1>t, Apart DEF Goto, Collects
  <2>4. JobsFirst'
    BY <2>1, <2>2 DEF JobsFirst, poolVars
  <2> QED BY <2>1, <2>3, <2>4
<1>3. CASE AddWork
  <2>1. pc[Console] = "add" /\ UNCHANGED <<gen_buffer, index, modules, fault, rushed>>
    BY <1>3 DEF AddWork, buffers, rest
  <2>2. OneCollects'
    BY <1>3, <2>1, <1>t, Apart DEF AddWork, Goto, Collects
  <2>3. modules = "there"
    BY <2>1 DEF AnyUser, Leaving
  <2> QED BY <2>1, <2>2, <2>3 DEF JobsFirst
<1>4. CASE CompileText
  <2> DEFINE main == parse_no_error /\ NextFile.text \in Mains \cup Typed
             e == [text |-> NextFile.text, main |-> main, live |-> TRUE]
  <2>1. UNCHANGED <<index, modules, fault, rushed, pc, poolVars>> /\ gen_buffer' = Append(gen_buffer, e)
    BY <1>4 DEF CompileText, rest, threads
  <2>3. e.live
    OBVIOUS
  <2> HIDE DEF e
  <2>4. \A i \in DOMAIN gen_buffer' : gen_buffer'[i].live \/ (i \in DOMAIN gen_buffer /\ gen_buffer'[i] = gen_buffer[i])
    <3>1. \A i \in DOMAIN Append(gen_buffer, e) :
             Append(gen_buffer, e)[i] = e \/ (i \in DOMAIN gen_buffer /\ Append(gen_buffer, e)[i] = gen_buffer[i])
      BY ONLY <1>t, AddedLast
    <3> QED BY ONLY <3>1, <2>1, <2>3
  <2>2. OneCollects'
    BY <2>1, <2>4, Apart DEF Collects
  <2> QED BY <2>1, <2>2 DEF JobsFirst, poolVars
<1>5. CASE TakeJob
  <2>1. /\ pending # <<>> /\ Head(pending) \in Jobs /\ pc[Head(pending)] = "idle"
        /\ pc' = [pc EXCEPT ![Head(pending)] = "find"]
    <3>1. pending \in Seq(Jobs) /\ pending # <<>> /\ pc' = [pc EXCEPT ![Head(pending)] = "find"]
      BY <1>5 DEF TakeJob, Pool!Start, Goto, AnyUser, Types, PoolTypes
    <3>2. Head(pending) \in Jobs /\ 1 \in DOMAIN pending /\ Head(pending) = pending[1]
      BY ONLY <3>1, FirstOf
    <3>3. Head(pending) \notin running
      BY <3>2 DEF AnyUser, Distinct
    <3> QED BY <3>1, <3>2, <3>3 DEF AnyUser, JobsRun
  <2>2. UNCHANGED <<gen_buffer, index, modules, fault, rushed>>
    BY <1>5 DEF TakeJob, buffers, threads, rest
  <2>3. OneCollects'
    BY <2>1, <2>2, <1>t, Apart DEF Collects
  <2>4. JobsFirst'
    BY <2>1, <2>2 DEF JobsFirst
  <2> QED BY <2>2, <2>3, <2>4
<1>6. CASE DeleteModules
  <2>1. UNCHANGED <<gen_buffer, index, fault, pc, poolVars>>
    BY <1>6 DEF DeleteModules, buffers, threads
  <2>2. rushed' = rushed \cup (IF pending # <<>> \/ running # {} THEN {"exit during a job"} ELSE {})
    BY <1>6 DEF DeleteModules, Rushes
  <2>3. OneCollects'
    BY <2>1, <2>2, <1>t, Apart DEF Collects
  <2>4. JobsFirst'
    BY <2>1, <2>2 DEF JobsFirst, poolVars
  <2> QED BY <2>1, <2>3, <2>4
<1>7. ASSUME NEW t \in Threads, cmd_execute(t) PROVE Causes'
  <2>1. /\ pc[t] \in Running /\ modules' = modules
        /\ rushed \subseteq rushed' /\ ("exit during a job" \in rushed' => "exit during a job" \in rushed)
    BY <1>7 DEF cmd_execute, FindBody, gen_buffer_output, OutputDone, gen_buffer_reset, RunInit, Execute,
       GraceExit, Stop, Cleanup, At, Running, Rushes, rest
  <2>2. modules = "there" \/ "exit during a job" \in rushed'
    BY <2>1, NobodyLeft
  <2>3. JobsFirst'
    <3> SUFFICES ASSUME "exit during a job" \notin rushed'
                 PROVE  modules' = "there" /\ "deleted module" \notin fault'
      BY DEF JobsFirst
    <3>1. modules = "there" /\ modules' = "there" /\ "deleted module" \notin fault
      BY <2>1, <2>2 DEF JobsFirst
    <3>2. fault' \subseteq fault \cup {"freed text"}
      BY <1>7, <3>1 DEF cmd_execute, FindBody, gen_buffer_output, OutputDone, gen_buffer_reset, RunInit, Execute,
         GraceExit, Stop, Cleanup, Used
    <3> QED BY <3>1, <3>2
  <2>4. fault' \subseteq {"freed text", "deleted module"}
    BY <1>7 DEF cmd_execute, FindBody, gen_buffer_output, OutputDone, gen_buffer_reset, RunInit, Execute,
       GraceExit, Stop, Cleanup, Used
  <2>5. OneCollects'
    <3>1. CASE FindBody(t)
      <4> SUFFICES ASSUME "two collections" \notin rushed' PROVE OneCollects'
        BY DEF OneCollects
      <4>1. \A u \in Threads : ~Collects(u)
        BY <3>1 DEF FindBody, At, Rushes, Collects
      <4>2. /\ pc' = [pc EXCEPT ![t] = "output"] /\ gen_buffer' = gen_buffer
            /\ "freed text" \in fault' => "freed text" \in fault
        BY <3>1 DEF FindBody, Goto, Used
      <4>3. \A u \in Threads : Collects(u)' => u = t
        BY <4>1, <4>2, <1>t DEF Collects
      <4> QED BY <4>1, <4>2, <4>3, <2>1 DEF OneCollects
    <3>2. CASE gen_buffer_output(t)
      <4> SUFFICES ASSUME "two collections" \notin rushed' PROVE OneCollects'
        BY DEF OneCollects
      <4> DEFINE i == index[t]
      <4>1. /\ pc[t] = "output" /\ i \in Nat /\ i > 0 /\ i <= Len(gen_buffer) /\ i \in DOMAIN gen_buffer
            /\ UNCHANGED <<pc, rushed>> /\ index' = [index EXCEPT ![t] = i + 1]
            /\ gen_buffer' = Free(gen_buffer, i)
        <5>1. /\ pc[t] = "output" /\ i <= Len(gen_buffer) /\ UNCHANGED <<pc, rushed>>
              /\ index' = [index EXCEPT ![t] = i + 1]
          BY <3>2 DEF gen_buffer_output, At
        <5>2. i \in Nat /\ i > 0
          BY <5>1, <1>t DEF AnyUser, Reading
        <5>3. gen_buffer' = Free(gen_buffer, i)
          BY <3>2 DEF gen_buffer_output, Free
        <5>4. i \in DOMAIN gen_buffer
          BY ONLY <5>1, <5>2, <1>t
        <5> QED BY ONLY <5>1, <5>2, <5>3, <5>4
      <4>2. \A u \in Threads : Collects(u) => u = t
        BY <4>1 DEF OneCollects, Collects
      <4>3. gen_buffer[i].live
        <5>1. gen_buffer[i].live \/ \E u \in Threads : Collects(u) /\ (pc[u] = "output" => i < index[u])
          BY <4>1 DEF OneCollects
        <5>2. ~(i < index[t])
          BY ONLY <4>1
        <5> QED BY <5>1, <5>2, <4>1, <4>2
      <4>4. "freed text" \notin fault'
        BY <3>2, <4>1, <4>3 DEF gen_buffer_output, Used, OneCollects
      <4>5. \A k \in DOMAIN gen_buffer' : gen_buffer'[k].live \/ k < index'[t]
        <5>1. DOMAIN gen_buffer' = DOMAIN gen_buffer /\ \A k \in DOMAIN gen_buffer : k # i => gen_buffer'[k] = gen_buffer[k]
          <6>1. /\ Free(gen_buffer, i) \in Seq(Entry) /\ Len(Free(gen_buffer, i)) = Len(gen_buffer)
                /\ \A k \in 1 .. Len(gen_buffer) : k # i => Free(gen_buffer, i)[k] = gen_buffer[k]
            BY ONLY <1>t, <4>1, Freed
          <6> QED BY ONLY <6>1, <1>t, <4>1
        <5>2. index'[t] = i + 1 /\ DOMAIN gen_buffer \subseteq Nat
          BY ONLY <1>t, <4>1
        <5>3. \A k \in DOMAIN gen_buffer : gen_buffer[k].live \/ k < i
          BY <4>1, <4>2 DEF OneCollects
        <5> HIDE DEF i
        <5> QED BY ONLY <4>1, <5>1, <5>2, <5>3
      <4> QED BY <4>1, <4>2, <4>4, <4>5 DEF OneCollects, Collects
    <3>3. CASE OutputDone(t)
      <4>1. pc' = [pc EXCEPT ![t] = "reset"] /\ UNCHANGED <<gen_buffer, index, fault, rushed>> /\ pc[t] = "output"
        BY <3>3 DEF OutputDone, Goto, At, buffers, threads
      <4> QED BY <4>1, <1>t DEF OneCollects, Collects
    <3>4. CASE gen_buffer_reset(t)
      <4>1. pc' = [pc EXCEPT ![t] = "link"] /\ gen_buffer' = <<>> /\ UNCHANGED <<fault, rushed>>
        BY <3>4 DEF gen_buffer_reset, Goto
      <4>2. DOMAIN gen_buffer' = {}
        BY ONLY <4>1, NoPlace
      <4>3. \A u \in Threads : Collects(u)' => Collects(u)
        BY <4>1, <1>t DEF Collects
      <4> QED BY <4>1, <4>2, <4>3 DEF OneCollects
    <3>5. CASE RunInit(t) \/ Execute(t) \/ GraceExit(t) \/ Stop(t)
      <4>1. /\ UNCHANGED <<gen_buffer, index, rushed>> /\ ~Collects(t)
            /\ \E place : ~(place \in {"output", "reset"}) /\ pc' = [pc EXCEPT ![t] = place]
            /\ fault' = fault \/ fault' = fault \cup {"deleted module"}
        BY <3>5 DEF RunInit, Execute, GraceExit, Stop, Goto, At, Used, Collects, buffers, threads
      <4> QED BY <4>1, <1>t, Apart DEF Collects
    <3>6. CASE Cleanup(t)
      <4>1. /\ UNCHANGED <<gen_buffer, rushed>> /\ index' = [index EXCEPT ![t] = 0] /\ ~Collects(t)
            /\ \E place : ~(place \in {"output", "reset"}) /\ pc' = [pc EXCEPT ![t] = place]
            /\ "freed text" \in fault' => "freed text" \in fault
        BY <3>6 DEF Cleanup, Goto, At, Used, Collects, buffers
      <4> QED BY <4>1, <1>t DEF OneCollects, Collects
    <3> QED BY <1>7, <3>1, <3>2, <3>3, <3>4, <3>5, <3>6 DEF cmd_execute
  <2> QED BY <2>3, <2>4, <2>5
<1> QED BY <1>1, <1>2, <1>3, <1>4, <1>5, <1>6, <1>7 DEF Next, cmd_shell

(* FaultsHaveTheirCause and NoFault: whoever gives the commands,           *)
(* gen_buffer_output collects no freed text before two threads are in      *)
(* mod_lang_compile_generated_bytecode at once, which nothing prevents,    *)
(* and no thread uses a deleted module before main leaves during a job.    *)
THEOREM FaultsAreExplained == Spec => [](FaultsHaveTheirCause /\ (rushed = {} => NoFault))
<1>1. Causes => FaultsHaveTheirCause /\ (rushed = {} => NoFault)
  BY DEF Causes, OneCollects, JobsFirst, FaultsHaveTheirCause, NoFault
<1>2. Spec => []Causes
  BY InitCauses, NextCauses, AnyUserAlways, PTL DEF Spec
<1> QED BY <1>1, <1>2, PTL

=============================================================================
