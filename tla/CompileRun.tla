----------------------------- MODULE CompileRun -----------------------------
(***************************************************************************)
(* The compile_server: CompileAndRun::Start as the worker threads of one   *)
(* or several compile_server processes run it, the file names it makes     *)
(* (FileUtil::UniqFileName), the six temporary files of a job, the g++ and *)
(* user-program children it forks and waits for, and the crash of a        *)
(* process, whose children and files outlive it.                           *)
(*                                                                         *)
(* A job is one POST /compile_and_run.  The contents of a file are the set *)
(* of jobs whose data went into it: the source holds its writer, the       *)
(* executable what the source held, the output what the executable and the *)
(* input held.  A path leads to an inode, which an open descriptor keeps   *)
(* after an unlink.  The unlinks of RemoveTempFile, and the two reads of a *)
(* reply, are one step each.  Fewer jobs are modelled than a process has   *)
(* pool threads, so none waits for a thread.                               *)
(***************************************************************************)
EXTENDS Integers, FiniteSets

CONSTANTS
  Jobs,        \* requests
  Servers,     \* compile_server processes
  Dirs,        \* temp directories
  ServerOf,    \* the process each job is sent to
  DirOf,       \* the ./temp of each process (its working directory's)
  Failures,    \* steps that may fail: "request", "src", "stdin", "fork",
               \* "compile_err", "open", "fork_run", "exec"
  NoFile,      \* no inode
  MaxClock,    \* bound on the millisecond clock
  MaxCrashes   \* bound on the crashes

Kinds  == {"src", "compile_err", "exe", "stdin", "stdout", "stderr"}
RunFiles == {"stdin", "stdout", "stderr"}
FdKinds  == RunFiles \cup {"compile_err"}

\* A job creates at most one file of a kind, and an empty input when the one
\* it wrote is no longer there: a creator and a kind name an inode.
Inodes == Jobs \X (Kinds \cup {"blank"})

\* <ms>_<id>, in a directory.  The id of the first call is 1.
Names == Dirs \X (0 .. MaxClock) \X (1 .. Cardinality(Jobs))
Paths == Names \X Kinds

ASSUME JobsAssumption == IsFiniteSet(Jobs)
ASSUME PlacementAssumption ==
  ServerOf \in [Jobs -> Servers] /\ DirOf \in [Servers -> Dirs]
ASSUME FailureAssumption ==
  Failures \subseteq {"request", "src", "stdin", "fork", "compile_err",
                      "open", "fork_run", "exec"}
ASSUME BoundAssumption == MaxClock \in Nat /\ MaxCrashes \in Nat
ASSUME NoFileAssumption == NoFile \notin Inodes

VARIABLES
  clock,    \* GetTimeMs
  id,       \* per process: UniqFileName's atomic counter
  dir,      \* path -> inode
  disk,     \* inode -> jobs whose data it holds
  pc,       \* per job: where it is in Start
  ms,       \* per job: the time UniqFileName read
  name,     \* per job: {file_name}, or {} before it has one
  status,   \* per job: status_code, 1 for any signal
  result,   \* per job: the jobs whose data is in the reply
  child,    \* per job: what its child process does
  fds,      \* per job: the inodes its children were given
  image,    \* per job: the jobs whose code its running program is
  killed,   \* per job: did its program end by a signal
  held,     \* per process: descriptors Runner::Run has opened and not closed
  cut,      \* history, per process: opens of the run files that failed
  ran,      \* history, per job: was its program executed
  earlier,  \* history, per job: jobs of its server with a name when it began
  crashes   \* number of crashes

files   == <<dir, disk>>
counts  == <<held, cut>>
history == <<ran, earlier, crashes>>
vars    == <<clock, id, dir, disk, pc, ms, name, status, result, child, fds,
             image, killed, held, cut, ran, earlier, crashes>>

PCs == {"idle", "time", "name", "src", "stdin", "compile", "compiling",
        "open", "fork", "running", "end", "remove", "done", "refused",
        "crashed"}
Ended == {"done", "refused", "crashed"}
ChildStates == {"none", "redirect", "gxx", "exec", "program"}

TypeOK ==
  /\ clock \in 0 .. MaxClock
  /\ id \in [Servers -> 0 .. Cardinality(Jobs)]
  /\ dir \in [Paths -> Inodes \cup {NoFile}]
  /\ disk \in [Inodes -> SUBSET Jobs]
  /\ pc \in [Jobs -> PCs]
  /\ ms \in [Jobs -> 0 .. MaxClock]
  /\ name \in [Jobs -> SUBSET Names]
  /\ status \in [Jobs -> -3 .. 1]
  /\ result \in [Jobs -> SUBSET Jobs]
  /\ child \in [Jobs -> ChildStates]
  /\ fds \in [Jobs -> [FdKinds -> Inodes \cup {NoFile}]]
  /\ image \in [Jobs -> SUBSET Jobs]
  /\ killed \in [Jobs -> BOOLEAN]
  /\ held \in [Servers -> Nat]
  /\ cut \in [Servers -> Nat]
  /\ ran \in [Jobs -> BOOLEAN]
  /\ earlier \in [Jobs -> SUBSET Jobs]
  /\ crashes \in 0 .. MaxCrashes

Init ==
  /\ clock = 0
  /\ id = [s \in Servers |-> 0]
  /\ dir = [p \in Paths |-> NoFile]
  /\ disk = [i \in Inodes |-> {}]
  /\ pc = [j \in Jobs |-> "idle"]
  /\ ms = [j \in Jobs |-> 0]
  /\ name = [j \in Jobs |-> {}]
  /\ status = [j \in Jobs |-> 0]
  /\ result = [j \in Jobs |-> {}]
  /\ child = [j \in Jobs |-> "none"]
  /\ fds = [j \in Jobs |-> [k \in FdKinds |-> NoFile]]
  /\ image = [j \in Jobs |-> {}]
  /\ killed = [j \in Jobs |-> FALSE]
  /\ held = [s \in Servers |-> 0]
  /\ cut = [s \in Servers |-> 0]
  /\ ran = [j \in Jobs |-> FALSE]
  /\ earlier = [j \in Jobs |-> {}]
  /\ crashes = 0

-----------------------------------------------------------------------------
Goto(j, place) == pc' = [pc EXCEPT ![j] = place]
Status(j, code) == status' = [status EXCEPT ![j] = code]
Child(j, state) == child' = [child EXCEPT ![j] = state]

\* Mutant: the paths of all jobs have one stem.
StemFixed(j) == CHOOSE n \in Names : n[1] = DirOf[ServerOf[j]]

\* The {file_name} of a job that has one, and its paths.
Stem(j) == CHOOSE n \in name[j] : TRUE
PathOf(j, k) == <<Stem(j), k>>
FileOf(j, k) == dir[PathOf(j, k)]
Exists(j, k) == FileOf(j, k) # NoFile

\* What a reader of the path gets: nothing when it cannot be opened.
Content(j, k) == IF Exists(j, k) THEN disk[FileOf(j, k)] ELSE {}

\* The inode an open() of the path with O_CREAT leads to.
Opened(j, k, new) == IF Exists(j, k) THEN FileOf(j, k) ELSE <<j, new>>

\* The descriptor of a run file; a missing input is created empty.
RunFile(j, k) == Opened(j, k, IF k = "stdin" THEN "blank" ELSE k)

\* Job j's files of kinds ks now lead to the inodes f.
LinkFiles(j, ks, f) ==
  LET n == Stem(j)
  IN  dir' = [p \in Paths |-> IF p[1] = n /\ p[2] \in ks
                                THEN f[p[2]] ELSE dir[p]]

-----------------------------------------------------------------------------
(***************************************************************************)
(* Start: the request.  Fields of the wrong type throw and the HTTP server *)
(* answers 500.  An empty program is answered without a file name.         *)
(***************************************************************************)
Refuse(j) ==
  /\ "request" \in Failures
  /\ pc[j] = "idle"
  /\ Goto(j, "refused")
  /\ UNCHANGED <<clock, id, files, ms, name, status, result, child, fds,
                 image, killed, counts, history>>

EmptyCode(j) ==
  /\ pc[j] = "idle"
  /\ Status(j, -1)
  /\ Goto(j, "end")
  /\ UNCHANGED <<clock, id, files, ms, name, result, child, fds, image,
                 killed, counts, history>>

(***************************************************************************)
(* UniqFileName: the increment of id, the reading of the clock and the     *)
(* reading of id are three steps.                                          *)
(***************************************************************************)
IncrementId(j) ==
  /\ pc[j] = "idle"
  /\ id' = [id EXCEPT ![ServerOf[j]] = @ + 1]
  /\ earlier' = [earlier EXCEPT ![j] =
                   {k \in Jobs : ServerOf[k] = ServerOf[j] /\ name[k] # {}}]
  /\ Goto(j, "time")
  /\ UNCHANGED <<clock, files, ms, name, status, result, child, fds, image,
                 killed, counts, ran, crashes>>

ReadClock(j) ==
  /\ pc[j] = "time"
  /\ ms' = [ms EXCEPT ![j] = clock]
  /\ Goto(j, "name")
  /\ UNCHANGED <<clock, id, files, name, status, result, child, fds, image,
                 killed, counts, history>>

\* Mutant: the name is the time alone.
ReadIdTimeOnly(j) ==
  /\ pc[j] = "name"
  /\ name' = [name EXCEPT ![j] = {<<DirOf[ServerOf[j]], ms[j], 1>>}]
  /\ Goto(j, "src")
  /\ UNCHANGED <<clock, id, files, ms, status, result, child, fds, image,
                 killed, counts, history>>

ReadId(j) ==
  /\ pc[j] = "name"
  /\ name' = [name EXCEPT ![j] =
                {<<DirOf[ServerOf[j]], ms[j], id[ServerOf[j]]>>}]
  /\ Goto(j, "src")
  /\ UNCHANGED <<clock, id, files, ms, status, result, child, fds, image,
                 killed, counts, history>>

(***************************************************************************)
(* WriteFile truncates or creates the file and writes it.                  *)
(***************************************************************************)
WriteFile(j, k, next) ==
  /\ pc[j] = k
  /\ \/ LET i == Opened(j, k, k)
        IN  /\ dir' = [dir EXCEPT ![PathOf(j, k)] = i]
            /\ disk' = [disk EXCEPT ![i] = {j}]
            /\ Goto(j, next)
            /\ UNCHANGED status
     \/ /\ k \in Failures
        /\ Status(j, -2)
        /\ Goto(j, "end")
        /\ UNCHANGED files
  /\ UNCHANGED <<clock, id, ms, name, result, child, fds, image, killed,
                 counts, history>>

WriteSrc(j)   == WriteFile(j, "src", "stdin")
WriteStdin(j) == WriteFile(j, "stdin", "compile")

(***************************************************************************)
(* Compiler::Compile.  A failed fork is reported as a failed compilation.  *)
(***************************************************************************)
Compile(j) ==
  /\ pc[j] = "compile"
  /\ \/ /\ Child(j, "redirect")
        /\ Goto(j, "compiling")
        /\ UNCHANGED status
     \/ /\ "fork" \in Failures
        /\ Status(j, -3)
        /\ Goto(j, "end")
        /\ UNCHANGED child
  /\ UNCHANGED <<clock, id, files, ms, name, result, fds, image, killed,
                 counts, history>>

\* The child opens the error file, or exits.
OpenCompileErr(j) ==
  /\ child[j] = "redirect"
  /\ \/ LET i == Opened(j, "compile_err", "compile_err")
        IN  /\ dir' = [dir EXCEPT ![PathOf(j, "compile_err")] = i]
            /\ fds' = [fds EXCEPT ![j]["compile_err"] = i]
            /\ Child(j, "gxx")
     \/ /\ "compile_err" \in Failures
        /\ Child(j, "none")
        /\ UNCHANGED <<dir, fds>>
  /\ UNCHANGED <<clock, id, disk, pc, ms, name, status, result, image,
                 killed, counts, history>>

\* g++ makes a new executable of the source, or writes its complaints: about
\* what the source holds, its absence included, to the file it was given.
Gxx(j) ==
  /\ child[j] = "gxx"
  /\ \/ /\ Exists(j, "src")
        /\ dir' = [dir EXCEPT ![PathOf(j, "exe")] = <<j, "exe">>]
        /\ disk' = [disk EXCEPT ![<<j, "exe">>] = Content(j, "src")]
     \/ /\ disk' = [disk EXCEPT ![fds[j]["compile_err"]] =
                      @ \cup Content(j, "src")]
        /\ UNCHANGED dir
  /\ Child(j, "none")
  /\ UNCHANGED <<clock, id, pc, ms, name, status, result, fds, image, killed,
                 counts, history>>

\* Mutant: the parent polls for the executable.
CompileWaitForExe(j) ==
  /\ pc[j] = "compiling"
  /\ Exists(j, "exe")
  /\ Goto(j, "open")
  /\ UNCHANGED <<clock, id, files, ms, name, status, result, child, fds,
                 image, killed, counts, history>>

\* waitpid, and the test of the executable's existence.
CompileWait(j) ==
  /\ pc[j] = "compiling"
  /\ child[j] = "none"
  /\ IF Exists(j, "exe")
       THEN /\ Goto(j, "open")
            /\ UNCHANGED status
       ELSE /\ Status(j, -3)
            /\ Goto(j, "end")
  /\ UNCHANGED <<clock, id, files, ms, name, result, child, fds, image,
                 killed, counts, history>>

(***************************************************************************)
(* Runner::Run.                                                            *)
(***************************************************************************)
\* The descriptors opened are closed after the fork; when one of the opens
\* failed Run returns, and those of the others stay open.
RunOpen(j) ==
  /\ pc[j] = "open"
  /\ \E ks \in SUBSET RunFiles :
       /\ ks = RunFiles \/ "open" \in Failures
       /\ LinkFiles(j, ks, [k \in RunFiles |-> RunFile(j, k)])
       /\ held' = [held EXCEPT ![ServerOf[j]] = @ + Cardinality(ks)]
       /\ IF ks = RunFiles
            THEN /\ fds' = [fds EXCEPT ![j] =
                     [k \in FdKinds |-> IF k \in RunFiles THEN RunFile(j, k)
                                          ELSE fds[j][k]]]
                 /\ Goto(j, "fork")
                 /\ UNCHANGED <<status, cut>>
            ELSE /\ Status(j, -2)
                 /\ Goto(j, "end")
                 /\ cut' = [cut EXCEPT ![ServerOf[j]] = @ + 1]
                 /\ UNCHANGED fds
  /\ UNCHANGED <<clock, id, disk, ms, name, result, child, image, killed,
                 history>>

\* Mutant: the branch of a failed fork does not close.
RunForkUnclosed(j) ==
  /\ pc[j] = "fork"
  /\ \/ /\ Child(j, "exec")
        /\ Goto(j, "running")
        /\ held' = [held EXCEPT ![ServerOf[j]] = @ - 3]
        /\ UNCHANGED status
     \/ /\ "fork_run" \in Failures
        /\ Status(j, -2)
        /\ Goto(j, "end")
        /\ UNCHANGED <<child, held>>
  /\ UNCHANGED <<clock, id, files, ms, name, result, fds, image, killed,
                 cut, history>>

RunFork(j) ==
  /\ pc[j] = "fork"
  /\ \/ /\ Child(j, "exec")
        /\ Goto(j, "running")
        /\ UNCHANGED status
     \/ /\ "fork_run" \in Failures
        /\ Status(j, -2)
        /\ Goto(j, "end")
        /\ UNCHANGED child
  /\ held' = [held EXCEPT ![ServerOf[j]] = @ - Cardinality(RunFiles)]
  /\ UNCHANGED <<clock, id, files, ms, name, result, fds, image, killed,
                 cut, history>>

\* execl, which fails when the executable is gone; the child then exits.
Exec(j) ==
  /\ child[j] = "exec"
  /\ \/ /\ Exists(j, "exe")
        /\ image' = [image EXCEPT ![j] = Content(j, "exe")]
        /\ ran' = [ran EXCEPT ![j] = TRUE]
        /\ Child(j, "program")
     \/ /\ ~Exists(j, "exe") \/ "exec" \in Failures
        /\ Child(j, "none")
        /\ UNCHANGED <<image, ran>>
  /\ UNCHANGED <<clock, id, files, pc, ms, name, status, result, fds, killed,
                 counts, earlier, crashes>>

\* The program reads its input, writes its outputs and ends, by itself or by a
\* signal (SIGXCPU when it uses up its CPU time).
Program(j) ==
  /\ child[j] = "program"
  /\ disk' = [i \in Inodes |->
                IF i \in {fds[j]["stdout"], fds[j]["stderr"]}
                  THEN disk[i] \cup image[j] \cup disk[fds[j]["stdin"]]
                  ELSE disk[i]]
  /\ \E s \in BOOLEAN : killed' = [killed EXCEPT ![j] = s]
  /\ Child(j, "none")
  /\ UNCHANGED <<clock, id, dir, pc, ms, name, status, result, fds, image,
                 counts, history>>

\* Mutant: no waitpid.
RunWaitMissing(j) ==
  /\ pc[j] = "running"
  /\ Status(j, IF killed[j] THEN 1 ELSE 0)
  /\ Goto(j, "end")
  /\ UNCHANGED <<clock, id, files, ms, name, result, child, fds, image,
                 killed, counts, history>>

\* Mutant: a program ended by a signal counts as an internal error.
RunWaitInternal(j) ==
  /\ pc[j] = "running"
  /\ child[j] = "none"
  /\ Status(j, IF killed[j] THEN -2 ELSE 0)
  /\ Goto(j, "end")
  /\ UNCHANGED <<clock, id, files, ms, name, result, child, fds, image,
                 killed, counts, history>>

\* waitpid: the signal number, and 0 for every exit code.
RunWait(j) ==
  /\ pc[j] = "running"
  /\ child[j] = "none"
  /\ Status(j, IF killed[j] THEN 1 ELSE 0)
  /\ Goto(j, "end")
  /\ UNCHANGED <<clock, id, files, ms, name, result, child, fds, image,
                 killed, counts, history>>

(***************************************************************************)
(* END: the reply, then the removal of whatever files the job has.         *)
(***************************************************************************)
BuildReply(j) ==
  /\ pc[j] = "end"
  /\ result' = [result EXCEPT ![j] =
       CASE name[j] = {} -> {}
         [] name[j] # {} /\ status[j] = -3 -> Content(j, "compile_err")
         [] name[j] # {} /\ status[j] = 0 ->
              Content(j, "stdout") \cup Content(j, "stderr")
         [] OTHER -> {}]
  /\ Goto(j, "remove")
  /\ UNCHANGED <<clock, id, files, ms, name, status, child, fds, image,
                 killed, counts, history>>

\* Mutant: the compiler's error file is forgotten.
RemoveTempFileSome(j) ==
  /\ pc[j] = "remove"
  /\ IF name[j] = {}
       THEN UNCHANGED dir
       ELSE LinkFiles(j, Kinds \ {"compile_err"}, [k \in Kinds |-> NoFile])
  /\ Goto(j, "done")
  /\ UNCHANGED <<clock, id, disk, ms, name, status, result, child, fds, image,
                 killed, counts, history>>

RemoveTempFile(j) ==
  /\ pc[j] = "remove"
  /\ IF name[j] = {}
       THEN UNCHANGED dir
       ELSE LinkFiles(j, Kinds, [k \in Kinds |-> NoFile])
  /\ Goto(j, "done")
  /\ UNCHANGED <<clock, id, disk, ms, name, status, result, child, fds, image,
                 killed, counts, history>>

-----------------------------------------------------------------------------
\* GetTimeMs reads the time of day.  That somebody sets it back is left out:
\* that names stay in order across a restart (NamesOrdered) rests on that.
Tick ==
  /\ clock < MaxClock
  /\ clock' = clock + 1
  /\ UNCHANGED <<id, files, pc, ms, name, status, result, child, fds, image,
                 killed, counts, history>>

\* A process dies and is started again, which takes more than a millisecond.
\* Its jobs are lost; their children and their files remain.
Crash(s) ==
  /\ crashes < MaxCrashes /\ clock < MaxClock
  /\ crashes' = crashes + 1
  /\ clock' = clock + 1
  /\ id' = [id EXCEPT ![s] = 0]
  /\ pc' = [j \in Jobs |->
               IF ServerOf[j] = s /\ pc[j] \notin Ended \cup {"idle"}
                 THEN "crashed" ELSE pc[j]]
  /\ held' = [held EXCEPT ![s] = 0]
  /\ cut' = [cut EXCEPT ![s] = 0]
  /\ UNCHANGED <<files, ms, name, status, result, child, fds, image, killed,
                 ran, earlier>>

\* The worker thread of a job, from the request it accepted to the reply.
Start(j) ==
  \/ ReadClock(j) \/ ReadId(j) \/ WriteSrc(j) \/ WriteStdin(j)
  \/ Compile(j) \/ CompileWait(j) \/ RunOpen(j) \/ RunFork(j) \/ RunWait(j)
  \/ BuildReply(j) \/ RemoveTempFile(j)

Accept(j) == Refuse(j) \/ EmptyCode(j) \/ IncrementId(j)

\* The children of a job.
Children(j) == OpenCompileErr(j) \/ Gxx(j) \/ Exec(j) \/ Program(j)

Next ==
  \/ \E j \in Jobs : Accept(j) \/ Start(j) \/ Children(j)
  \/ Tick
  \/ \E s \in Servers : Crash(s)

Spec == Init /\ [][Next]_vars

(***************************************************************************)
(* Threads and processes that can run are run.  That a program ends is the *)
(* doing of RLIMIT_CPU for one that computes; one that only sleeps is not  *)
(* bounded by the code and is outside this assumption.                     *)
(***************************************************************************)
FairSpec ==
  /\ Spec
  /\ \A j \in Jobs : WF_vars(Start(j)) /\ WF_vars(Children(j))

-----------------------------------------------------------------------------
(***************************************************************************)
(* Properties.                                                             *)
(***************************************************************************)
Named(j) == name[j] # {}

\* Two calls of UniqFileName in one process of which one ended before the
\* other began give different names, across a restart of the process too.
NamesOrdered ==
  \A j \in Jobs : \A k \in earlier[j] : Named(j) => name[j] # name[k]

\* Nobody else was given job j's name.
Alone(j) == \A k \in Jobs \ {j} : Named(k) => name[k] # name[j]

\* A job whose name is its own is answered from its own files: the reply holds
\* nothing of another job, and a success whose program was executed holds the
\* output of the job's program on the job's input.
RepliesAreOwn ==
  \A j \in Jobs : pc[j] = "done" /\ Alone(j) =>
    /\ result[j] \subseteq {j}
    /\ status[j] = 0 /\ ran[j] => result[j] = {j}

\* A temporary file is there only for a job that still runs or that a crash
\* cut off: every way through Start, failed steps included, cleans up.
FilesHaveOwners ==
  \A p \in Paths : dir[p] # NoFile =>
    \E j \in Jobs : name[j] = {p[1]} /\ pc[j] \notin {"done", "refused"}

\* The status tells the steps of a job apart: a program's end is reported only
\* when the job's executable was run, "compile error" only when it was not.
StatusTellsStage ==
  \A j \in Jobs : pc[j] = "done" =>
    /\ status[j] > 0 => ran[j] /\ killed[j]
    /\ status[j] < 0 => ~ran[j]

\* The descriptors of the run files are closed on every path: a process holds
\* those of its jobs about to fork, and at most two for each failed open.
DescriptorsReturned ==
  \A s \in Servers :
    LET forking == {j \in Jobs : ServerOf[j] = s /\ pc[j] = "fork"}
    IN  held[s] - 3 * Cardinality(forking) \in 0 .. 2 * cut[s]

\* Every accepted job is answered unless its process crashes.
EveryJobAnswered ==
  \A j \in Jobs : (pc[j] # "idle") ~> (pc[j] \in Ended)

(***************************************************************************)
(* The compile server implements CompileService.                           *)
(***************************************************************************)
PhaseOf(place) ==
  CASE place = "idle" -> "new"
    [] place = "refused" -> "refused"
    [] place = "crashed" -> "lost"
    [] place = "done" -> "answered"
    [] OTHER -> "working"

Service == INSTANCE CompileService WITH
  phase  <- [j \in Jobs |-> PhaseOf(pc[j])],
  before <- earlier,
  reply  <- [j \in Jobs |-> IF pc[j] = "done" THEN result[j] ELSE {}]

\* Seen through names and replies, every step of a job is a step of the service
\* or changes nothing it shows: whatever two jobs interleave, fail at or leave
\* behind in a crash, a reply holds data of jobs with the job's name only.
ImplementsService == Service!Spec

=============================================================================
