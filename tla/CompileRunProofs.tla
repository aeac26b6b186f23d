--------------------------- MODULE CompileRunProofs ---------------------------
(***************************************************************************)
(* Proofs about CompileRun, for any number of jobs, processes, directories *)
(* and crashes: what UniqFileName promises, whose data the files and the   *)
(* replies hold, what a status tells, what is left behind, and that the    *)
(* whole implements CompileService.                                        *)
(***************************************************************************)
EXTENDS CompileRun, FiniteSetTheorems, TLAPS

-----------------------------------------------------------------------------
(***************************************************************************)
(* The inductive invariant: where a job has a name and a child.            *)
(***************************************************************************)
Unnamed == {"idle", "time", "name", "refused"}
AtFiles == {"src", "stdin", "compile", "compiling", "open", "fork", "running"}

StageOf(j) ==
  /\ name[j] = {} \/ \E n \in Names : name[j] = {n}
  /\ pc[j] \in Unnamed => name[j] = {}
  /\ pc[j] \in AtFiles => Named(j)
  /\ child[j] # "none" =>
       Named(j) /\ pc[j] \in {"compiling", "running", "crashed"}
  /\ pc[j] = "compiling" => child[j] \in {"none", "redirect", "gxx"}
  /\ pc[j] = "running" => child[j] \in {"none", "exec", "program"}
  /\ child[j] = "gxx" => fds[j]["compile_err"] # NoFile
  /\ pc[j] = "fork" \/ child[j] \in {"exec", "program"} =>
       \A k \in RunFiles : fds[j][k] # NoFile

Stages == \A j \in Jobs : StageOf(j)

\* A process has given out at most one number for every job that came, and a
\* name given before a job came has an earlier time, or a smaller number than
\* the job will read.
Begun == {j \in Jobs : pc[j] # "idle"}

NumberOf(j) ==
  /\ pc[j] \in {"time", "name"} => id[ServerOf[j]] > 0
  /\ ms[j] <= clock
  /\ \A n \in Names : name[j] = {n} =>
       n[2] < clock \/ (n[2] = clock /\ n[3] <= id[ServerOf[j]])
  /\ \A k \in earlier[j] : Named(k) /\ ServerOf[k] = ServerOf[j]
  /\ \A k \in earlier[j], n \in Names : name[k] = {n} =>
       /\ pc[j] = "time" => n[2] < clock \/ n[3] < id[ServerOf[j]]
       /\ pc[j] = "name" => n[2] < ms[j] \/ n[3] < id[ServerOf[j]]

Numbered ==
  /\ \A s \in Servers : id[s] <= Cardinality(Begun)
  /\ \A j \in Jobs : NumberOf(j)
  /\ NamesOrdered

Base == TypeOK /\ Stages /\ Numbered /\ DescriptorsReturned

-----------------------------------------------------------------------------
LEMMA StemIs ==
  ASSUME NEW j \in Jobs, NEW n \in Names, name[j] = {n}
  PROVE  Stem(j) = n
  BY DEF Stem

LEMMA PathIs ==
  ASSUME Stages, NEW j \in Jobs, Named(j)
  PROVE  /\ Stem(j) \in Names /\ name[j] = {Stem(j)}
         /\ \A k \in Kinds : PathOf(j, k) \in Paths
  <1>1. PICK n \in Names : name[j] = {n}
    BY DEF Stages, StageOf, Named
  <1>2. Stem(j) = n
    BY <1>1, StemIs
  <1> QED
    BY <1>1, <1>2 DEF PathOf, Paths

LEMMA FileType ==
  ASSUME TypeOK, Stages, NEW j \in Jobs, Named(j), NEW k \in Kinds
  PROVE  /\ FileOf(j, k) \in Inodes \cup {NoFile}
         /\ Content(j, k) \in SUBSET Jobs
         /\ \A new \in Kinds \cup {"blank"} : Opened(j, k, new) \in Inodes
  <1>1. FileOf(j, k) \in Inodes \cup {NoFile}
    BY PathIs DEF FileOf, TypeOK
  <1>2. Exists(j, k) => FileOf(j, k) \in Inodes
    BY <1>1 DEF Exists
  <1>3. \A new \in Kinds \cup {"blank"} : <<j, new>> \in Inodes
    BY DEF Inodes
  <1>4. \A new \in Kinds \cup {"blank"} : Opened(j, k, new) \in Inodes
    BY <1>2, <1>3 DEF Opened
  <1>5. Content(j, k) \in SUBSET Jobs
    BY <1>2 DEF Content, TypeOK
  <1> QED
    BY <1>1, <1>4, <1>5

LEMMA RunFileType ==
  ASSUME TypeOK, Stages, NEW j \in Jobs, Named(j), NEW k \in RunFiles
  PROVE  RunFile(j, k) \in Inodes
  <1>1. k \in Kinds
    BY DEF RunFiles, Kinds
  <1>2. (IF k = "stdin" THEN "blank" ELSE k) \in Kinds \cup {"blank"}
    BY <1>1
  <1> QED
    BY <1>1, <1>2, FileType DEF RunFile

LEMMA CardTypes ==
  /\ Cardinality(Jobs) \in Nat
  /\ IsFiniteSet(Begun) /\ Cardinality(Begun) \in Nat
  /\ Cardinality(Begun) <= Cardinality(Jobs)
  <1>1. Begun \subseteq Jobs
    BY DEF Begun
  <1> QED
    BY <1>1, JobsAssumption, FS_Subset, FS_CardinalityType

LEMMA RunFilesCard ==
  /\ Cardinality(RunFiles) = 3
  /\ \A ks \in SUBSET RunFiles :
       Cardinality(ks) \in 0 .. 3 /\ (ks # RunFiles => Cardinality(ks) <= 2)
  <1>1. IsFiniteSet({}) /\ Cardinality({}) = 0
    BY FS_EmptySet
  <1>2. IsFiniteSet({"stdin"}) /\ Cardinality({"stdin"}) = 1
    BY FS_Singleton
  <1>3. /\ IsFiniteSet({"stdin", "stdout"})
        /\ Cardinality({"stdin", "stdout"}) = 2
    <2>1. {"stdin", "stdout"} = {"stdin"} \cup {"stdout"}
      OBVIOUS
    <2>2. "stdout" \notin {"stdin"}
      OBVIOUS
    <2> QED
      BY <1>2, <2>1, <2>2, FS_AddElement
  <1>4. IsFiniteSet(RunFiles) /\ Cardinality(RunFiles) = 3
    <2>1. RunFiles = {"stdin", "stdout"} \cup {"stderr"}
      BY DEF RunFiles
    <2>2. "stderr" \notin {"stdin", "stdout"}
      OBVIOUS
    <2> QED
      BY <1>3, <2>1, <2>2, FS_AddElement
  <1>5. ASSUME NEW ks \in SUBSET RunFiles
        PROVE  /\ Cardinality(ks) \in 0 .. 3
               /\ ks # RunFiles => Cardinality(ks) <= 2
    <2>1. /\ IsFiniteSet(ks) /\ Cardinality(ks) \in Nat
          /\ Cardinality(ks) <= 3
          /\ Cardinality(ks) = 3 => ks = RunFiles
      BY <1>4, FS_Subset, FS_CardinalityType
    <2> QED
      BY <2>1
  <1> QED
    BY <1>4, <1>5

\* The descriptors of a job about to fork are open.
LEMMA ForkHolds ==
  ASSUME TypeOK, DescriptorsReturned, NEW j \in Jobs, pc[j] = "fork"
  PROVE  held[ServerOf[j]] >= 3
  <1> DEFINE s == ServerOf[j]
             forking == {k \in Jobs : ServerOf[k] = s /\ pc[k] = "fork"}
  <1>1. s \in Servers /\ forking \subseteq Jobs /\ j \in forking
    BY PlacementAssumption
  <1>2. IsFiniteSet(forking) /\ Cardinality(forking) \in Nat
    BY <1>1, JobsAssumption, FS_Subset, FS_CardinalityType
  <1>3. Cardinality(forking) # 0
    BY <1>1, <1>2, FS_EmptySet
  <1>4. held[s] - 3 * Cardinality(forking) \in 0 .. 2 * cut[s]
    BY <1>1 DEF DescriptorsReturned
  <1>5. held[s] \in Nat /\ cut[s] \in Nat
    BY <1>1 DEF TypeOK
  <1> HIDE DEF forking, s
  <1>6. held[s] >= 3
    BY <1>2, <1>3, <1>4, <1>5
  <1> QED
    BY <1>6 DEF s

LEMMA InitBase == Init => Base
  <1> SUFFICES ASSUME Init PROVE Base
    OBVIOUS
  <1>1. TypeOK
    <2>1. /\ 0 \in 0 .. MaxClock /\ 0 \in 0 .. MaxCrashes
          /\ 0 \in 0 .. Cardinality(Jobs) /\ 0 \in -3 .. 1
      BY BoundAssumption, CardTypes
    <2> QED
      BY <2>1 DEF Init, TypeOK, PCs, ChildStates
  <1>2. Stages
    BY DEF Init, Stages, StageOf, Unnamed, AtFiles
  <1>3. Numbered
    <2>1. Cardinality(Begun) \in Nat
      BY CardTypes
    <2> QED
      BY <2>1 DEF Init, Numbered, NumberOf, NamesOrdered
  <1>4. DescriptorsReturned
    <2> SUFFICES ASSUME NEW s \in Servers
                 PROVE  held[s] - 3 * Cardinality({j \in Jobs :
                          ServerOf[j] = s /\ pc[j] = "fork"}) \in 0 .. 2 * cut[s]
      BY DEF DescriptorsReturned
    <2> DEFINE forking == {j \in Jobs : ServerOf[j] = s /\ pc[j] = "fork"}
    <2>1. forking = {} /\ held[s] = 0 /\ cut[s] = 0
      BY DEF Init
    <2> HIDE DEF forking
    <2>2. Cardinality(forking) = 0
      BY <2>1, FS_EmptySet
    <2>3. held[s] - 3 * Cardinality(forking) \in 0 .. 2 * cut[s]
      BY <2>1, <2>2
    <2> QED
      BY <2>3 DEF forking
  <1> QED
    BY <1>1, <1>2, <1>3, <1>4 DEF Base

-----------------------------------------------------------------------------
(***************************************************************************)
(* Types.                                                                  *)
(***************************************************************************)
\* Every code that Start gives is a status.
LEMMA StatusType ==
  ASSUME TypeOK, NEW j \in Jobs, NEW code \in {-3, -2, -1, 0, 1},
         Status(j, code)
  PROVE  status' \in [Jobs -> -3 .. 1]
  <1>1. code \in -3 .. 1
    OBVIOUS
  <1>2. status \in [Jobs -> -3 .. 1]
    BY DEF TypeOK
  <1> QED
    BY <1>1, <1>2 DEF Status

LEMMA TypeStep == Base /\ [Next]_vars => TypeOK'
  <1> SUFFICES ASSUME Base, [Next]_vars PROVE TypeOK'
    OBVIOUS
  <1>0. TypeOK /\ Stages /\ Numbered /\ DescriptorsReturned
    BY DEF Base
  <1>a. /\ pc \in [Jobs -> PCs] /\ child \in [Jobs -> ChildStates]
        /\ disk \in [Inodes -> SUBSET Jobs]
        /\ fds \in [Jobs -> [FdKinds -> Inodes \cup {NoFile}]]
    BY <1>0 DEF TypeOK
  <1>b. /\ id \in [Servers -> 0 .. Cardinality(Jobs)]
        /\ held \in [Servers -> Nat] /\ cut \in [Servers -> Nat]
    BY <1>0 DEF TypeOK
  <1>c. /\ dir \in [Paths -> Inodes \cup {NoFile}]
        /\ status \in [Jobs -> -3 .. 1]
    BY <1>0 DEF TypeOK
  <1> USE <1>0
  <1>1. ASSUME NEW j \in Jobs, Refuse(j) \/ EmptyCode(j) PROVE TypeOK'
    <2>1. status' \in [Jobs -> -3 .. 1]
      BY <1>c, <1>1, StatusType DEF Refuse, EmptyCode
    <2>2. pc' \in [Jobs -> PCs]
      BY <1>a, <1>1 DEF Refuse, EmptyCode, Goto, PCs
    <2> QED
      BY <1>1, <2>1, <2>2 DEF Refuse, EmptyCode, files, counts, history, TypeOK
  <1>2. ASSUME NEW j \in Jobs, IncrementId(j) PROVE TypeOK'
    <2>1. id[ServerOf[j]] < Cardinality(Jobs)
      <3>1. Begun # Jobs /\ Begun \subseteq Jobs
        BY <1>2 DEF IncrementId, Begun
      <3>2. Cardinality(Begun) # Cardinality(Jobs)
        BY <3>1, JobsAssumption, FS_Subset
      <3>3. ServerOf[j] \in Servers
        BY PlacementAssumption
      <3>4. id[ServerOf[j]] <= Cardinality(Begun) /\ id[ServerOf[j]] \in Nat
        BY <1>b, <3>3, CardTypes DEF Numbered
      <3> QED
        BY <3>2, <3>4, CardTypes
    <2>2. id' \in [Servers -> 0 .. Cardinality(Jobs)]
      <3>1. id' = [id EXCEPT ![ServerOf[j]] = @ + 1] /\ ServerOf[j] \in Servers
        BY <1>2, PlacementAssumption DEF IncrementId
      <3>2. id[ServerOf[j]] + 1 \in 0 .. Cardinality(Jobs)
        BY <1>b, <2>1, <3>1, CardTypes
      <3> QED
        BY <1>b, <3>1, <3>2
    <2>3. earlier' \in [Jobs -> SUBSET Jobs]
      BY <1>2 DEF IncrementId, TypeOK
    <2>4. pc' \in [Jobs -> PCs]
      BY <1>a, <1>2 DEF IncrementId, Goto, PCs
    <2> QED
      BY <1>2, <2>2, <2>3, <2>4 DEF IncrementId, files, counts, TypeOK
  <1>3. ASSUME NEW j \in Jobs, ReadClock(j) PROVE TypeOK'
    BY <1>3 DEF ReadClock, Goto, PCs, files, counts, history, TypeOK
  <1>4. ASSUME NEW j \in Jobs, ReadId(j) PROVE TypeOK'
    <2>1. <<DirOf[ServerOf[j]], ms[j], id[ServerOf[j]]>> \in Names
      <3>1. ServerOf[j] \in Servers /\ DirOf[ServerOf[j]] \in Dirs
        BY PlacementAssumption
      <3>2. /\ id[ServerOf[j]] \in 1 .. Cardinality(Jobs)
            /\ ms[j] \in 0 .. MaxClock
        BY <1>4, <3>1, CardTypes DEF ReadId, Numbered, NumberOf, TypeOK
      <3> QED
        BY <3>1, <3>2 DEF Names
    <2>2. name' \in [Jobs -> SUBSET Names]
      BY <1>4, <2>1 DEF ReadId, TypeOK
    <2>3. pc' \in [Jobs -> PCs]
      BY <1>a, <1>4 DEF ReadId, Goto, PCs
    <2> QED
      BY <1>4, <2>2, <2>3 DEF ReadId, files, counts, history, TypeOK
  <1>5. ASSUME NEW j \in Jobs, WriteSrc(j) \/ WriteStdin(j) PROVE TypeOK'
    <2>1. PICK k \in {"src", "stdin"}, next \in {"stdin", "compile"} :
            WriteFile(j, k, next)
      BY <1>5 DEF WriteSrc, WriteStdin
    <2>2. Named(j) /\ k \in Kinds
      BY <2>1 DEF WriteFile, Stages, StageOf, AtFiles, Kinds
    <2>3. Opened(j, k, k) \in Inodes /\ PathOf(j, k) \in Paths
      BY <2>2, FileType, PathIs
    <2>4. dir' \in [Paths -> Inodes \cup {NoFile}]
      BY <1>c, <2>1, <2>3 DEF WriteFile, files
    <2>5. disk' \in [Inodes -> SUBSET Jobs]
      <3>1. UNCHANGED disk \/ disk' = [disk EXCEPT ![Opened(j, k, k)] = {j}]
        BY <2>1 DEF WriteFile, files
      <3>2. {j} \in SUBSET Jobs
        OBVIOUS
      <3> QED
        BY <1>a, <2>3, <3>1, <3>2
    <2>6. pc' \in [Jobs -> PCs]
      BY <1>a, <2>1 DEF WriteFile, Goto, PCs
    <2>7. status' \in [Jobs -> -3 .. 1]
      BY <1>c, <2>1, StatusType DEF WriteFile
    <2> QED
      BY <2>1, <2>4, <2>5, <2>6, <2>7 DEF WriteFile, counts, history, TypeOK
  <1>6. ASSUME NEW j \in Jobs, Compile(j) PROVE TypeOK'
    <2>1. status' \in [Jobs -> -3 .. 1]
      BY <1>c, <1>6, StatusType DEF Compile
    <2>2. pc' \in [Jobs -> PCs] /\ child' \in [Jobs -> ChildStates]
      BY <1>a, <1>6 DEF Compile, Goto, Child, PCs, ChildStates
    <2> QED
      BY <1>6, <2>1, <2>2 DEF Compile, files, counts, history, TypeOK
  <1>7. ASSUME NEW j \in Jobs, OpenCompileErr(j) PROVE TypeOK'
    <2>1. Named(j) /\ "compile_err" \in Kinds
      BY <1>7 DEF OpenCompileErr, Stages, StageOf, Kinds
    <2>2. /\ Opened(j, "compile_err", "compile_err") \in Inodes
          /\ PathOf(j, "compile_err") \in Paths
      BY <2>1, FileType, PathIs
    <2>3. dir' \in [Paths -> Inodes \cup {NoFile}]
      BY <1>c, <1>7, <2>2 DEF OpenCompileErr
    <2>4. fds' \in [Jobs -> [FdKinds -> Inodes \cup {NoFile}]]
      <3> DEFINE i == Opened(j, "compile_err", "compile_err")
      <3>1. fds' = fds \/ fds' = [fds EXCEPT ![j]["compile_err"] = i]
        BY <1>7 DEF OpenCompileErr
      <3>2. i \in Inodes /\ "compile_err" \in FdKinds
        BY <2>2 DEF FdKinds
      <3> HIDE DEF i
      <3>3. CASE fds' = fds
        BY <1>a, <3>3
      <3>4. CASE fds' = [fds EXCEPT ![j]["compile_err"] = i]
        <4>1. [fds[j] EXCEPT !["compile_err"] = i]
                \in [FdKinds -> Inodes \cup {NoFile}]
          BY <1>a, <3>2
        <4>2. fds' = [fds EXCEPT ![j] = [fds[j] EXCEPT !["compile_err"] = i]]
          BY <3>4
        <4> QED
          BY <1>a, <4>1, <4>2
      <3> QED
        BY <3>1, <3>3, <3>4
    <2>5. child' \in [Jobs -> ChildStates]
      BY <1>a, <1>7 DEF OpenCompileErr, Child, ChildStates
    <2> QED
      BY <1>7, <2>3, <2>4, <2>5 DEF OpenCompileErr, counts, history, TypeOK
  <1>8. ASSUME NEW j \in Jobs, Gxx(j) PROVE TypeOK'
    <2>1. Named(j) /\ "src" \in Kinds /\ "exe" \in Kinds
      BY <1>8 DEF Gxx, Stages, StageOf, Kinds
    <2>2. /\ Content(j, "src") \in SUBSET Jobs /\ PathOf(j, "exe") \in Paths
          /\ <<j, "exe">> \in Inodes
      BY <2>1, FileType, PathIs DEF Inodes
    <2>3. fds[j]["compile_err"] \in Inodes
      BY <1>a, <1>8 DEF Gxx, Stages, StageOf, FdKinds
    <2>4. dir' \in [Paths -> Inodes \cup {NoFile}]
      BY <1>c, <1>8, <2>2 DEF Gxx
    <2>5. disk' \in [Inodes -> SUBSET Jobs]
      <3> DEFINE c == Content(j, "src")
                 e == fds[j]["compile_err"]
      <3>1. \/ disk' = [disk EXCEPT ![<<j, "exe">>] = c]
            \/ disk' = [disk EXCEPT ![e] = @ \cup c]
        BY <1>8 DEF Gxx
      <3>2. c \in SUBSET Jobs /\ e \in Inodes
        BY <2>2, <2>3
      <3> HIDE DEF c, e
      <3>3. disk[e] \cup c \in SUBSET Jobs
        <4>1. disk[e] \in SUBSET Jobs
          BY <1>a, <3>2
        <4> QED
          BY <3>2, <4>1
      <3> QED
        BY <1>a, <2>2, <3>1, <3>2, <3>3
    <2>6. child' \in [Jobs -> ChildStates]
      BY <1>a, <1>8 DEF Gxx, Child, ChildStates
    <2> QED
      BY <1>8, <2>4, <2>5, <2>6 DEF Gxx, counts, history, TypeOK
  <1>9. ASSUME NEW j \in Jobs, CompileWait(j) PROVE TypeOK'
    <2>1. status' \in [Jobs -> -3 .. 1]
      BY <1>c, <1>9, StatusType DEF CompileWait
    <2>2. pc' \in [Jobs -> PCs]
      BY <1>a, <1>9 DEF CompileWait, Goto, PCs
    <2> QED
      BY <1>9, <2>1, <2>2 DEF CompileWait, files, counts, history, TypeOK
  <1>10. ASSUME NEW j \in Jobs, RunOpen(j) PROVE TypeOK'
    <2>1. PICK ks \in SUBSET RunFiles :
            /\ LinkFiles(j, ks, [k \in RunFiles |-> RunFile(j, k)])
            /\ held' = [held EXCEPT ![ServerOf[j]] = @ + Cardinality(ks)]
            /\ \/ /\ fds' = [fds EXCEPT ![j] =
                     [k \in FdKinds |-> IF k \in RunFiles THEN RunFile(j, k)
                                          ELSE fds[j][k]]]
                  /\ Goto(j, "fork")
                  /\ UNCHANGED <<status, cut>>
               \/ /\ Status(j, -2)
                  /\ Goto(j, "end")
                  /\ cut' = [cut EXCEPT ![ServerOf[j]] = @ + 1]
                  /\ UNCHANGED fds
      BY <1>10 DEF RunOpen
    <2>2. Named(j)
      BY <1>10 DEF RunOpen, Stages, StageOf, AtFiles
    <2>3. \A k \in RunFiles : RunFile(j, k) \in Inodes
      BY <2>2, RunFileType
    <2>4. dir' \in [Paths -> Inodes \cup {NoFile}]
      BY <1>c, <2>1, <2>3 DEF LinkFiles
    <2>5. fds' \in [Jobs -> [FdKinds -> Inodes \cup {NoFile}]]
      <3> DEFINE g == [k \in FdKinds |-> IF k \in RunFiles THEN RunFile(j, k)
                                           ELSE fds[j][k]]
      <3>1. g \in [FdKinds -> Inodes \cup {NoFile}]
        BY <1>a, <2>3
      <3>2. UNCHANGED fds \/ fds' = [fds EXCEPT ![j] = g]
        BY <2>1
      <3> HIDE DEF g
      <3> QED
        BY <1>a, <3>1, <3>2
    <2>6. held' \in [Servers -> Nat] /\ cut' \in [Servers -> Nat]
      <3>1. Cardinality(ks) \in Nat /\ ServerOf[j] \in Servers
        BY RunFilesCard, PlacementAssumption
      <3>2. held' \in [Servers -> Nat]
        BY <1>b, <2>1, <3>1
      <3>3. UNCHANGED cut \/ cut' = [cut EXCEPT ![ServerOf[j]] = @ + 1]
        BY <2>1
      <3> QED
        BY <1>b, <3>1, <3>2, <3>3
    <2>7. pc' \in [Jobs -> PCs]
      BY <1>a, <2>1 DEF Goto, PCs
    <2>8. status' \in [Jobs -> -3 .. 1]
      BY <1>c, <2>1, StatusType
    <2> QED
      BY <1>10, <2>4, <2>5, <2>6, <2>7, <2>8 DEF RunOpen, history, TypeOK
  <1>11. ASSUME NEW j \in Jobs, RunFork(j) PROVE TypeOK'
    <2>1. held[ServerOf[j]] >= 3
      BY <1>11, ForkHolds DEF RunFork
    <2>2. held' = [held EXCEPT ![ServerOf[j]] = @ - 3]
      BY <1>11, RunFilesCard DEF RunFork
    <2>3. held' \in [Servers -> Nat]
      BY <1>b, <2>1, <2>2, PlacementAssumption
    <2>4. pc' \in [Jobs -> PCs] /\ child' \in [Jobs -> ChildStates]
      BY <1>a, <1>11 DEF RunFork, Goto, Child, PCs, ChildStates
    <2>5. status' \in [Jobs -> -3 .. 1]
      BY <1>c, <1>11, StatusType DEF RunFork
    <2> QED
      BY <1>11, <2>3, <2>4, <2>5 DEF RunFork, files, history, TypeOK
  <1>12. ASSUME NEW j \in Jobs, Exec(j) PROVE TypeOK'
    <2>1. Content(j, "exe") \in SUBSET Jobs
      BY <1>12, FileType DEF Exec, Stages, StageOf, Kinds
    <2>2. image' \in [Jobs -> SUBSET Jobs]
      BY <1>12, <2>1 DEF Exec, TypeOK
    <2>3. child' \in [Jobs -> ChildStates]
      BY <1>a, <1>12 DEF Exec, Child, ChildStates
    <2>4. ran' \in [Jobs -> BOOLEAN]
      BY <1>12 DEF Exec, TypeOK
    <2> QED
      BY <1>12, <2>2, <2>3, <2>4 DEF Exec, files, counts, TypeOK
  <1>13. ASSUME NEW j \in Jobs, Program(j) PROVE TypeOK'
    <2>1. fds[j]["stdin"] \in Inodes
      BY <1>a, <1>13 DEF Program, Stages, StageOf, RunFiles, FdKinds
    <2>2. disk' \in [Inodes -> SUBSET Jobs]
      BY <1>13, <2>1 DEF Program, TypeOK
    <2>3. killed' \in [Jobs -> BOOLEAN]
      BY <1>13 DEF Program, TypeOK
    <2>4. child' \in [Jobs -> ChildStates]
      BY <1>a, <1>13 DEF Program, Child, ChildStates
    <2> QED
      BY <1>13, <2>2, <2>3, <2>4 DEF Program, counts, history, TypeOK
  <1>14. ASSUME NEW j \in Jobs, RunWait(j) PROVE TypeOK'
    <2>1. status' \in [Jobs -> -3 .. 1]
      BY <1>c, <1>14, StatusType DEF RunWait
    <2>2. pc' \in [Jobs -> PCs]
      BY <1>a, <1>14 DEF RunWait, Goto, PCs
    <2> QED
      BY <1>14, <2>1, <2>2 DEF RunWait, files, counts, history, TypeOK
  <1>15. ASSUME NEW j \in Jobs, BuildReply(j) PROVE TypeOK'
    <2>1. name[j] # {} => \A k \in Kinds : Content(j, k) \in SUBSET Jobs
      BY FileType DEF Named
    <2>2. PICK r \in SUBSET Jobs : result' = [result EXCEPT ![j] = r]
      BY <1>15, <2>1 DEF BuildReply, Kinds
    <2>3. result' \in [Jobs -> SUBSET Jobs]
      BY <2>2 DEF TypeOK
    <2>4. pc' \in [Jobs -> PCs]
      BY <1>a, <1>15 DEF BuildReply, Goto, PCs
    <2> QED
      BY <1>15, <2>3, <2>4 DEF BuildReply, files, counts, history, TypeOK
  <1>16. ASSUME NEW j \in Jobs, RemoveTempFile(j) PROVE TypeOK'
    <2>1. dir' \in [Paths -> Inodes \cup {NoFile}]
      BY <1>c, <1>16 DEF RemoveTempFile, LinkFiles, Paths
    <2>2. pc' \in [Jobs -> PCs]
      BY <1>a, <1>16 DEF RemoveTempFile, Goto, PCs
    <2> QED
      BY <1>16, <2>1, <2>2 DEF RemoveTempFile, counts, history, TypeOK
  <1>17. CASE Tick
    BY <1>17, BoundAssumption DEF Tick, files, counts, history,
                                     TypeOK
  <1>18. ASSUME NEW s \in Servers, Crash(s) PROVE TypeOK'
    <2>1. pc' \in [Jobs -> PCs]
      BY <1>a, <1>18 DEF Crash, PCs
    <2>2. /\ clock' \in 0 .. MaxClock /\ crashes' \in 0 .. MaxCrashes
          /\ id' \in [Servers -> 0 .. Cardinality(Jobs)]
      BY <1>18, BoundAssumption, CardTypes DEF Crash, TypeOK
    <2>3. held' \in [Servers -> Nat] /\ cut' \in [Servers -> Nat]
      BY <1>b, <1>18 DEF Crash
    <2> QED
      BY <1>18, <2>1, <2>2, <2>3 DEF Crash, files, TypeOK
  <1>19. CASE UNCHANGED vars
    BY <1>19 DEF vars, TypeOK
  <1> QED
    BY <1>1, <1>2, <1>3, <1>4, <1>5, <1>6, <1>7, <1>8, <1>9, <1>10, <1>11,
       <1>12, <1>13, <1>14, <1>15, <1>16, <1>17, <1>18, <1>19
       DEF Next, Accept, Start, Children

-----------------------------------------------------------------------------
(***************************************************************************)
(* A job's thread and children change what is the job's.                   *)
(***************************************************************************)
Steps(j) == Accept(j) \/ Start(j) \/ Children(j)

\* Everything the state says of job k, its files apart, stays.
Kept(k) ==
  /\ pc'[k] = pc[k] /\ ms'[k] = ms[k] /\ name'[k] = name[k]
  /\ status'[k] = status[k] /\ result'[k] = result[k]
  /\ child'[k] = child[k] /\ fds'[k] = fds[k] /\ image'[k] = image[k]
  /\ killed'[k] = killed[k] /\ ran'[k] = ran[k] /\ earlier'[k] = earlier[k]

LEMMA OthersKept ==
  ASSUME TypeOK, NEW j \in Jobs, Steps(j), NEW k \in Jobs, k # j
  PROVE  Kept(k)
  <1> USE DEF Steps, Accept, Start, Children, files, counts, history
  <1>1. pc'[k] = pc[k]
    <2>1. pc \in [Jobs -> PCs]
      BY DEF TypeOK
    <2>2. pc' = pc \/ \E x \in PCs : pc' = [pc EXCEPT ![j] = x]
      BY DEF Refuse, EmptyCode, IncrementId, ReadClock, ReadId, WriteSrc,
             WriteStdin, WriteFile, Compile, CompileWait, RunOpen, RunFork,
             RunWait, BuildReply, RemoveTempFile, OpenCompileErr, Gxx, Exec,
             Program, Goto, PCs
    <2> QED
      BY <2>1, <2>2
  <1>2. ms'[k] = ms[k] /\ name'[k] = name[k] /\ earlier'[k] = earlier[k]
    BY DEF Refuse, EmptyCode, IncrementId, ReadClock, ReadId, WriteSrc,
           WriteStdin, WriteFile, Compile, CompileWait, RunOpen, RunFork,
           RunWait, BuildReply, RemoveTempFile, OpenCompileErr, Gxx, Exec,
           Program, TypeOK
  <1>3. status'[k] = status[k]
    BY DEF Refuse, EmptyCode, IncrementId, ReadClock, ReadId, WriteSrc,
           WriteStdin, WriteFile, Compile, CompileWait, RunOpen, RunFork,
           RunWait, BuildReply, RemoveTempFile, OpenCompileErr, Gxx, Exec,
           Program, Status, TypeOK
  <1>4. result'[k] = result[k]
    BY DEF Refuse, EmptyCode, IncrementId, ReadClock, ReadId, WriteSrc,
           WriteStdin, WriteFile, Compile, CompileWait, RunOpen, RunFork,
           RunWait, BuildReply, RemoveTempFile, OpenCompileErr, Gxx, Exec,
           Program, TypeOK
  <1>5. child'[k] = child[k]
    BY DEF Refuse, EmptyCode, IncrementId, ReadClock, ReadId, WriteSrc,
           WriteStdin, WriteFile, Compile, CompileWait, RunOpen, RunFork,
           RunWait, BuildReply, RemoveTempFile, OpenCompileErr, Gxx, Exec,
           Program, Child, TypeOK
  <1>6. fds'[k] = fds[k]
    BY DEF Refuse, EmptyCode, IncrementId, ReadClock, ReadId, WriteSrc,
           WriteStdin, WriteFile, Compile, CompileWait, RunOpen, RunFork,
           RunWait, BuildReply, RemoveTempFile, OpenCompileErr, Gxx, Exec,
           Program, TypeOK
  <1>7. image'[k] = image[k] /\ killed'[k] = killed[k]
    BY DEF Refuse, EmptyCode, IncrementId, ReadClock, ReadId, WriteSrc,
           WriteStdin, WriteFile, Compile, CompileWait, RunOpen, RunFork,
           RunWait, BuildReply, RemoveTempFile, OpenCompileErr, Gxx, Exec,
           Program, TypeOK
  <1>8. ran'[k] = ran[k]
    BY DEF Refuse, EmptyCode, IncrementId, ReadClock, ReadId, WriteSrc,
           WriteStdin, WriteFile, Compile, CompileWait, RunOpen, RunFork,
           RunWait, BuildReply, RemoveTempFile, OpenCompileErr, Gxx, Exec,
           Program, TypeOK
  <1> QED
    BY <1>1, <1>2, <1>3, <1>4, <1>5, <1>6, <1>7, <1>8 DEF Kept

\* A crash sends jobs that were under way to their end, and changes no more.
LEMMA CrashKeeps ==
  ASSUME TypeOK, NEW s \in Servers, Crash(s), NEW k \in Jobs
  PROVE  /\ UNCHANGED <<dir, disk, ms, name, status, result, child, fds, image,
                        killed, ran, earlier>>
         /\ \/ pc'[k] = pc[k]
            \/ /\ ServerOf[k] = s /\ pc'[k] = "crashed"
               /\ pc[k] \notin {"done", "refused", "crashed", "idle"}
         /\ ServerOf[k] = s =>
              pc'[k] \in {"done", "refused", "crashed", "idle"}
  BY DEF Crash, files, Ended

-----------------------------------------------------------------------------
LEMMA StageStep ==
  ASSUME Base, TypeOK', NEW j \in Jobs, Steps(j)
  PROVE  StageOf(j)'
  <1>0. TypeOK /\ StageOf(j)
    BY DEF Base, Stages
  <1>a. /\ pc \in [Jobs -> PCs] /\ child \in [Jobs -> ChildStates]
    BY <1>0 DEF TypeOK
  <1>1. CASE \/ Refuse(j) \/ EmptyCode(j) \/ IncrementId(j) \/ ReadClock(j)
             \/ CompileWait(j) \/ RunWait(j) \/ BuildReply(j)
             \/ RemoveTempFile(j)
    <2>1. UNCHANGED <<name, child, fds>>
      BY <1>1 DEF Refuse, EmptyCode, IncrementId, ReadClock, CompileWait,
                  RunWait, BuildReply, RemoveTempFile
    <2>2. \/ /\ pc[j] = "idle" /\ pc'[j] \in {"refused", "end", "time"}
          \/ /\ pc[j] = "time" /\ pc'[j] = "name"
          \/ /\ pc[j] \in {"compiling", "running"} /\ child[j] = "none"
             /\ pc'[j] \in {"open", "end"}
          \/ /\ pc[j] \in {"end", "remove"}
             /\ pc'[j] \in {"remove", "done"}
      BY <1>a, <1>1 DEF Refuse, EmptyCode, IncrementId, ReadClock, CompileWait,
                  RunWait, BuildReply, RemoveTempFile, Goto
    <2> QED
      BY <1>0, <2>1, <2>2 DEF StageOf, Unnamed, AtFiles, Named
  <1>2. CASE ReadId(j)
    <2>1. /\ UNCHANGED <<child, fds>> /\ pc[j] = "name" /\ pc'[j] = "src"
          /\ name'[j] = {<<DirOf[ServerOf[j]], ms[j], id[ServerOf[j]]>>}
      BY <1>0, <1>2 DEF ReadId, Goto, TypeOK
    <2>2. name'[j] \in SUBSET Names
      BY DEF TypeOK
    <2> QED
      BY <1>0, <2>1, <2>2 DEF StageOf, Unnamed, AtFiles, Named
  <1>3. CASE WriteSrc(j) \/ WriteStdin(j)
    <2>1. UNCHANGED <<name, child, fds>>
      BY <1>3 DEF WriteSrc, WriteStdin, WriteFile
    <2>2. /\ pc[j] \in {"src", "stdin"}
          /\ pc'[j] \in {"stdin", "compile", "end"}
      BY <1>a, <1>3 DEF WriteSrc, WriteStdin, WriteFile, Goto
    <2> QED
      BY <1>0, <2>1, <2>2 DEF StageOf, Unnamed, AtFiles, Named
  <1>4. CASE Compile(j)
    <2>1. /\ UNCHANGED <<name, fds>> /\ pc[j] = "compile"
          /\ \/ child'[j] = "redirect" /\ pc'[j] = "compiling"
             \/ child'[j] = child[j] /\ pc'[j] = "end"
      BY <1>a, <1>4 DEF Compile, Goto, Child
    <2> QED
      BY <1>0, <2>1 DEF StageOf, Unnamed, AtFiles, Named
  <1>5. CASE OpenCompileErr(j)
    <2>1. /\ UNCHANGED <<name, pc>> /\ child[j] = "redirect"
          /\ \/ /\ child'[j] = "gxx"
                /\ fds' = [fds EXCEPT ![j]["compile_err"] =
                             Opened(j, "compile_err", "compile_err")]
             \/ child'[j] = "none" /\ fds' = fds
      BY <1>a, <1>5 DEF OpenCompileErr, Child
    <2>2. Opened(j, "compile_err", "compile_err") \in Inodes
      BY <1>0, <2>1, FileType DEF StageOf, Base, Kinds
    <2>3. child'[j] = "gxx" => fds'[j]["compile_err"] # NoFile
      BY <1>0, <2>1, <2>2, NoFileAssumption DEF TypeOK, FdKinds
    <2>4. pc[j] # "fork" /\ pc[j] # "running"
      BY <1>0, <2>1 DEF StageOf
    <2> QED
      BY <1>0, <2>1, <2>3, <2>4 DEF StageOf, Named
  <1>6. CASE Gxx(j) \/ Program(j)
    <2>1. UNCHANGED <<name, pc, fds>> /\ child'[j] = "none"
      BY <1>a, <1>6 DEF Gxx, Program, Child
    <2> QED
      BY <1>0, <2>1 DEF StageOf, Named
  <1>7. CASE RunOpen(j)
    <2>1. /\ UNCHANGED <<name, child>> /\ pc[j] = "open"
          /\ \/ /\ pc'[j] = "fork"
                /\ fds' = [fds EXCEPT ![j] =
                     [k \in FdKinds |-> IF k \in RunFiles THEN RunFile(j, k)
                                          ELSE fds[j][k]]]
             \/ pc'[j] = "end" /\ fds' = fds
      BY <1>a, <1>7 DEF RunOpen, Goto
    <2>2. Named(j) /\ child[j] = "none"
      BY <1>0, <2>1 DEF StageOf, AtFiles
    <2>3. \A k \in RunFiles : RunFile(j, k) # NoFile
      BY <2>2, RunFileType, NoFileAssumption DEF Base
    <2>4. pc'[j] = "fork" => \A k \in RunFiles : fds'[j][k] # NoFile
      BY <1>0, <2>1, <2>3 DEF TypeOK, FdKinds
    <2> QED
      BY <1>0, <2>1, <2>2, <2>4 DEF StageOf, Named, Unnamed, AtFiles
  <1>8. CASE RunFork(j)
    <2>1. /\ UNCHANGED <<name, fds>> /\ pc[j] = "fork"
          /\ \/ child'[j] = "exec" /\ pc'[j] = "running"
             \/ child'[j] = child[j] /\ pc'[j] = "end"
      BY <1>a, <1>8 DEF RunFork, Goto, Child
    <2> QED
      BY <1>0, <2>1 DEF StageOf, Unnamed, AtFiles, Named
  <1>9. CASE Exec(j)
    <2>1. /\ UNCHANGED <<name, pc, fds>> /\ child[j] = "exec"
          /\ child'[j] \in {"program", "none"}
      BY <1>a, <1>9 DEF Exec, Child
    <2> QED
      BY <1>0, <2>1 DEF StageOf, Named
  <1> QED
    BY <1>1, <1>2, <1>3, <1>4, <1>5, <1>6, <1>7, <1>8, <1>9
       DEF Steps, Accept, Start, Children

LEMMA StagesStep == Base /\ TypeOK' /\ [Next]_vars => Stages'
  <1> SUFFICES ASSUME Base, TypeOK', [Next]_vars, NEW k \in Jobs
               PROVE  StageOf(k)'
    BY DEF Stages
  <1>0. TypeOK /\ StageOf(k)
    BY DEF Base, Stages
  <1>1. ASSUME NEW j \in Jobs, Steps(j) PROVE StageOf(k)'
    <2>1. CASE k = j
      BY <1>1, <2>1, StageStep
    <2>2. CASE k # j
      BY <1>0, <1>1, <2>2, OthersKept DEF Kept, StageOf, Named
    <2> QED
      BY <2>1, <2>2
  <1>2. ASSUME NEW s \in Servers, Crash(s) PROVE StageOf(k)'
    <2>1. /\ UNCHANGED <<name, child, fds>>
          /\ \/ pc'[k] = pc[k]
             \/ /\ pc'[k] = "crashed"
                /\ pc[k] \notin {"done", "refused", "crashed", "idle"}
      BY <1>0, <1>2, CrashKeeps
    <2> QED
      BY <1>0, <2>1 DEF StageOf, Unnamed, AtFiles, Named
  <1>3. CASE Tick \/ UNCHANGED vars
    BY <1>0, <1>3 DEF Tick, vars, StageOf, Named
  <1> QED
    BY <1>1, <1>2, <1>3 DEF Next, Steps

-----------------------------------------------------------------------------
(***************************************************************************)
(* Numbers and names.                                                      *)
(***************************************************************************)
\* A step that gives out no number, time or name.
LEMMA NumbersStay ==
  ASSUME Base, TypeOK', UNCHANGED <<id, clock, ms, name, earlier>>,
         \A k \in Jobs : pc'[k] = pc[k] \/ pc'[k] \notin {"time", "name", "idle"}
  PROVE  Numbered'
  <1>1. \A s \in Servers : id'[s] <= Cardinality(Begun')
    <2>1. Begun \subseteq Begun' /\ Begun' \subseteq Jobs
      BY DEF Begun
    <2>2. /\ Cardinality(Begun) <= Cardinality(Begun')
          /\ Cardinality(Begun') \in Nat
      BY <2>1, JobsAssumption, FS_Subset, FS_CardinalityType
    <2> QED
      BY <2>2, CardTypes DEF Base, Numbered, TypeOK
  <1>2. \A j \in Jobs : NumberOf(j)'
    BY DEF Base, Numbered, NumberOf, Named
  <1>3. NamesOrdered'
    BY DEF Base, Numbered, NamesOrdered, Named
  <1> QED
    BY <1>1, <1>2, <1>3 DEF Numbered

LEMMA NumberedIncrement ==
  ASSUME Base, TypeOK', NEW j \in Jobs, IncrementId(j)
  PROVE  Numbered'
  <1> DEFINE s == ServerOf[j]
  <1>0. TypeOK /\ Stages /\ Numbered /\ s \in Servers
    BY PlacementAssumption DEF Base
  <1>1. /\ pc[j] = "idle" /\ name[j] = {}
        /\ UNCHANGED <<clock, ms, name>>
        /\ id'[s] = id[s] + 1
        /\ \A r \in Servers \ {s} : id'[r] = id[r]
    BY <1>0 DEF IncrementId, TypeOK, Stages, StageOf, Unnamed
  <1>2. /\ pc'[j] = "time"
        /\ earlier'[j] = {k \in Jobs : ServerOf[k] = s /\ name[k] # {}}
        /\ \A k \in Jobs \ {j} : pc'[k] = pc[k] /\ earlier'[k] = earlier[k]
    <2> DEFINE before == {k \in Jobs : ServerOf[k] = s /\ name[k] # {}}
    <2>1. /\ pc' = [pc EXCEPT ![j] = "time"]
          /\ earlier' = [earlier EXCEPT ![j] = before]
      BY DEF IncrementId, Goto
    <2> HIDE DEF before
    <2>2. /\ pc'[j] = "time" /\ earlier'[j] = before
          /\ \A k \in Jobs \ {j} : pc'[k] = pc[k] /\ earlier'[k] = earlier[k]
      BY <1>0, <2>1 DEF TypeOK
    <2> QED
      BY <2>2 DEF before
  <1>3. \A r \in Servers : id'[r] \in Nat /\ id[r] \in Nat /\ id[r] <= id'[r]
    <2>1. \A r \in Servers : id[r] \in Nat
      BY <1>0, CardTypes DEF TypeOK
    <2> HIDE DEF s
    <2> QED
      BY <1>0, <1>1, <2>1
  <1> HIDE DEF s
  <1>4. ASSUME NEW r \in Servers PROVE id'[r] <= Cardinality(Begun')
    <2>1. Begun' = Begun \cup {j} /\ j \notin Begun
      BY <1>1, <1>2 DEF Begun
    <2>2. Cardinality(Begun') = Cardinality(Begun) + 1
      BY <2>1, CardTypes, FS_AddElement
    <2>3. id'[r] <= id[r] + 1
      BY <1>0, <1>1, <1>3
    <2> QED
      BY <1>0, <1>3, <2>2, <2>3, CardTypes DEF Numbered
  <1>5. ASSUME NEW k \in Jobs PROVE NumberOf(k)'
    <2>1. ServerOf[k] \in Servers /\ NumberOf(k)
      BY <1>0, PlacementAssumption DEF Numbered
    <2>2. \A n \in Names : n[2] \in Nat /\ n[3] \in Nat
      BY CardTypes, BoundAssumption DEF Names
    <2>3. clock \in Nat /\ ms[k] \in Nat
      BY <1>0, BoundAssumption DEF TypeOK
    <2>4. CASE k # j
      <3>1. /\ id[ServerOf[k]] \in Nat /\ id'[ServerOf[k]] \in Nat
            /\ id[ServerOf[k]] <= id'[ServerOf[k]]
        BY <1>3, <2>1
      <3>2. /\ pc'[k] = pc[k] /\ earlier'[k] = earlier[k]
            /\ UNCHANGED <<ms, clock, name>>
        BY <1>1, <1>2, <2>4
      <3> QED
        BY <2>1, <2>2, <2>3, <3>1, <3>2 DEF NumberOf, Named
    <2>5. CASE k = j
      <3>1. ASSUME NEW i \in earlier'[j], NEW n \in Names, name[i] = {n}
            PROVE  n[2] < clock \/ n[3] < id'[s]
        <4>1. i \in Jobs /\ ServerOf[i] = s /\ NumberOf(i)
          BY <1>0, <1>2, <3>1 DEF Numbered
        <4>2. n[2] < clock \/ n[3] <= id[s]
          BY <3>1, <4>1 DEF NumberOf
        <4> QED
          BY <1>0, <1>1, <1>3, <2>2, <4>2
      <3>2. id'[s] > 0
        BY <1>0, <1>1, <1>3
      <3>3. \A i \in earlier'[j] : Named(i)' /\ ServerOf[i] = s
        BY <1>1, <1>2 DEF Named
      <3>4. \A n \in Names : name'[j] # {n}
        BY <1>1
      <3> QED
        BY <1>1, <1>2, <2>1, <2>5, <3>1, <3>2, <3>3, <3>4 DEF NumberOf, s
    <2> QED
      BY <2>4, <2>5
  <1>6. NamesOrdered'
    <2> SUFFICES ASSUME NEW k \in Jobs, NEW i \in earlier'[k], Named(k)'
                 PROVE  name'[k] # name'[i]
      BY DEF NamesOrdered
    <2>1. k # j
      BY <1>1 DEF Named
    <2> QED
      BY <1>0, <1>1, <1>2, <2>1 DEF Numbered, NamesOrdered, Named
  <1> QED
    BY <1>4, <1>5, <1>6 DEF Numbered

LEMMA NumberedStep == Base /\ TypeOK' /\ [Next]_vars => Numbered'
  <1> SUFFICES ASSUME Base, TypeOK', [Next]_vars PROVE Numbered'
    OBVIOUS
  <1>0. TypeOK /\ Stages /\ Numbered
    BY DEF Base
  <1>a. \A n \in Names : n[2] \in Nat /\ n[3] \in Nat
    BY CardTypes, BoundAssumption DEF Names
  <1>b. /\ \A k \in Jobs : ms[k] \in Nat /\ ServerOf[k] \in Servers
        /\ \A s \in Servers : id[s] \in Nat
        /\ clock \in Nat
    BY <1>0, BoundAssumption, CardTypes, PlacementAssumption DEF TypeOK
  <1>1. ASSUME NEW j \in Jobs,
               \/ Refuse(j) \/ EmptyCode(j) \/ WriteSrc(j) \/ WriteStdin(j)
               \/ Compile(j) \/ CompileWait(j) \/ RunOpen(j) \/ RunFork(j)
               \/ RunWait(j) \/ BuildReply(j) \/ RemoveTempFile(j)
        PROVE  Numbered'
    <2>1. UNCHANGED <<id, clock, ms, name, earlier>>
      BY <1>1 DEF Refuse, EmptyCode, WriteSrc, WriteStdin, WriteFile, Compile,
                  CompileWait, RunOpen, RunFork, RunWait, BuildReply,
                  RemoveTempFile, history
    <2>2. \E x \in PCs \ {"time", "name", "idle"} : pc' = [pc EXCEPT ![j] = x]
      BY <1>1 DEF Refuse, EmptyCode, WriteSrc, WriteStdin, WriteFile, Compile,
                  CompileWait, RunOpen, RunFork, RunWait, BuildReply,
                  RemoveTempFile, Goto, PCs
    <2>3. \A k \in Jobs : pc'[k] = pc[k]
                            \/ pc'[k] \notin {"time", "name", "idle"}
      BY <1>0, <2>2 DEF TypeOK
    <2> QED
      BY <2>1, <2>3, NumbersStay
  <1>2. ASSUME NEW j \in Jobs,
               OpenCompileErr(j) \/ Gxx(j) \/ Exec(j) \/ Program(j)
        PROVE  Numbered'
    <2>1. UNCHANGED <<id, clock, ms, name, earlier, pc>>
      BY <1>2 DEF OpenCompileErr, Gxx, Exec, Program, history
    <2> QED
      BY <2>1, NumbersStay
  <1>3. ASSUME NEW j \in Jobs, IncrementId(j) PROVE Numbered'
    BY <1>3, NumberedIncrement
  <1>4. ASSUME NEW j \in Jobs, ReadClock(j) PROVE Numbered'
    <2>1. /\ UNCHANGED <<id, clock, name, earlier>>
          /\ pc[j] = "time" /\ pc'[j] = "name" /\ ms'[j] = clock
          /\ \A k \in Jobs \ {j} : pc'[k] = pc[k] /\ ms'[k] = ms[k]
      BY <1>0, <1>4 DEF ReadClock, Goto, history, TypeOK
    <2>2. Begun' = Begun
      BY <2>1 DEF Begun
    <2>3. \A k \in Jobs : NumberOf(k)'
      <3> SUFFICES ASSUME NEW k \in Jobs PROVE NumberOf(k)'
        OBVIOUS
      <3>1. CASE k = j
        BY <1>0, <1>b, <2>1, <3>1 DEF Numbered, NumberOf, Named
      <3>2. CASE k # j
        BY <1>0, <2>1, <3>2 DEF Numbered, NumberOf, Named
      <3> QED
        BY <3>1, <3>2
    <2>4. NamesOrdered'
      BY <1>0, <2>1 DEF Numbered, NamesOrdered, Named
    <2> QED
      BY <1>0, <2>1, <2>2, <2>3, <2>4 DEF Numbered
  <1>5. ASSUME NEW j \in Jobs, ReadId(j) PROVE Numbered'
    <2> DEFINE s == ServerOf[j]
               own == <<DirOf[s], ms[j], id[s]>>
    <2>1. /\ UNCHANGED <<id, clock, ms, earlier>>
          /\ pc[j] = "name" /\ pc'[j] = "src"
          /\ name'[j] = {own}
          /\ \A k \in Jobs \ {j} : pc'[k] = pc[k] /\ name'[k] = name[k]
      BY <1>0, <1>5 DEF ReadId, Goto, history, TypeOK
    <2>2. name[j] = {} /\ own[2] = ms[j] /\ own[3] = id[s]
      BY <1>0, <2>1 DEF Stages, StageOf, Unnamed
    <2> HIDE DEF own
    <2>3. Begun' = Begun
      BY <2>1 DEF Begun
    <2>4. \A k \in Jobs : j \notin earlier[k]
      BY <1>0, <2>2 DEF Numbered, NumberOf, Named
    <2>5. \A k \in Jobs : \A i \in earlier[k] :
            i \in Jobs /\ name'[i] = name[i]
      BY <1>0, <2>1, <2>4 DEF TypeOK
    <2>6. ASSUME NEW k \in Jobs PROVE NumberOf(k)'
      <3>1. CASE k = j
        <4>1. \A n \in Names : name'[j] = {n} => n = own
          BY <2>1
        <4>2. ms[j] <= clock
          BY <1>0 DEF Numbered, NumberOf
        <4>3. \A n \in Names : name'[j] = {n} =>
                n[2] < clock \/ (n[2] = clock /\ n[3] <= id[s])
          BY <1>b, <2>2, <4>1, <4>2
        <4> QED
          BY <1>0, <2>1, <2>5, <3>1, <4>2, <4>3 DEF Numbered, NumberOf, Named
      <3>2. CASE k # j
        BY <1>0, <2>1, <2>5, <3>2 DEF Numbered, NumberOf, Named
      <3> QED
        BY <3>1, <3>2
    <2>7. NamesOrdered'
      <3> SUFFICES ASSUME NEW k \in Jobs, NEW i \in earlier'[k], Named(k)'
                   PROVE  name'[k] # name'[i]
        BY DEF NamesOrdered
      <3>1. i \in earlier[k] /\ i \in Jobs /\ name'[i] = name[i]
        BY <2>1, <2>5
      <3>2. CASE k # j
        BY <1>0, <2>1, <3>1, <3>2 DEF Numbered, NamesOrdered, Named
      <3>3. CASE k = j
        <4>1. PICK n \in Names : name[i] = {n}
          BY <1>0, <3>1 DEF Numbered, NumberOf, Named, Stages, StageOf
        <4>2. n[2] < ms[j] \/ n[3] < id[s]
          BY <1>0, <2>1, <3>1, <3>3, <4>1 DEF Numbered, NumberOf
        <4>3. n # own
          BY <1>a, <1>b, <2>2, <4>2
        <4> QED
          BY <2>1, <3>1, <3>3, <4>1, <4>3
      <3> QED
        BY <3>2, <3>3
    <2> QED
      BY <1>0, <2>1, <2>3, <2>6, <2>7 DEF Numbered
  <1>6. CASE Tick
    <2>1. UNCHANGED <<id, ms, name, earlier, pc>> /\ clock' = clock + 1
      BY <1>6 DEF Tick, history
    <2>2. Begun' = Begun
      BY <2>1 DEF Begun
    <2>3. ASSUME NEW k \in Jobs PROVE NumberOf(k)'
      <3>1. \A n \in Names : name[k] = {n} => n[2] < clock'
        BY <1>0, <1>a, <1>b, <2>1 DEF Numbered, NumberOf
      <3>2. \A i \in earlier[k], n \in Names : name[i] = {n} => n[2] < clock'
        <4>1. \A i \in earlier[k] : i \in Jobs
          BY <1>0 DEF TypeOK
        <4> QED
          BY <1>0, <1>a, <1>b, <2>1, <4>1 DEF Numbered, NumberOf
      <3>3. ms[k] <= clock'
        BY <1>0, <1>b, <2>1 DEF Numbered, NumberOf
      <3> QED
        BY <1>0, <2>1, <3>1, <3>2, <3>3 DEF Numbered, NumberOf, Named
    <2>4. NamesOrdered'
      BY <1>0, <2>1 DEF Numbered, NamesOrdered, Named
    <2> QED
      BY <1>0, <2>1, <2>2, <2>3, <2>4 DEF Numbered
  <1>7. ASSUME NEW s \in Servers, Crash(s) PROVE Numbered'
    <2>1. /\ UNCHANGED <<ms, name, earlier>> /\ clock' = clock + 1
          /\ id'[s] = 0 /\ \A r \in Servers \ {s} : id'[r] = id[r]
      BY <1>0, <1>7 DEF Crash, TypeOK
    <2>2. \A k \in Jobs :
            pc'[k] = pc[k] \/ (pc'[k] = "crashed" /\ pc[k] # "idle")
      BY <1>0, <1>7, CrashKeeps
    <2>3. \A k \in Jobs : ServerOf[k] = s => pc'[k] \notin {"time", "name"}
      BY <1>0, <1>7, CrashKeeps
    <2>4. Begun' = Begun
      BY <2>2 DEF Begun
    <2>5. ASSUME NEW k \in Jobs PROVE NumberOf(k)'
      <3>1. \A n \in Names : name[k] = {n} => n[2] < clock'
        BY <1>0, <1>a, <1>b, <2>1 DEF Numbered, NumberOf
      <3>2. \A i \in earlier[k], n \in Names : name[i] = {n} => n[2] < clock'
        <4>1. \A i \in earlier[k] : i \in Jobs
          BY <1>0 DEF TypeOK
        <4> QED
          BY <1>0, <1>a, <1>b, <2>1, <4>1 DEF Numbered, NumberOf
      <3>3. ms[k] <= clock'
        BY <1>0, <1>b, <2>1 DEF Numbered, NumberOf
      <3>4. /\ pc'[k] = "time" => pc[k] = "time" /\ id'[ServerOf[k]] = id[ServerOf[k]]
            /\ pc'[k] = "name" => pc[k] = "name" /\ id'[ServerOf[k]] = id[ServerOf[k]]
        BY <1>b, <2>1, <2>2, <2>3
      <3> QED
        BY <1>0, <2>1, <3>1, <3>2, <3>3, <3>4 DEF Numbered, NumberOf, Named
    <2>6. NamesOrdered'
      BY <1>0, <2>1 DEF Numbered, NamesOrdered, Named
    <2>7. \A r \in Servers : id'[r] <= Cardinality(Begun')
      BY <1>0, <2>1, <2>4, CardTypes DEF Numbered
    <2> QED
      BY <2>5, <2>6, <2>7 DEF Numbered
  <1>8. CASE UNCHANGED vars
    BY <1>8, NumbersStay DEF vars
  <1> QED
    BY <1>1, <1>2, <1>3, <1>4, <1>5, <1>6, <1>7, <1>8
       DEF Next, Accept, Start, Children

-----------------------------------------------------------------------------
(***************************************************************************)
(* Descriptors.                                                            *)
(***************************************************************************)
Forking(s) == {j \in Jobs : ServerOf[j] = s /\ pc[j] = "fork"}

LEMMA ForkingFinite ==
  \A s : IsFiniteSet(Forking(s)) /\ Cardinality(Forking(s)) \in Nat
  BY JobsAssumption, FS_Subset, FS_CardinalityType DEF Forking

LEMMA ReturnedIs ==
  DescriptorsReturned <=> \A s \in Servers :
    held[s] - 3 * Cardinality(Forking(s)) \in 0 .. 2 * cut[s]
  BY DEF DescriptorsReturned, Forking

LEMMA DescriptorsStep == Base /\ TypeOK' /\ [Next]_vars => DescriptorsReturned'
  <1> SUFFICES ASSUME Base, TypeOK', [Next]_vars, NEW r \in Servers
               PROVE  held'[r] - 3 * Cardinality(Forking(r)')
                        \in 0 .. 2 * cut'[r]
    BY DEF DescriptorsReturned, Forking
  <1>0. /\ TypeOK /\ held[r] \in Nat /\ cut[r] \in Nat
        /\ Cardinality(Forking(r)) \in Nat
        /\ held[r] - 3 * Cardinality(Forking(r)) \in 0 .. 2 * cut[r]
    BY ReturnedIs, ForkingFinite DEF Base, TypeOK
  <1>1. ASSUME UNCHANGED <<held, cut>>,
               \A k \in Jobs : pc'[k] = "fork" <=> pc[k] = "fork"
        PROVE  held'[r] - 3 * Cardinality(Forking(r)') \in 0 .. 2 * cut'[r]
    <2>1. Forking(r)' = Forking(r)
      BY <1>1 DEF Forking
    <2> QED
      BY <1>0, <1>1, <2>1
  <1>2. ASSUME NEW j \in Jobs, Accept(j) \/ Start(j) \/ Children(j),
               ~RunOpen(j), ~RunFork(j)
        PROVE  held'[r] - 3 * Cardinality(Forking(r)') \in 0 .. 2 * cut'[r]
    <2>1. UNCHANGED <<held, cut>>
      BY <1>2 DEF Accept, Start, Children, Refuse, EmptyCode, IncrementId,
                  ReadClock, ReadId, WriteSrc, WriteStdin, WriteFile, Compile,
                  CompileWait, RunWait, BuildReply, RemoveTempFile,
                  OpenCompileErr, Gxx, Exec, Program, counts
    <2>2. \/ pc' = pc
          \/ /\ pc[j] # "fork"
             /\ \E x \in PCs \ {"fork"} : pc' = [pc EXCEPT ![j] = x]
      BY <1>2 DEF Accept, Start, Children, Refuse, EmptyCode, IncrementId,
                  ReadClock, ReadId, WriteSrc, WriteStdin, WriteFile, Compile,
                  CompileWait, RunWait, BuildReply, RemoveTempFile,
                  OpenCompileErr, Gxx, Exec, Program, Goto, PCs
    <2>3. \A k \in Jobs : pc'[k] = "fork" <=> pc[k] = "fork"
      BY <1>0, <2>2 DEF TypeOK
    <2> QED
      BY <1>1, <2>1, <2>3
  <1>3. ASSUME NEW j \in Jobs, RunOpen(j)
        PROVE  held'[r] - 3 * Cardinality(Forking(r)') \in 0 .. 2 * cut'[r]
    <2> DEFINE s == ServerOf[j]
    <2>1. PICK ks \in SUBSET RunFiles :
            /\ held' = [held EXCEPT ![s] = @ + Cardinality(ks)]
            /\ \/ ks = RunFiles /\ Goto(j, "fork") /\ cut' = cut
               \/ /\ ks # RunFiles /\ Goto(j, "end")
                  /\ cut' = [cut EXCEPT ![s] = @ + 1]
      BY <1>3 DEF RunOpen
    <2>2. pc[j] = "open" /\ s \in Servers
      BY <1>3, PlacementAssumption DEF RunOpen
    <2>3. CASE r # s
      <3>1. held'[r] = held[r] /\ cut'[r] = cut[r]
        BY <1>0, <2>1, <2>2, <2>3 DEF TypeOK
      <3>2. \A k \in Jobs : k # j => pc'[k] = pc[k]
        BY <1>0, <2>1 DEF Goto, TypeOK
      <3>3. Forking(r)' = Forking(r)
        BY <2>3, <3>2 DEF Forking
      <3> QED
        BY <1>0, <3>1, <3>3
    <2>4. CASE r = s /\ ks = RunFiles
      <3>1. held'[r] = held[r] + 3 /\ cut'[r] = cut[r]
        BY <1>0, <2>1, <2>2, <2>4, RunFilesCard DEF TypeOK
      <3>2. pc'[j] = "fork" /\ \A k \in Jobs : k # j => pc'[k] = pc[k]
        BY <1>0, <2>1, <2>4 DEF Goto, TypeOK
      <3>3. Forking(r)' = Forking(r) \cup {j} /\ j \notin Forking(r)
        BY <2>2, <2>4, <3>2 DEF Forking
      <3>4. Cardinality(Forking(r)') = Cardinality(Forking(r)) + 1
        BY <3>3, ForkingFinite, FS_AddElement
      <3> QED
        BY <1>0, <3>1, <3>4
    <2>5. CASE r = s /\ ks # RunFiles
      <3>1. Cardinality(ks) \in 0 .. 2
        BY <2>5, RunFilesCard
      <3>2. /\ held'[r] = held[r] + Cardinality(ks)
            /\ cut'[r] = cut[r] + 1
        BY <1>0, <2>1, <2>2, <2>5 DEF TypeOK
      <3>3. pc'[j] = "end" /\ \A k \in Jobs : k # j => pc'[k] = pc[k]
        BY <1>0, <2>1, <2>5 DEF Goto, TypeOK
      <3>4. Forking(r)' = Forking(r)
        BY <2>2, <3>3 DEF Forking
      <3> QED
        BY <1>0, <3>1, <3>2, <3>4
    <2> QED
      BY <2>3, <2>4, <2>5
  <1>4. ASSUME NEW j \in Jobs, RunFork(j)
        PROVE  held'[r] - 3 * Cardinality(Forking(r)') \in 0 .. 2 * cut'[r]
    <2> DEFINE s == ServerOf[j]
    <2>1. /\ held' = [held EXCEPT ![s] = @ - 3] /\ cut' = cut
          /\ pc[j] = "fork" /\ s \in Servers
          /\ Goto(j, "running") \/ Goto(j, "end")
      BY <1>4, RunFilesCard, PlacementAssumption DEF RunFork
    <2>2. pc'[j] # "fork" /\ \A k \in Jobs : k # j => pc'[k] = pc[k]
      BY <1>0, <2>1 DEF Goto, TypeOK
    <2>3. CASE r # s
      <3>1. held'[r] = held[r] /\ Forking(r)' = Forking(r)
        BY <1>0, <2>1, <2>2, <2>3 DEF Forking, TypeOK
      <3> QED
        BY <1>0, <2>1, <3>1
    <2>4. CASE r = s
      <3>1. held'[r] = held[r] - 3
        BY <1>0, <2>1, <2>4 DEF TypeOK
      <3>2. Forking(r)' = Forking(r) \ {j} /\ j \in Forking(r)
        BY <2>1, <2>2, <2>4 DEF Forking
      <3>3. Cardinality(Forking(r)') = Cardinality(Forking(r)) - 1
        BY <3>2, ForkingFinite, FS_RemoveElement
      <3> QED
        BY <1>0, <2>1, <3>1, <3>3
    <2> QED
      BY <2>3, <2>4
  <1>5. ASSUME NEW s \in Servers, Crash(s)
        PROVE  held'[r] - 3 * Cardinality(Forking(r)') \in 0 .. 2 * cut'[r]
    <2>1. CASE r = s
      <3>1. held'[r] = 0 /\ cut'[r] = 0
        BY <1>0, <1>5, <2>1 DEF Crash, TypeOK
      <3>2. Forking(r)' = {}
        BY <1>0, <1>5, <2>1, CrashKeeps DEF Forking
      <3>3. Cardinality(Forking(r)') = 0
        BY <3>2, FS_EmptySet
      <3> QED
        BY <3>1, <3>3
    <2>2. CASE r # s
      <3>1. held'[r] = held[r] /\ cut'[r] = cut[r]
        BY <1>0, <1>5, <2>2 DEF Crash, TypeOK
      <3>2. Forking(r)' = Forking(r)
        BY <1>0, <1>5, <2>2, CrashKeeps DEF Forking
      <3> QED
        BY <1>0, <3>1, <3>2
    <2> QED
      BY <2>1, <2>2
  <1>6. CASE Tick \/ UNCHANGED vars
    <2>1. UNCHANGED <<held, cut, pc>>
      BY <1>6 DEF Tick, vars, counts
    <2> QED
      BY <1>1, <2>1
  <1> QED
    BY <1>2, <1>3, <1>4, <1>5, <1>6 DEF Next

-----------------------------------------------------------------------------
(***************************************************************************)
(* What a status tells.                                                    *)
(***************************************************************************)
StatusOf(j) ==
  /\ ran[j] => /\ pc[j] \in {"running", "end", "remove", "done", "crashed"}
               /\ Named(j) /\ status[j] >= 0
  /\ killed[j] => ran[j]
  /\ status[j] > 0 => killed[j]
  /\ status[j] # 0 => pc[j] \in {"end", "remove", "done", "crashed"}
  /\ child[j] \in {"exec", "program"} => status[j] = 0
  /\ child[j] = "exec" => ~ran[j]
  /\ child[j] = "program" => ran[j]

Statuses == \A j \in Jobs : StatusOf(j)

LEMMA StatusStep ==
  ASSUME Base, TypeOK', Stages', NEW j \in Jobs, StatusOf(j), Steps(j)
  PROVE  StatusOf(j)'
  <1>0. TypeOK /\ StageOf(j) /\ StageOf(j)'
    BY DEF Base, Stages
  <1>a. /\ pc \in [Jobs -> PCs] /\ child \in [Jobs -> ChildStates]
        /\ status \in [Jobs -> -3 .. 1]
        /\ ran \in [Jobs -> BOOLEAN] /\ killed \in [Jobs -> BOOLEAN]
    BY <1>0 DEF TypeOK
  <1>b. status[j] \in -3 .. 1 /\ status'[j] \in -3 .. 1
    BY <1>a DEF TypeOK
  <1>1. CASE \/ Refuse(j) \/ IncrementId(j) \/ ReadClock(j) \/ BuildReply(j)
             \/ RemoveTempFile(j)
    <2>1. UNCHANGED <<name, child, status, ran, killed>>
      BY <1>1 DEF Refuse, IncrementId, ReadClock, BuildReply, RemoveTempFile,
                  history
    <2>2. \/ pc[j] \in {"idle", "time", "name"}
          \/ /\ pc[j] \in {"end", "remove"}
             /\ pc'[j] \in {"end", "remove", "done"}
      BY <1>a, <1>1 DEF Refuse, IncrementId, ReadClock, BuildReply,
                        RemoveTempFile, Goto
    <2> QED
      BY <2>1, <2>2 DEF StatusOf, Named
  <1>2. CASE ReadId(j)
    <2>1. UNCHANGED <<child, status, ran, killed>> /\ pc[j] = "name"
      BY <1>2 DEF ReadId, history
    <2> QED
      BY <2>1 DEF StatusOf
  <1>3. CASE EmptyCode(j) \/ WriteSrc(j) \/ WriteStdin(j) \/ Compile(j)
    <2>1. /\ UNCHANGED <<ran, killed>>
          /\ pc[j] \in {"idle", "src", "stdin", "compile"}
      BY <1>3 DEF EmptyCode, WriteSrc, WriteStdin, WriteFile, Compile, history
    <2>2. status'[j] = status[j] \/ (status'[j] < 0 /\ pc'[j] = "end")
      BY <1>a, <1>3 DEF EmptyCode, WriteSrc, WriteStdin, WriteFile, Compile,
                        Status, Goto
    <2>3. child'[j] \in {child[j], "redirect"}
      BY <1>a, <1>3 DEF EmptyCode, WriteSrc, WriteStdin, WriteFile, Compile,
                        Child
    <2>4. ~ran[j] /\ ~killed[j] /\ status[j] = 0 /\ child[j] = "none"
      BY <1>0, <2>1 DEF StatusOf, StageOf
    <2> QED
      BY <1>b, <2>1, <2>2, <2>3, <2>4 DEF StatusOf
  <1>4. CASE CompileWait(j) \/ RunOpen(j)
    <2>1. UNCHANGED <<ran, killed, child>> /\ pc[j] \in {"compiling", "open"}
      BY <1>4 DEF CompileWait, RunOpen, history
    <2>2. status'[j] = status[j] \/ (status'[j] < 0 /\ pc'[j] = "end")
      <3>1. UNCHANGED status \/ (Goto(j, "end")
                                   /\ (Status(j, -2) \/ Status(j, -3)))
        BY <1>4 DEF CompileWait, RunOpen
      <3> QED
        BY <1>a, <3>1 DEF Status, Goto
    <2>3. ~ran[j] /\ ~killed[j] /\ status[j] = 0
      BY <2>1 DEF StatusOf
    <2>4. child[j] \notin {"exec", "program"}
      BY <1>0, <1>4, <2>1 DEF StageOf
    <2> QED
      BY <1>b, <2>1, <2>2, <2>3, <2>4 DEF StatusOf
  <1>5. CASE RunFork(j)
    <2>1. /\ UNCHANGED <<ran, killed>> /\ pc[j] = "fork"
          /\ \/ /\ child'[j] = "exec" /\ pc'[j] = "running"
                /\ status'[j] = status[j]
             \/ /\ child'[j] = child[j] /\ pc'[j] = "end"
                /\ status'[j] < 0
      BY <1>a, <1>5 DEF RunFork, Goto, Child, Status, history
    <2>2. ~ran[j] /\ ~killed[j] /\ status[j] = 0 /\ child[j] = "none"
      BY <1>0, <2>1 DEF StatusOf, StageOf
    <2> QED
      BY <1>b, <2>1, <2>2 DEF StatusOf
  <1>6. CASE OpenCompileErr(j) \/ Gxx(j)
    <2>1. UNCHANGED <<ran, killed, pc, status, name>>
      BY <1>6 DEF OpenCompileErr, Gxx, history
    <2>2. child'[j] \in {"gxx", "none"}
      BY <1>a, <1>6 DEF OpenCompileErr, Gxx, Child
    <2> QED
      BY <2>1, <2>2 DEF StatusOf, Named
  <1>7. CASE Exec(j)
    <2>1. /\ UNCHANGED <<killed, pc, status, name>> /\ child[j] = "exec"
          /\ \/ child'[j] = "program" /\ ran'[j]
             \/ child'[j] = "none" /\ ran'[j] = ran[j]
      BY <1>a, <1>7 DEF Exec, Child
    <2>2. /\ pc[j] \in {"running", "crashed", "compiling"} /\ Named(j)
          /\ status[j] = 0 /\ ~ran[j]
      BY <1>0, <2>1 DEF StageOf, StatusOf
    <2>3. pc[j] # "compiling"
      BY <1>0, <2>1 DEF StageOf
    <2> QED
      BY <1>a, <2>1, <2>2, <2>3 DEF StatusOf, Named
  <1>8. CASE Program(j)
    <2>1. /\ UNCHANGED <<ran, pc, status, name>> /\ child[j] = "program"
          /\ child'[j] = "none"
      BY <1>a, <1>8 DEF Program, Child, history
    <2>2. ran[j] /\ status[j] = 0
      BY <2>1 DEF StatusOf
    <2> QED
      BY <1>a, <2>1, <2>2 DEF StatusOf, Named
  <1>9. CASE RunWait(j)
    <2>1. /\ UNCHANGED <<ran, killed, child, name>> /\ pc[j] = "running"
          /\ child[j] = "none" /\ pc'[j] = "end"
          /\ status'[j] = IF killed[j] THEN 1 ELSE 0
      BY <1>a, <1>9 DEF RunWait, Goto, Status, history
    <2> QED
      BY <1>a, <2>1 DEF StatusOf, Named
  <1> QED
    BY <1>1, <1>2, <1>3, <1>4, <1>5, <1>6, <1>7, <1>8, <1>9
       DEF Steps, Accept, Start, Children

LEMMA StatusesStep ==
  Base /\ TypeOK' /\ Stages' /\ Statuses /\ [Next]_vars => Statuses'
  <1> SUFFICES ASSUME Base, TypeOK', Stages', Statuses, [Next]_vars,
                      NEW k \in Jobs
               PROVE  StatusOf(k)'
    BY DEF Statuses
  <1>0. TypeOK /\ StatusOf(k)
    BY DEF Base, Statuses
  <1>1. ASSUME NEW j \in Jobs, Steps(j) PROVE StatusOf(k)'
    <2>1. CASE k = j
      BY <1>0, <1>1, <2>1, StatusStep
    <2>2. CASE k # j
      BY <1>0, <1>1, <2>2, OthersKept DEF Kept, StatusOf, Named
    <2> QED
      BY <2>1, <2>2
  <1>2. ASSUME NEW s \in Servers, Crash(s) PROVE StatusOf(k)'
    BY <1>0, <1>2, CrashKeeps DEF StatusOf, Named
  <1>3. CASE Tick \/ UNCHANGED vars
    BY <1>0, <1>3 DEF Tick, vars, history, StatusOf, Named
  <1> QED
    BY <1>1, <1>2, <1>3 DEF Next, Steps


-----------------------------------------------------------------------------
(***************************************************************************)
(* Whose files the paths lead to.                                          *)
(***************************************************************************)
LEMMA OpenedIs ==
  ASSUME TypeOK, Stages, NEW j \in Jobs, Named(j), NEW k \in Kinds,
         NEW new \in Kinds \cup {"blank"}
  PROVE  /\ Opened(j, k, new) \in Inodes
         /\ \/ Opened(j, k, new) = dir[PathOf(j, k)]
            \/ Opened(j, k, new)[1] = j
  <1>1. Opened(j, k, new) \in Inodes
    BY FileType
  <1>2. CASE Exists(j, k)
    BY <1>1, <1>2 DEF Opened, FileOf
  <1>3. CASE ~Exists(j, k)
    BY <1>1, <1>3 DEF Opened
  <1> QED
    BY <1>2, <1>3

\* A step of j changes only what paths with its stem lead to, and a path with
\* its stem leads nowhere when the step ends the job.
LEMMA DirStep ==
  ASSUME Base, TypeOK', NEW j \in Jobs, Steps(j), NEW p \in Paths
  PROVE  /\ \/ dir'[p] = dir[p]
            \/ /\ Named(j) /\ p[1] = Stem(j)
               /\ dir'[p] = NoFile \/ dir'[p][1] = j
         /\ dir'[p] # NoFile /\ pc'[j] \in {"done", "refused"} =>
              name[j] # {p[1]}
  <1>0. TypeOK /\ Stages /\ StageOf(j)
    BY DEF Base, Stages
  <1>a. pc \in [Jobs -> PCs] /\ dir \in [Paths -> Inodes \cup {NoFile}]
    BY <1>0 DEF TypeOK
  <1>1. CASE Refuse(j)
    BY <1>0, <1>1 DEF Refuse, files, StageOf, Unnamed
  <1>2. CASE \/ EmptyCode(j) \/ IncrementId(j) \/ ReadClock(j) \/ ReadId(j)
             \/ Compile(j) \/ CompileWait(j) \/ RunFork(j) \/ RunWait(j)
             \/ BuildReply(j)
    <2>1. dir' = dir
      BY <1>2 DEF EmptyCode, IncrementId, ReadClock, ReadId, Compile,
                  CompileWait, RunFork, RunWait, BuildReply, files
    <2>2. pc'[j] \notin {"done", "refused"}
      BY <1>a, <1>2 DEF EmptyCode, IncrementId, ReadClock, ReadId, Compile,
                        CompileWait, RunFork, RunWait, BuildReply, Goto
    <2> QED
      BY <2>1, <2>2
  <1>3. CASE WriteSrc(j) \/ WriteStdin(j)
    <2>1. PICK k \in {"src", "stdin"}, next \in {"stdin", "compile"} :
            WriteFile(j, k, next)
      BY <1>3 DEF WriteSrc, WriteStdin
    <2>2. Named(j) /\ k \in Kinds
      BY <1>0, <2>1 DEF WriteFile, StageOf, AtFiles, Kinds
    <2>3. pc'[j] \notin {"done", "refused"}
      BY <1>a, <2>1 DEF WriteFile, Goto
    <2>4. dir' = dir \/ dir' = [dir EXCEPT ![PathOf(j, k)] = Opened(j, k, k)]
      BY <2>1 DEF WriteFile, files
    <2>5. PathOf(j, k)[1] = Stem(j) /\ PathOf(j, k) \in Paths
      BY <1>0, <2>2, PathIs DEF PathOf
    <2> QED
      BY <1>0, <1>a, <2>2, <2>3, <2>4, <2>5, OpenedIs
  <1>4. CASE OpenCompileErr(j)
    <2>1. Named(j) /\ "compile_err" \in Kinds
      BY <1>0, <1>4 DEF OpenCompileErr, StageOf, Kinds
    <2>2. pc'[j] \notin {"done", "refused"}
      BY <1>0, <1>4 DEF OpenCompileErr, StageOf
    <2>3. \/ dir' = dir
          \/ dir' = [dir EXCEPT ![PathOf(j, "compile_err")] =
                       Opened(j, "compile_err", "compile_err")]
      BY <1>4 DEF OpenCompileErr
    <2>4. /\ PathOf(j, "compile_err")[1] = Stem(j)
          /\ PathOf(j, "compile_err") \in Paths
      BY <1>0, <2>1, PathIs DEF PathOf
    <2> QED
      BY <1>0, <1>a, <2>1, <2>2, <2>3, <2>4, OpenedIs
  <1>5. CASE Gxx(j)
    <2>1. Named(j) /\ "exe" \in Kinds
      BY <1>0, <1>5 DEF Gxx, StageOf, Kinds
    <2>2. pc'[j] \notin {"done", "refused"}
      BY <1>0, <1>5 DEF Gxx, StageOf
    <2>3. dir' = dir \/ dir' = [dir EXCEPT ![PathOf(j, "exe")] = <<j, "exe">>]
      BY <1>5 DEF Gxx
    <2>4. PathOf(j, "exe")[1] = Stem(j) /\ PathOf(j, "exe") \in Paths
      BY <1>0, <2>1, PathIs DEF PathOf
    <2> QED
      BY <1>a, <2>1, <2>2, <2>3, <2>4
  <1>6. CASE Exec(j) \/ Program(j)
    <2>1. dir' = dir /\ pc' = pc /\ pc[j] \notin {"done", "refused"}
      BY <1>0, <1>6 DEF Exec, Program, files, StageOf
    <2> QED
      BY <2>1
  <1>7. CASE RunOpen(j)
    <2>1. Named(j)
      BY <1>0, <1>7 DEF RunOpen, StageOf, AtFiles
    <2>2. pc'[j] \notin {"done", "refused"}
      BY <1>a, <1>7 DEF RunOpen, Goto
    <2>3. PICK ks \in SUBSET RunFiles :
            LinkFiles(j, ks, [k \in RunFiles |-> RunFile(j, k)])
      BY <1>7 DEF RunOpen
    <2>4. CASE p[1] = Stem(j) /\ p[2] \in ks
      <3>1. dir'[p] = RunFile(j, p[2]) /\ p[2] \in RunFiles /\ p[2] \in Kinds
        BY <2>3, <2>4 DEF LinkFiles, RunFiles, Kinds
      <3>2. p = PathOf(j, p[2])
        BY <2>4 DEF PathOf, Paths
      <3>3. RunFile(j, p[2]) = dir[p] \/ RunFile(j, p[2])[1] = j
        BY <1>0, <2>1, <3>1, <3>2, OpenedIs DEF RunFile
      <3> QED
        BY <2>1, <2>2, <2>4, <3>1, <3>3
    <2>5. CASE ~(p[1] = Stem(j) /\ p[2] \in ks)
      BY <2>2, <2>3, <2>5 DEF LinkFiles
    <2> QED
      BY <2>4, <2>5
  <1>8. CASE RemoveTempFile(j)
    <2>1. CASE name[j] = {}
      BY <1>8, <2>1 DEF RemoveTempFile
    <2>2. CASE name[j] # {}
      <3>1. name[j] = {Stem(j)}
        BY <1>0, <2>2, PathIs DEF Named
      <3>2. dir'[p] = IF p[1] = Stem(j) THEN NoFile ELSE dir[p]
        BY <1>8, <2>2 DEF RemoveTempFile, LinkFiles, Paths
      <3> QED
        BY <2>2, <3>1, <3>2 DEF Named
    <2> QED
      BY <2>1, <2>2
  <1> QED
    BY <1>1, <1>2, <1>3, <1>4, <1>5, <1>6, <1>7, <1>8
       DEF Steps, Accept, Start, Children

\* A name once given is kept.
LEMMA NamesKept ==
  ASSUME Base, [Next]_vars, NEW k \in Jobs, Named(k)
  PROVE  name'[k] = name[k]
  <1>0. TypeOK /\ StageOf(k)
    BY DEF Base, Stages
  <1>1. ASSUME NEW j \in Jobs, Steps(j), k # j PROVE name'[k] = name[k]
    BY <1>0, <1>1, OthersKept DEF Kept
  <1>2. ASSUME Steps(k) PROVE name'[k] = name[k]
    <2>1. ~ReadId(k)
      BY <1>0 DEF ReadId, StageOf, Unnamed, Named
    <2> QED
      BY <1>2, <2>1
         DEF Steps, Accept, Start, Children, Refuse, EmptyCode, IncrementId,
             ReadClock, WriteSrc, WriteStdin, WriteFile, Compile, CompileWait,
             RunOpen, RunFork, RunWait, BuildReply, RemoveTempFile,
             OpenCompileErr, Gxx, Exec, Program
  <1>3. ASSUME NEW s \in Servers, Crash(s) PROVE name'[k] = name[k]
    BY <1>3 DEF Crash
  <1>4. CASE Tick \/ UNCHANGED vars
    BY <1>4 DEF Tick, vars
  <1> QED
    BY <1>1, <1>2, <1>3, <1>4 DEF Next, Steps

LEMMA OwnersStep ==
  Base /\ TypeOK' /\ FilesHaveOwners /\ [Next]_vars => FilesHaveOwners'
  <1> SUFFICES ASSUME Base, TypeOK', FilesHaveOwners, [Next]_vars,
                      NEW p \in Paths, dir'[p] # NoFile
               PROVE  \E j \in Jobs : /\ name'[j] = {p[1]}
                                      /\ pc'[j] \notin {"done", "refused"}
    BY DEF FilesHaveOwners
  <1>0. TypeOK /\ Stages
    BY DEF Base
  <1>1. ASSUME dir[p] # NoFile
        PROVE  \E k \in Jobs : /\ name[k] = {p[1]} /\ name'[k] = {p[1]}
                               /\ pc[k] \notin {"done", "refused"}
    <2>1. PICK k \in Jobs : name[k] = {p[1]} /\ pc[k] \notin {"done", "refused"}
      BY <1>1 DEF FilesHaveOwners
    <2>2. Named(k)
      BY <2>1 DEF Named
    <2> QED
      BY <2>1, <2>2, NamesKept
  <1>2. ASSUME NEW j \in Jobs, Steps(j)
        PROVE  \E k \in Jobs : /\ name'[k] = {p[1]}
                               /\ pc'[k] \notin {"done", "refused"}
    <2>1. CASE dir[p] # NoFile
      <3>1. PICK k \in Jobs : /\ name[k] = {p[1]} /\ name'[k] = {p[1]}
                              /\ pc[k] \notin {"done", "refused"}
        BY <1>1, <2>1
      <3>2. CASE k # j
        BY <1>0, <1>2, <3>1, <3>2, OthersKept DEF Kept
      <3>3. CASE k = j
        BY <1>2, <3>1, <3>3, DirStep
      <3> QED
        BY <3>2, <3>3
    <2>2. CASE dir[p] = NoFile
      <3>1. Named(j) /\ p[1] = Stem(j)
        BY <1>2, <2>2, DirStep
      <3>2. name[j] = {p[1]}
        BY <1>0, <3>1, PathIs
      <3>3. pc'[j] \notin {"done", "refused"}
        BY <1>2, <3>2, DirStep
      <3> QED
        BY <3>1, <3>2, <3>3, NamesKept
    <2> QED
      BY <2>1, <2>2
  <1>3. ASSUME NEW s \in Servers, Crash(s)
        PROVE  \E k \in Jobs : /\ name'[k] = {p[1]}
                               /\ pc'[k] \notin {"done", "refused"}
    <2>1. dir[p] # NoFile
      BY <1>0, <1>3, CrashKeeps, JobsAssumption DEF Crash, files
    <2>2. PICK k \in Jobs : /\ name[k] = {p[1]} /\ name'[k] = {p[1]}
                            /\ pc[k] \notin {"done", "refused"}
      BY <1>1, <2>1
    <2> QED
      BY <1>0, <1>3, <2>2, CrashKeeps
  <1>4. CASE Tick \/ UNCHANGED vars
    BY <1>1, <1>4 DEF Tick, vars, files
  <1> QED
    BY <1>2, <1>3, <1>4 DEF Next, Steps

-----------------------------------------------------------------------------
(***************************************************************************)
(* Whose data the files hold: that of jobs with one name.                  *)
(***************************************************************************)
Kin(j) == {k \in Jobs : Named(k) /\ name[k] = name[j]}

DataOf(j) ==
  /\ \A k \in FdKinds : fds[j][k] # NoFile =>
       Named(j) /\ name[fds[j][k][1]] = name[j]
  /\ image[j] \subseteq Kin(j)
  /\ result[j] \subseteq Kin(j)

DataFits ==
  /\ \A p \in Paths : dir[p] # NoFile => name[dir[p][1]] = {p[1]}
  /\ \A i \in Inodes : disk[i] \subseteq Kin(i[1])
  /\ \A j \in Jobs : DataOf(j)

LEMMA KinGrows ==
  ASSUME Base, [Next]_vars, NEW j \in Jobs
  PROVE  /\ Kin(j) \subseteq Kin(j)'
         /\ Kin(j) \subseteq Jobs
         /\ \A k \in Jobs : Named(k) /\ name[k] = name[j] => Kin(k) = Kin(j)
         /\ Named(j) => j \in Kin(j)
  BY NamesKept DEF Kin, Named

\* What job j reads at its paths, and what it opens there, is of its kin.
LEMMA ReadsKin ==
  ASSUME Base, DataFits, NEW j \in Jobs, Named(j), NEW k \in Kinds
  PROVE  /\ Content(j, k) \subseteq Kin(j)
         /\ Exists(j, k) => name[FileOf(j, k)[1]] = name[j]
         /\ \A new \in Kinds \cup {"blank"} :
              name[Opened(j, k, new)[1]] = name[j]
  <1>0. TypeOK /\ Stages
    BY DEF Base
  <1>1. /\ PathOf(j, k) \in Paths /\ PathOf(j, k)[1] = Stem(j)
        /\ name[j] = {Stem(j)}
    BY <1>0, PathIs DEF PathOf
  <1>2. Exists(j, k) => name[FileOf(j, k)[1]] = name[j]
    BY <1>1 DEF Exists, FileOf, DataFits
  <1>3. \A new \in Kinds \cup {"blank"} : name[Opened(j, k, new)[1]] = name[j]
    BY <1>2 DEF Opened
  <1>4. Content(j, k) \subseteq Kin(j)
    <2>1. CASE Exists(j, k)
      <3>1. FileOf(j, k) \in Inodes
        BY <1>0, <2>1, FileType DEF Exists
      <3>2. disk[FileOf(j, k)] \subseteq Kin(FileOf(j, k)[1])
        BY <3>1 DEF DataFits
      <3>3. Kin(FileOf(j, k)[1]) = Kin(j)
        BY <1>2, <2>1 DEF Kin
      <3> QED
        BY <2>1, <3>2, <3>3 DEF Content
    <2>2. CASE ~Exists(j, k)
      BY <2>2 DEF Content
    <2> QED
      BY <2>1, <2>2
  <1> QED
    BY <1>2, <1>3, <1>4

\* A step of j writes only inodes of its kin, and data of its kin.
LEMMA DiskStep ==
  ASSUME Base, DataFits, NEW j \in Jobs, Steps(j), NEW i \in Inodes
  PROVE  \/ disk'[i] = disk[i]
         \/ Named(j) /\ name[i[1]] = name[j] /\ disk'[i] \subseteq Kin(j)
  <1>0. TypeOK /\ Stages /\ StageOf(j)
    BY DEF Base, Stages
  <1>a. /\ disk \in [Inodes -> SUBSET Jobs]
        /\ fds \in [Jobs -> [FdKinds -> Inodes \cup {NoFile}]]
    BY <1>0 DEF TypeOK
  <1>1. CASE ~(WriteSrc(j) \/ WriteStdin(j) \/ Gxx(j) \/ Program(j))
    <2>1. disk' = disk
      BY <1>1
         DEF Steps, Accept, Start, Children, Refuse, EmptyCode, IncrementId,
             ReadClock, ReadId, Compile, CompileWait, RunOpen, RunFork,
             RunWait, BuildReply, RemoveTempFile, OpenCompileErr, Exec, files
    <2> QED
      BY <2>1
  <1>2. CASE WriteSrc(j) \/ WriteStdin(j)
    <2>1. PICK k \in {"src", "stdin"}, next \in {"stdin", "compile"} :
            WriteFile(j, k, next)
      BY <1>2 DEF WriteSrc, WriteStdin
    <2>2. Named(j) /\ k \in Kinds
      BY <1>0, <2>1 DEF WriteFile, StageOf, AtFiles, Kinds
    <2>3. disk' = disk \/ disk' = [disk EXCEPT ![Opened(j, k, k)] = {j}]
      BY <2>1 DEF WriteFile, files
    <2>4. {j} \subseteq Kin(j) /\ name[Opened(j, k, k)[1]] = name[j]
      BY <2>2, ReadsKin DEF Kin
    <2> QED
      BY <1>a, <2>2, <2>3, <2>4
  <1>3. CASE Gxx(j)
    <2>1. /\ Named(j) /\ "src" \in Kinds /\ child[j] = "gxx"
          /\ "compile_err" \in FdKinds
      BY <1>0, <1>3 DEF Gxx, StageOf, Kinds, FdKinds
    <2>2. Content(j, "src") \subseteq Kin(j)
      BY <2>1, ReadsKin
    <2>3. CASE disk' = [disk EXCEPT ![<<j, "exe">>] = Content(j, "src")]
      <3>1. disk'[i] = disk[i] \/ (i = <<j, "exe">> /\ disk'[i] = Content(j, "src"))
        BY <1>a, <2>3
      <3> QED
        BY <2>1, <2>2, <3>1
    <2>4. CASE disk' = [disk EXCEPT ![fds[j]["compile_err"]] =
                          @ \cup Content(j, "src")]
      <3> DEFINE f == fds[j]["compile_err"]
      <3>1. /\ disk'[i] = disk[i] \/ i = f
            /\ i = f => disk'[i] = disk[i] \cup Content(j, "src")
        BY <1>a, <2>4
      <3>2. f # NoFile
        BY <1>0, <2>1 DEF StageOf
      <3>3. name[f[1]] = name[j]
        BY <2>1, <3>2 DEF DataFits, DataOf
      <3>4. i = f => disk[i] \subseteq Kin(j)
        BY <3>3 DEF DataFits, Kin
      <3> QED
        BY <2>1, <2>2, <3>1, <3>3, <3>4
    <2> QED
      BY <1>3, <2>3, <2>4 DEF Gxx
  <1>4. CASE Program(j)
    <2>1. /\ Named(j) /\ child[j] = "program"
          /\ "stdin" \in FdKinds /\ "stdout" \in FdKinds /\ "stderr" \in FdKinds
      BY <1>0, <1>4 DEF Program, StageOf, FdKinds, RunFiles
    <2>2. ASSUME NEW k \in RunFiles
          PROVE  /\ fds[j][k] \in Inodes /\ name[fds[j][k][1]] = name[j]
                 /\ disk[fds[j][k]] \subseteq Kin(j)
      <3>1. k \in FdKinds /\ fds[j][k] # NoFile
        BY <1>0, <2>1 DEF StageOf, FdKinds
      <3>2. fds[j][k] \in Inodes /\ name[fds[j][k][1]] = name[j]
        BY <1>a, <3>1 DEF DataFits, DataOf
      <3>3. disk[fds[j][k]] \subseteq Kin(fds[j][k][1])
        BY <3>2 DEF DataFits
      <3> QED
        BY <3>2, <3>3 DEF Kin
    <2>3. /\ "stdin" \in RunFiles /\ "stdout" \in RunFiles
          /\ "stderr" \in RunFiles
      BY DEF RunFiles
    <2>4. image[j] \subseteq Kin(j)
      BY DEF DataFits, DataOf
    <2>5. \/ disk'[i] = disk[i]
          \/ /\ \E k \in RunFiles : i = fds[j][k]
             /\ disk'[i] = disk[i] \cup image[j] \cup disk[fds[j]["stdin"]]
      BY <1>4, <2>3 DEF Program
    <2> QED
      BY <2>1, <2>2, <2>3, <2>4, <2>5
  <1> QED
    BY <1>1, <1>2, <1>3, <1>4

\* The job's own descriptors, image and reply.
LEMMA DataStep ==
  ASSUME Base, DataFits, NEW j \in Jobs, Steps(j)
  PROVE  /\ \A k \in FdKinds : fds'[j][k] # NoFile =>
              \/ fds'[j][k] = fds[j][k]
              \/ Named(j) /\ name[fds'[j][k][1]] = name[j]
         /\ image'[j] \subseteq Kin(j)
         /\ result'[j] \subseteq Kin(j)
  <1>0. TypeOK /\ Stages /\ StageOf(j)
    BY DEF Base, Stages
  <1>a. /\ fds \in [Jobs -> [FdKinds -> Inodes \cup {NoFile}]]
        /\ image \in [Jobs -> SUBSET Jobs] /\ result \in [Jobs -> SUBSET Jobs]
    BY <1>0 DEF TypeOK
  <1>b. image[j] \subseteq Kin(j) /\ result[j] \subseteq Kin(j)
    BY DEF DataFits, DataOf
  <1>c. \A k \in RunFiles : k \in Kinds
    BY DEF RunFiles, Kinds
  <1>1. CASE ~(OpenCompileErr(j) \/ RunOpen(j) \/ Exec(j) \/ BuildReply(j))
    <2>1. UNCHANGED <<fds, image, result>>
      BY <1>1
         DEF Steps, Accept, Start, Children, Refuse, EmptyCode, IncrementId,
             ReadClock, ReadId, WriteSrc, WriteStdin, WriteFile, Compile,
             CompileWait, RunFork, RunWait, RemoveTempFile, Gxx, Program
    <2> QED
      BY <1>b, <2>1
  <1>2. CASE OpenCompileErr(j)
    <2>1. /\ UNCHANGED <<image, result>> /\ Named(j) /\ "compile_err" \in Kinds
      BY <1>0, <1>2 DEF OpenCompileErr, StageOf, Kinds
    <2>2. \/ fds' = fds
          \/ fds' = [fds EXCEPT ![j]["compile_err"] =
                       Opened(j, "compile_err", "compile_err")]
      BY <1>2 DEF OpenCompileErr
    <2>3. name[Opened(j, "compile_err", "compile_err")[1]] = name[j]
      BY <2>1, ReadsKin
    <2>4. ASSUME NEW k \in FdKinds
          PROVE  \/ fds'[j][k] = fds[j][k]
                 \/ fds'[j][k] = Opened(j, "compile_err", "compile_err")
      BY <1>a, <2>2
    <2> QED
      BY <1>b, <2>1, <2>3, <2>4
  <1>3. CASE RunOpen(j)
    <2>1. UNCHANGED <<image, result>> /\ Named(j)
      BY <1>0, <1>3 DEF RunOpen, StageOf, AtFiles
    <2>2. \/ fds' = fds
          \/ fds' = [fds EXCEPT ![j] =
               [k \in FdKinds |-> IF k \in RunFiles THEN RunFile(j, k)
                                    ELSE fds[j][k]]]
      BY <1>3 DEF RunOpen
    <2>3. ASSUME NEW k \in FdKinds
          PROVE  \/ fds'[j][k] = fds[j][k]
                 \/ k \in RunFiles /\ fds'[j][k] = RunFile(j, k)
      BY <1>a, <2>2
    <2>4. \A k \in RunFiles : name[RunFile(j, k)[1]] = name[j]
      BY <1>c, <2>1, ReadsKin DEF RunFile
    <2> QED
      BY <1>b, <2>1, <2>3, <2>4
  <1>4. CASE Exec(j)
    <2>1. UNCHANGED <<fds, result>> /\ Named(j) /\ "exe" \in Kinds
      BY <1>0, <1>4 DEF Exec, StageOf, Kinds
    <2>2. image'[j] = image[j] \/ image'[j] = Content(j, "exe")
      BY <1>a, <1>4 DEF Exec
    <2> QED
      BY <1>b, <2>1, <2>2, ReadsKin
  <1>5. CASE BuildReply(j)
    <2>1. UNCHANGED <<fds, image>>
      BY <1>5 DEF BuildReply
    <2>2. CASE name[j] = {}
      <3>1. result'[j] = {}
        BY <1>a, <1>5, <2>2 DEF BuildReply
      <3> QED
        BY <1>b, <2>1, <3>1
    <2>3. CASE name[j] # {} /\ status[j] = -3
      <3>1. result'[j] = Content(j, "compile_err")
        BY <1>a, <1>5, <2>3 DEF BuildReply
      <3> QED
        BY <1>b, <2>1, <2>3, <3>1, ReadsKin DEF Named, Kinds
    <2>4. CASE name[j] # {} /\ status[j] = 0
      <3>1. result'[j] = Content(j, "stdout") \cup Content(j, "stderr")
        BY <1>a, <1>5, <2>4 DEF BuildReply
      <3>2. "stdout" \in Kinds /\ "stderr" \in Kinds
        BY DEF Kinds
      <3> QED
        BY <1>b, <2>1, <2>4, <3>1, <3>2, ReadsKin DEF Named
    <2>5. CASE name[j] # {} /\ status[j] # -3 /\ status[j] # 0
      <3>1. result'[j] = {}
        BY <1>a, <1>5, <2>5 DEF BuildReply
      <3> QED
        BY <1>b, <2>1, <3>1
    <2> QED
      BY <2>2, <2>3, <2>4, <2>5
  <1> QED
    BY <1>1, <1>2, <1>3, <1>4, <1>5

LEMMA DataFitsStep == Base /\ TypeOK' /\ DataFits /\ [Next]_vars => DataFits'
  <1> SUFFICES ASSUME Base, TypeOK', DataFits, [Next]_vars PROVE DataFits'
    OBVIOUS
  <1>0. TypeOK /\ Stages
    BY DEF Base
  <1>1. \A j \in Jobs : /\ Kin(j) \subseteq Kin(j)'
                        /\ Named(j) => name'[j] = name[j] /\ Named(j)'
    BY KinGrows, NamesKept DEF Named
  <1>2. ASSUME UNCHANGED <<dir, disk, fds, image, result, name>>
        PROVE  DataFits'
    BY <1>2 DEF DataFits, DataOf, Kin, Named
  <1>3. ASSUME NEW j \in Jobs, Steps(j) PROVE DataFits'
    <2>1. ASSUME NEW p \in Paths, dir'[p] # NoFile
          PROVE  name'[dir'[p][1]] = {p[1]}
      <3>1. CASE dir'[p] = dir[p]
        <4>1. dir[p] \in Inodes
          BY <1>0, <2>1, <3>1 DEF TypeOK
        <4>2. dir[p][1] \in Jobs /\ name[dir[p][1]] = {p[1]}
          BY <2>1, <3>1, <4>1 DEF DataFits, Inodes
        <4> QED
          BY <1>1, <3>1, <4>2 DEF Named
      <3>2. CASE dir'[p] # dir[p]
        <4>1. Named(j) /\ p[1] = Stem(j) /\ dir'[p][1] = j
          BY <1>3, <2>1, <3>2, DirStep
        <4>2. name[j] = {p[1]}
          BY <1>0, <4>1, PathIs
        <4> QED
          BY <1>1, <4>1, <4>2
      <3> QED
        BY <3>1, <3>2
    <2>2. ASSUME NEW i \in Inodes PROVE disk'[i] \subseteq Kin(i[1])'
      <3>1. i[1] \in Jobs
        BY DEF Inodes
      <3>2. disk'[i] \subseteq Kin(i[1])
        <4>1. disk[i] \subseteq Kin(i[1])
          BY DEF DataFits
        <4>2. name[i[1]] = name[j] => Kin(i[1]) = Kin(j)
          BY DEF Kin
        <4> QED
          BY <1>3, <4>1, <4>2, DiskStep
      <3> QED
        BY <1>1, <3>1, <3>2
    <2>3. ASSUME NEW k \in Jobs PROVE DataOf(k)'
      <3>0. DataOf(k)
        BY DEF DataFits
      <3>1. ASSUME NEW x \in FdKinds, fds'[k][x] # NoFile
            PROVE  Named(k) /\ name[fds'[k][x][1]] = name[k]
        <4>1. CASE k = j
          BY <1>3, <3>0, <3>1, <4>1, DataStep DEF DataOf
        <4>2. CASE k # j
          <5>1. fds'[k] = fds[k]
            BY <1>0, <1>3, <4>2, OthersKept DEF Kept
          <5> QED
            BY <3>0, <3>1, <5>1 DEF DataOf
        <4> QED
          BY <4>1, <4>2
      <3>2. ASSUME NEW x \in FdKinds, fds'[k][x] # NoFile
            PROVE  Named(k)' /\ name'[fds'[k][x][1]] = name'[k]
        <4>1. fds'[k][x] \in Inodes
          BY <3>2 DEF TypeOK
        <4>2. fds'[k][x][1] \in Jobs
          BY <4>1 DEF Inodes
        <4>3. Named(k) /\ name[fds'[k][x][1]] = name[k]
          BY <3>1, <3>2
        <4>4. Named(fds'[k][x][1])
          BY <4>3 DEF Named
        <4> QED
          BY <1>1, <4>2, <4>3, <4>4
      <3>3. image'[k] \subseteq Kin(k) /\ result'[k] \subseteq Kin(k)
        <4>1. CASE k = j
          BY <1>3, <4>1, DataStep
        <4>2. CASE k # j
          BY <1>0, <1>3, <3>0, <4>2, OthersKept DEF Kept, DataOf
        <4> QED
          BY <4>1, <4>2
      <3> QED
        BY <1>1, <3>2, <3>3 DEF DataOf
    <2> QED
      BY <2>1, <2>2, <2>3 DEF DataFits
  <1>4. ASSUME NEW s \in Servers, Crash(s) PROVE DataFits'
    BY <1>2, <1>4 DEF Crash, files
  <1>5. CASE Tick \/ UNCHANGED vars
    BY <1>2, <1>5 DEF Tick, vars, files
  <1> QED
    BY <1>3, <1>4, <1>5 DEF Next, Steps

-----------------------------------------------------------------------------
(***************************************************************************)
(* A job whose name is its own: what it wrote is still there.              *)
(***************************************************************************)
Compiles == {"stdin", "compile", "compiling"}

PrivateOf(j) == Alone(j) =>
  /\ pc[j] = "src" => ~Exists(j, "exe")
  /\ pc[j] \in Compiles => Content(j, "src") # {}
  /\ pc[j] \in Compiles \cup {"open", "fork", "running"} =>
       (Exists(j, "exe") => Content(j, "exe") # {})
  /\ pc[j] \in {"fork", "running"} => FileOf(j, "stdout") = fds[j]["stdout"]
  /\ pc[j] = "running" /\ child[j] = "program" => image[j] # {}
  /\ ran[j] /\ child[j] = "none" /\ pc[j] \in {"running", "end"} =>
       Content(j, "stdout") # {}
  /\ ran[j] /\ status[j] = 0 /\ pc[j] \in {"remove", "done"} => result[j] # {}

Privates == \A j \in Jobs : PrivateOf(j)

\* What is not touched is still found, with what it holds or more.
LEMMA StillThere ==
  ASSUME Base, [Next]_vars, NEW j \in Jobs, Named(j), NEW k \in Kinds,
         dir'[PathOf(j, k)] = dir[PathOf(j, k)]
  PROVE  /\ FileOf(j, k)' = FileOf(j, k)
         /\ Exists(j, k)' <=> Exists(j, k)
         /\ disk'[FileOf(j, k)] # {} \/ ~(disk[FileOf(j, k)] # {}) =>
              (Content(j, k) # {} => Content(j, k)' # {})
  <1>1. name'[j] = name[j]
    BY NamesKept
  <1>2. FileOf(j, k)' = FileOf(j, k)
    BY <1>1 DEF FileOf, PathOf, Stem
  <1> QED
    BY <1>2 DEF Exists, Content

\* A step of another job leaves a private job what it has.
LEMMA OthersPrivate ==
  ASSUME Base, TypeOK', DataFits, [Next]_vars, NEW j \in Jobs, Steps(j),
         NEW k \in Jobs, k # j, StatusOf(k), PrivateOf(k)
  PROVE  PrivateOf(k)'
  <1> SUFFICES ASSUME Alone(k)' PROVE PrivateOf(k)'
    BY DEF PrivateOf
  <1>0. TypeOK /\ Stages /\ StageOf(k) /\ Kept(k)
    BY OthersKept DEF Base, Stages
  <1>1. CASE ~Named(k)
    <2>1. pc[k] \notin AtFiles /\ ~ran[k]
      BY <1>0, <1>1 DEF StageOf, StatusOf
    <2> QED
      BY <1>0, <2>1 DEF PrivateOf, Kept, AtFiles, Compiles
  <1>2. CASE Named(k)
    <2>1. Alone(k)
      BY <1>2, NamesKept DEF Alone, Named
    <2>2. Named(j) => name[j] # name[k]
      BY <2>1 DEF Alone
    <2>3. ASSUME NEW x \in Kinds
          PROVE  /\ FileOf(k, x)' = FileOf(k, x)
                 /\ Exists(k, x)' <=> Exists(k, x)
                 /\ Content(k, x) # {} => Content(k, x)' # {}
      <3>1. /\ PathOf(k, x) \in Paths /\ PathOf(k, x)[1] = Stem(k)
            /\ name[k] = {Stem(k)}
        BY <1>0, <1>2, PathIs DEF PathOf
      <3>2. Named(j) => Stem(j) # Stem(k)
        BY <1>0, <2>2, <3>1, PathIs
      <3>3. dir'[PathOf(k, x)] = dir[PathOf(k, x)]
        BY <3>1, <3>2, DirStep
      <3>4. Exists(k, x) => disk'[FileOf(k, x)] = disk[FileOf(k, x)]
        <4>1. Exists(k, x) =>
                FileOf(k, x) \in Inodes /\ name[FileOf(k, x)[1]] = name[k]
          BY <1>0, <1>2, FileType, ReadsKin DEF Exists
        <4> QED
          BY <2>2, <4>1, DiskStep
      <3>5. /\ FileOf(k, x)' = FileOf(k, x)
            /\ Exists(k, x)' <=> Exists(k, x)
        BY <1>2, <3>3, StillThere
      <3>6. Content(k, x) # {} => Content(k, x)' # {}
        BY <3>4, <3>5 DEF Content
      <3> QED
        BY <3>5, <3>6
    <2>4. "src" \in Kinds /\ "exe" \in Kinds /\ "stdout" \in Kinds
      BY DEF Kinds
    <2> QED
      BY <1>0, <2>1, <2>3, <2>4 DEF PrivateOf, Kept
  <1> QED
    BY <1>1, <1>2

LEMMA OwnPrivate ==
  ASSUME Base, TypeOK', Stages', DataFits, [Next]_vars, NEW j \in Jobs,
         Steps(j), StatusOf(j), StatusOf(j)', PrivateOf(j)
  PROVE  PrivateOf(j)'
  <1> SUFFICES ASSUME Alone(j)' PROVE PrivateOf(j)'
    BY DEF PrivateOf
  <1>0. TypeOK /\ Stages /\ StageOf(j) /\ StageOf(j)'
    BY DEF Base, Stages
  <1>a. /\ pc \in [Jobs -> PCs] /\ child \in [Jobs -> ChildStates]
        /\ dir \in [Paths -> Inodes \cup {NoFile}]
        /\ disk \in [Inodes -> SUBSET Jobs]
        /\ fds \in [Jobs -> [FdKinds -> Inodes \cup {NoFile}]]
    BY <1>0 DEF TypeOK
  <1>b. "src" \in Kinds /\ "exe" \in Kinds /\ "stdout" \in Kinds
    BY DEF Kinds
  <1>c. Named(j) => Alone(j)
    BY NamesKept DEF Alone, Named
  <1>d. \A x, y \in Kinds : PathOf(j, x) = PathOf(j, y) => x = y
    BY DEF PathOf
  <1>e. Named(j) => \A x \in Kinds : PathOf(j, x) \in Paths
    BY <1>0, PathIs
  <1>f. ~ran'[j] \/ (Named(j)' /\ pc'[j] \notin AtFiles \ {"running"})
    BY DEF StatusOf, AtFiles
  <1>1. CASE Refuse(j) \/ EmptyCode(j) \/ IncrementId(j) \/ ReadClock(j)
    <2>1. /\ pc'[j] \in {"refused", "end", "time", "name"}
          /\ name'[j] = name[j] /\ pc[j] \in {"idle", "time"}
      BY <1>a, <1>1 DEF Refuse, EmptyCode, IncrementId, ReadClock, Goto
    <2>2. ~Named(j)'
      BY <1>0, <2>1 DEF StageOf, Unnamed, Named
    <2> QED
      BY <1>f, <2>1, <2>2 DEF PrivateOf, Compiles
  <1>2. CASE ReadId(j)
    <2>1. /\ pc'[j] = "src" /\ pc[j] = "name" /\ dir' = dir /\ ~Named(j)
          /\ \A k \in Jobs : k # j => name'[k] = name[k]
      BY <1>0, <1>a, <1>2 DEF ReadId, Goto, files, StageOf, Unnamed, Named,
                              TypeOK
    <2>2. ~ran'[j]
      BY <2>1 DEF StatusOf
    <2>3. Named(j)'
      BY <1>0, <2>1 DEF StageOf, AtFiles
    <2>4. /\ PathOf(j, "exe")' \in Paths /\ PathOf(j, "exe")'[1] = Stem(j)'
          /\ name'[j] = {Stem(j)'}
      <3>1. PICK n \in Names : name'[j] = {n}
        BY <1>0, <2>3 DEF StageOf, Named
      <3>2. Stem(j)' = n
        BY <3>1 DEF Stem
      <3> QED
        BY <1>b, <3>1, <3>2 DEF PathOf, Paths
    <2>5. dir[PathOf(j, "exe")'] = NoFile
      <3> SUFFICES ASSUME dir[PathOf(j, "exe")'] # NoFile PROVE FALSE
        OBVIOUS
      <3> DEFINE k == dir[PathOf(j, "exe")'][1]
      <3>1. k \in Jobs
        BY <1>a, <2>4 DEF Inodes
      <3>2. name[k] = {Stem(j)'}
        BY <2>4 DEF DataFits
      <3>3. k # j /\ name'[k] = name[k]
        BY <2>1, <3>1, <3>2 DEF Named
      <3> QED
        BY <2>4, <3>1, <3>2, <3>3 DEF Alone, Named
    <2>6. ~Exists(j, "exe")'
      BY <2>1, <2>5 DEF Exists, FileOf
    <2> QED
      BY <2>1, <2>2, <2>6 DEF PrivateOf, Compiles
  <1>3. CASE WriteSrc(j)
    <2>1. /\ WriteFile(j, "src", "stdin") /\ Named(j) /\ pc[j] = "src"
          /\ name' = name
      BY <1>0, <1>3 DEF WriteSrc, WriteFile, StageOf, AtFiles
    <2>2. ~ran'[j]
      <3>1. ran' = ran /\ ~ran[j]
        BY <2>1 DEF WriteFile, StatusOf, history
      <3> QED
        BY <3>1
    <2>3. CASE pc'[j] = "end"
      BY <2>2, <2>3 DEF PrivateOf, Compiles
    <2>4. CASE pc'[j] # "end"
      <3> DEFINE i == Opened(j, "src", "src")
      <3>1. /\ pc'[j] = "stdin"
            /\ dir' = [dir EXCEPT ![PathOf(j, "src")] = i]
            /\ disk' = [disk EXCEPT ![i] = {j}]
        BY <1>a, <2>1, <2>4 DEF WriteFile, Goto
      <3>2. i \in Inodes
        BY <1>0, <1>b, <2>1, OpenedIs
      <3>3. FileOf(j, "src")' = i
        BY <1>a, <1>b, <1>e, <2>1, <3>1 DEF FileOf, PathOf, Stem
      <3>4. Content(j, "src")' # {}
        BY <1>a, <3>1, <3>2, <3>3, NoFileAssumption DEF Content, Exists
      <3>5. dir'[PathOf(j, "exe")] = dir[PathOf(j, "exe")]
        BY <1>a, <1>b, <1>d, <1>e, <2>1, <3>1
      <3>6. ~Exists(j, "exe")
        BY <1>c, <2>1 DEF PrivateOf
      <3>7. ~Exists(j, "exe")'
        BY <1>b, <2>1, <3>5, <3>6, StillThere
      <3> QED
        BY <2>2, <3>1, <3>4, <3>7 DEF PrivateOf, Compiles
    <2> QED
      BY <2>3, <2>4
  <1>4. CASE WriteStdin(j)
    <2>1. /\ WriteFile(j, "stdin", "compile") /\ Named(j) /\ pc[j] = "stdin"
          /\ name' = name
      BY <1>0, <1>4 DEF WriteStdin, WriteFile, StageOf, AtFiles
    <2>2. ~ran'[j]
      <3>1. ran' = ran /\ ~ran[j]
        BY <2>1 DEF WriteFile, StatusOf, history
      <3> QED
        BY <3>1
    <2>3. CASE pc'[j] = "end"
      BY <2>2, <2>3 DEF PrivateOf, Compiles
    <2>4. CASE pc'[j] # "end"
      <3> DEFINE i == Opened(j, "stdin", "stdin")
      <3>1. /\ pc'[j] = "compile"
            /\ dir' = [dir EXCEPT ![PathOf(j, "stdin")] = i]
            /\ disk' = [disk EXCEPT ![i] = {j}]
        BY <1>a, <2>1, <2>4 DEF WriteFile, Goto
      <3>2. ASSUME NEW x \in {"src", "exe"}, Content(j, x) # {}
            PROVE  Content(j, x)' # {}
        <4>1. dir'[PathOf(j, x)] = dir[PathOf(j, x)] /\ x \in Kinds
          BY <1>a, <1>b, <1>d, <1>e, <2>1, <3>1 DEF Kinds
        <4>2. FileOf(j, x) \in Inodes
          BY <1>0, <2>1, <3>2, <4>1, FileType DEF Content, Exists
        <4>3. disk'[FileOf(j, x)] # {}
          BY <1>a, <3>1, <3>2, <4>2 DEF Content
        <4> QED
          BY <2>1, <3>2, <4>1, <4>3, StillThere
      <3>3. dir'[PathOf(j, "exe")] = dir[PathOf(j, "exe")]
        BY <1>a, <1>b, <1>d, <1>e, <2>1, <3>1 DEF Kinds
      <3>4. Exists(j, "exe")' <=> Exists(j, "exe")
        BY <1>b, <2>1, <3>3, StillThere
      <3>5. /\ Content(j, "src") # {}
            /\ Exists(j, "exe") => Content(j, "exe") # {}
        BY <1>c, <2>1 DEF PrivateOf, Compiles
      <3> QED
        BY <2>2, <3>1, <3>2, <3>4, <3>5 DEF PrivateOf, Compiles
    <2> QED
      BY <2>3, <2>4
  <1>5. CASE Compile(j) \/ CompileWait(j) \/ RunFork(j) \/ RunWait(j)
    <2>1. UNCHANGED <<dir, disk, name, fds, image, ran>>
      BY <1>5 DEF Compile, CompileWait, RunFork, RunWait, files, history
    <2>2. /\ Named(j)
          /\ \/ pc[j] = "compile" /\ pc'[j] \in {"compiling", "end"}
             \/ pc[j] = "compiling" /\ pc'[j] \in {"open", "end"}
             \/ /\ pc[j] = "fork" /\ pc'[j] \in {"running", "end"}
                /\ child'[j] \in {"exec", child[j]}
             \/ /\ pc[j] = "running" /\ pc'[j] = "end"
                /\ child[j] = "none" /\ child'[j] = "none"
      BY <1>0, <1>a, <1>5 DEF Compile, CompileWait, RunFork, RunWait, Goto,
                              Child, StageOf, AtFiles
    <2>3. pc[j] # "running" => ~ran[j] /\ child'[j] # "program"
      <3>1. pc[j] # "running" => ~ran[j]
        BY <2>2 DEF StatusOf
      <3> QED
        BY <2>1, <3>1 DEF StatusOf
    <2>4. \A x \in Kinds : /\ FileOf(j, x)' = FileOf(j, x)
                           /\ Exists(j, x)' <=> Exists(j, x)
                           /\ Content(j, x)' = Content(j, x)
      BY <2>1 DEF FileOf, Exists, Content, PathOf, Stem
    <2> QED
      BY <1>b, <1>c, <2>1, <2>2, <2>3, <2>4 DEF PrivateOf, Compiles
  <1>6. CASE OpenCompileErr(j)
    <2>1. /\ UNCHANGED <<disk, name, image, ran, pc>> /\ Named(j)
          /\ pc[j] \in {"compiling", "running", "crashed"}
          /\ child[j] = "redirect"
      BY <1>0, <1>6 DEF OpenCompileErr, StageOf, history
    <2>2. pc[j] # "running"
      BY <1>0, <2>1 DEF StageOf
    <2>3. ~ran[j] \/ pc[j] # "compiling"
      BY DEF StatusOf
    <2>4. \/ dir' = dir
          \/ dir' = [dir EXCEPT ![PathOf(j, "compile_err")] =
                       Opened(j, "compile_err", "compile_err")]
      BY <1>6 DEF OpenCompileErr
    <2>5. ASSUME NEW x \in {"src", "exe"}
          PROVE  dir'[PathOf(j, x)] = dir[PathOf(j, x)]
      BY <1>a, <1>d, <1>e, <2>1, <2>4 DEF Kinds
    <2>6. ASSUME NEW x \in {"src", "exe"}
          PROVE  /\ Exists(j, x)' <=> Exists(j, x)
                 /\ Content(j, x)' = Content(j, x)
      <3>1. FileOf(j, x)' = FileOf(j, x)
        BY <1>b, <2>1, <2>5, StillThere
      <3> QED
        BY <2>1, <3>1 DEF Exists, Content
    <2> QED
      BY <1>c, <2>1, <2>2, <2>3, <2>6 DEF PrivateOf, Compiles
  <1>7. CASE Gxx(j)
    <2>1. /\ UNCHANGED <<name, image, ran, pc>> /\ Named(j)
          /\ pc[j] \in {"compiling", "running", "crashed"}
          /\ child[j] = "gxx"
      BY <1>0, <1>7 DEF Gxx, StageOf, history
    <2>2. pc[j] # "running"
      BY <1>0, <2>1 DEF StageOf
    <2>3. CASE pc[j] = "crashed"
      BY <2>1, <2>3 DEF PrivateOf, Compiles
    <2>4. CASE pc[j] = "compiling"
      <3>1. ~ran'[j]
        BY <2>1, <2>4 DEF StatusOf
      <3>2. /\ Content(j, "src") # {}
            /\ Exists(j, "exe") => Content(j, "exe") # {}
        BY <1>c, <2>1, <2>4 DEF PrivateOf, Compiles
      <3>3. ASSUME NEW i \in Inodes, disk[i] # {} PROVE disk'[i] # {}
        <4>1. \/ disk' = [disk EXCEPT ![<<j, "exe">>] = Content(j, "src")]
              \/ disk' = [disk EXCEPT ![fds[j]["compile_err"]] =
                            @ \cup Content(j, "src")]
          BY <1>7 DEF Gxx
        <4> QED
          BY <1>a, <3>2, <3>3, <4>1
      <3>4. Content(j, "src")' # {}
        <4>1. dir'[PathOf(j, "src")] = dir[PathOf(j, "src")]
          BY <1>a, <1>b, <1>d, <1>e, <1>7, <2>1 DEF Gxx
        <4>2. FileOf(j, "src") \in Inodes /\ disk[FileOf(j, "src")] # {}
          BY <1>0, <1>b, <2>1, <3>2, FileType DEF Content, Exists
        <4> QED
          BY <1>b, <2>1, <3>2, <3>3, <4>1, <4>2, StillThere
      <3>5. CASE dir' = dir
        <4>1. dir'[PathOf(j, "exe")] = dir[PathOf(j, "exe")]
          BY <3>5
        <4>2. Exists(j, "exe") =>
                FileOf(j, "exe") \in Inodes /\ disk[FileOf(j, "exe")] # {}
          BY <1>0, <1>b, <2>1, <3>2, FileType DEF Content, Exists
        <4>3. Exists(j, "exe")' => Content(j, "exe")' # {}
          BY <1>b, <2>1, <3>2, <3>3, <4>1, <4>2, StillThere
        <4> QED
          BY <2>1, <2>4, <3>1, <3>4, <4>3 DEF PrivateOf, Compiles
      <3>6. CASE dir' # dir
        <4>1. /\ dir' = [dir EXCEPT ![PathOf(j, "exe")] = <<j, "exe">>]
              /\ disk' = [disk EXCEPT ![<<j, "exe">>] = Content(j, "src")]
          BY <1>7, <3>6 DEF Gxx
        <4>2. FileOf(j, "exe")' = <<j, "exe">>
          BY <1>a, <1>b, <1>e, <2>1, <4>1 DEF FileOf, PathOf, Stem
        <4>3. <<j, "exe">> \in Inodes
          BY <1>b DEF Inodes
        <4>4. disk'[<<j, "exe">>] = Content(j, "src")
          BY <1>a, <4>1, <4>3
        <4>5. Exists(j, "exe")' => Content(j, "exe")' # {}
          BY <3>2, <4>2, <4>4 DEF Content
        <4> QED
          BY <2>1, <2>4, <3>1, <3>4, <4>5 DEF PrivateOf, Compiles
      <3> QED
        BY <3>5, <3>6
    <2> QED
      BY <2>1, <2>2, <2>3, <2>4
  <1>8. CASE RunOpen(j)
    <2>1. /\ UNCHANGED <<disk, name, ran>> /\ Named(j) /\ pc[j] = "open"
          /\ pc'[j] \in {"fork", "end"} /\ child' = child
      BY <1>0, <1>a, <1>8 DEF RunOpen, Goto, StageOf, AtFiles, history
    <2>2. ~ran'[j]
      BY <2>1 DEF StatusOf
    <2>3. CASE pc'[j] = "end"
      BY <2>2, <2>3 DEF PrivateOf, Compiles
    <2>4. CASE pc'[j] = "fork"
      <3>1. /\ LinkFiles(j, RunFiles, [k \in RunFiles |-> RunFile(j, k)])
            /\ fds' = [fds EXCEPT ![j] =
                 [k \in FdKinds |-> IF k \in RunFiles THEN RunFile(j, k)
                                      ELSE fds[j][k]]]
        <4>1. PICK ks \in SUBSET RunFiles :
                /\ LinkFiles(j, ks, [k \in RunFiles |-> RunFile(j, k)])
                /\ IF ks = RunFiles
                     THEN fds' = [fds EXCEPT ![j] =
                            [k \in FdKinds |-> IF k \in RunFiles
                                                 THEN RunFile(j, k)
                                                 ELSE fds[j][k]]]
                     ELSE Goto(j, "end")
          BY <1>8 DEF RunOpen
        <4>2. ~Goto(j, "end")
          BY <1>a, <2>4 DEF Goto
        <4> QED
          BY <4>1, <4>2
      <3>2. "stdout" \in RunFiles /\ "exe" \notin RunFiles /\ "stdout" \in FdKinds
        BY DEF RunFiles, FdKinds
      <3>3. fds'[j]["stdout"] = RunFile(j, "stdout")
        BY <1>a, <3>1, <3>2
      <3>4. dir'[PathOf(j, "stdout")] = RunFile(j, "stdout")
        BY <1>b, <1>e, <2>1, <3>1, <3>2 DEF LinkFiles, PathOf
      <3>5. FileOf(j, "stdout")' = RunFile(j, "stdout")
        BY <2>1, <3>4 DEF FileOf, PathOf, Stem
      <3>6. dir'[PathOf(j, "exe")] = dir[PathOf(j, "exe")]
        BY <1>b, <1>e, <2>1, <3>1, <3>2 DEF LinkFiles, PathOf
      <3>7. FileOf(j, "exe")' = FileOf(j, "exe")
        BY <1>b, <2>1, <3>6, StillThere
      <3>8. Exists(j, "exe") => Content(j, "exe") # {}
        BY <1>c, <2>1 DEF PrivateOf
      <3>9. Exists(j, "exe")' => Content(j, "exe")' # {}
        BY <2>1, <3>7, <3>8 DEF Exists, Content
      <3> QED
        BY <2>2, <2>4, <3>3, <3>5, <3>9 DEF PrivateOf, Compiles
    <2> QED
      BY <2>1, <2>3, <2>4
  <1>9. CASE Exec(j)
    <2>1. /\ UNCHANGED <<dir, disk, name, fds, pc>> /\ Named(j)
          /\ child[j] = "exec"
      BY <1>0, <1>9 DEF Exec, StageOf, files
    <2>2. pc[j] \in {"running", "crashed"}
      BY <1>0, <2>1 DEF StageOf
    <2>3. \/ /\ Exists(j, "exe") /\ child'[j] = "program"
             /\ image'[j] = Content(j, "exe")
          \/ child'[j] = "none" /\ ran'[j] = ran[j]
      BY <1>0, <1>a, <1>9 DEF Exec, Child, TypeOK
    <2>4. ~ran[j]
      BY <2>1 DEF StatusOf
    <2>5. \A x \in Kinds : /\ FileOf(j, x)' = FileOf(j, x)
                           /\ Exists(j, x)' <=> Exists(j, x)
                           /\ Content(j, x)' = Content(j, x)
      BY <2>1 DEF FileOf, Exists, Content, PathOf, Stem
    <2> QED
      BY <1>b, <1>c, <2>1, <2>2, <2>3, <2>4, <2>5 DEF PrivateOf, Compiles
  <1>10. CASE Program(j)
    <2>1. /\ UNCHANGED <<dir, name, fds, pc, image>> /\ Named(j)
          /\ child[j] = "program" /\ child'[j] = "none"
      BY <1>0, <1>a, <1>10 DEF Program, Child, StageOf
    <2>2. pc[j] \in {"running", "crashed"}
      BY <1>0, <2>1 DEF StageOf
    <2>3. CASE pc[j] = "crashed"
      BY <2>1, <2>3 DEF PrivateOf, Compiles
    <2>4. CASE pc[j] = "running"
      <3>1. /\ FileOf(j, "stdout") = fds[j]["stdout"] /\ image[j] # {}
            /\ Exists(j, "exe") => Content(j, "exe") # {}
        BY <1>c, <2>1, <2>4 DEF PrivateOf
      <3>2. \A x \in Kinds : FileOf(j, x)' = FileOf(j, x)
        BY <2>1 DEF FileOf, PathOf, Stem
      <3>3. \A i \in Inodes : disk[i] \subseteq disk'[i]
        BY <1>10 DEF Program
      <3>4. fds[j]["stdout"] \in Inodes
        <4>1. "stdout" \in RunFiles /\ "stdout" \in FdKinds
          BY DEF RunFiles, FdKinds
        <4>2. fds[j]["stdout"] # NoFile
          BY <1>0, <2>1, <4>1 DEF StageOf
        <4> QED
          BY <1>a, <4>1, <4>2
      <3>5. disk'[fds[j]["stdout"]] # {}
        BY <1>10, <3>1, <3>4 DEF Program
      <3>6. Content(j, "stdout")' # {}
        BY <1>b, <3>1, <3>2, <3>4, <3>5, NoFileAssumption DEF Content, Exists
      <3>7. Exists(j, "exe")' => Content(j, "exe")' # {}
        <4>1. Exists(j, "exe") => FileOf(j, "exe") \in Inodes
          BY <1>0, <1>b, <2>1, FileType DEF Exists
        <4> QED
          BY <1>b, <3>1, <3>2, <3>3, <4>1 DEF Content, Exists
      <3> QED
        BY <1>b, <2>1, <2>4, <3>1, <3>2, <3>6, <3>7 DEF PrivateOf, Compiles
    <2> QED
      BY <2>2, <2>3, <2>4
  <1>11. CASE BuildReply(j)
    <2>1. /\ UNCHANGED <<ran, status, name, child>> /\ pc[j] = "end"
          /\ pc'[j] = "remove"
      BY <1>a, <1>11 DEF BuildReply, Goto, history
    <2>2. ASSUME ran'[j], status'[j] = 0 PROVE result'[j] # {}
      <3>1. ran[j] /\ status[j] = 0 /\ Named(j) /\ child[j] = "none"
        BY <1>0, <2>1, <2>2 DEF StatusOf, StageOf
      <3>2. Content(j, "stdout") # {}
        BY <1>c, <2>1, <3>1 DEF PrivateOf
      <3>3. result'[j] = Content(j, "stdout") \cup Content(j, "stderr")
        BY <1>0, <1>11, <3>1 DEF BuildReply, Named, TypeOK
      <3> QED
        BY <3>2, <3>3
    <2> QED
      BY <2>1, <2>2 DEF PrivateOf, Compiles
  <1>12. CASE RemoveTempFile(j)
    <2>1. /\ UNCHANGED <<ran, status, result, name>> /\ pc[j] = "remove"
          /\ pc'[j] = "done"
      BY <1>a, <1>12 DEF RemoveTempFile, Goto, history
    <2>2. ran[j] => Named(j)
      BY DEF StatusOf
    <2> QED
      BY <1>c, <2>1, <2>2 DEF PrivateOf, Compiles
  <1> QED
    BY <1>1, <1>2, <1>3, <1>4, <1>5, <1>6, <1>7, <1>8, <1>9, <1>10, <1>11,
       <1>12 DEF Steps, Accept, Start, Children

LEMMA PrivatesStep ==
  Base /\ TypeOK' /\ Stages' /\ DataFits /\ Statuses /\ Statuses' /\ Privates
    /\ [Next]_vars => Privates'
  <1> SUFFICES ASSUME Base, TypeOK', Stages', DataFits, Statuses, Statuses',
                      Privates, [Next]_vars, NEW k \in Jobs
               PROVE  PrivateOf(k)'
    BY DEF Privates
  <1>0. TypeOK /\ StatusOf(k) /\ StatusOf(k)' /\ PrivateOf(k)
    BY DEF Base, Statuses, Privates
  <1>1. ASSUME NEW j \in Jobs, Steps(j) PROVE PrivateOf(k)'
    <2>1. CASE k = j
      BY <1>0, <1>1, <2>1, OwnPrivate
    <2>2. CASE k # j
      BY <1>0, <1>1, <2>2, OthersPrivate
    <2> QED
      BY <2>1, <2>2
  <1>2. ASSUME UNCHANGED <<dir, disk, name, status, result, child, fds, image,
                           ran>>,
               pc'[k] = pc[k] \/ pc'[k] = "crashed"
        PROVE  PrivateOf(k)'
    <2>1. Alone(k)' <=> Alone(k)
      BY <1>2 DEF Alone, Named
    <2>2. \A x \in Kinds : /\ FileOf(k, x)' = FileOf(k, x)
                           /\ Exists(k, x)' <=> Exists(k, x)
                           /\ Content(k, x)' = Content(k, x)
      BY <1>2 DEF FileOf, Exists, Content, PathOf, Stem
    <2>3. "src" \in Kinds /\ "exe" \in Kinds /\ "stdout" \in Kinds
      BY DEF Kinds
    <2> QED
      BY <1>0, <1>2, <2>1, <2>2, <2>3 DEF PrivateOf, Compiles
  <1>3. ASSUME NEW s \in Servers, Crash(s) PROVE PrivateOf(k)'
    BY <1>0, <1>2, <1>3, CrashKeeps
  <1>4. CASE Tick \/ UNCHANGED vars
    BY <1>2, <1>4 DEF Tick, vars, files, history
  <1> QED
    BY <1>1, <1>3, <1>4 DEF Next, Steps

-----------------------------------------------------------------------------
(***************************************************************************)
(* The invariant, and the properties it gives.                             *)
(***************************************************************************)
Invariant ==
  Base /\ FilesHaveOwners /\ DataFits /\ Statuses /\ Privates

LEMMA InitInvariant == Init => Invariant
  <1> SUFFICES ASSUME Init PROVE Invariant
    OBVIOUS
  <1>1. Base
    BY InitBase
  <1>2. FilesHaveOwners
    BY DEF Init, FilesHaveOwners
  <1>3. DataFits
    <2>1. \A p \in Paths : dir[p] = NoFile
      BY DEF Init
    <2>2. \A i \in Inodes : disk[i] = {}
      BY DEF Init
    <2>3. \A j \in Jobs : image[j] = {} /\ result[j] = {}
                          /\ \A k \in FdKinds : fds[j][k] = NoFile
      BY DEF Init
    <2> QED
      BY <2>1, <2>2, <2>3 DEF DataFits, DataOf
  <1>4. Statuses
    BY DEF Init, Statuses, StatusOf
  <1>5. Privates
    BY DEF Init, Privates, PrivateOf, Compiles
  <1> QED
    BY <1>1, <1>2, <1>3, <1>4, <1>5 DEF Invariant

LEMMA InvariantStep == Invariant /\ [Next]_vars => Invariant'
  <1> SUFFICES ASSUME Invariant, [Next]_vars PROVE Invariant'
    OBVIOUS
  <1>0. Base /\ FilesHaveOwners /\ DataFits /\ Statuses /\ Privates
    BY DEF Invariant
  <1>1. TypeOK'
    BY <1>0, TypeStep
  <1>2. Stages' /\ Numbered' /\ DescriptorsReturned'
    BY <1>0, <1>1, StagesStep, NumberedStep, DescriptorsStep
  <1>3. FilesHaveOwners' /\ DataFits'
    BY <1>0, <1>1, OwnersStep, DataFitsStep
  <1>4. Statuses'
    BY <1>0, <1>1, <1>2, StatusesStep
  <1>5. Privates'
    BY <1>0, <1>1, <1>2, <1>4, PrivatesStep
  <1> QED
    BY <1>1, <1>2, <1>3, <1>4, <1>5 DEF Invariant, Base

THEOREM CompileInvariant == Spec => []Invariant
  BY InitInvariant, InvariantStep, PTL DEF Spec

\* The types hold; the bound of the names on the id, the number of jobs, is
\* the reason: IncrementId counts each job of a process once.
THEOREM TypeCorrect == Spec => []TypeOK
  <1>1. Invariant => TypeOK
    BY DEF Invariant, Base
  <1> QED
    BY <1>1, CompileInvariant, PTL

\* UniqFileName, with three steps and a restart that resets the id, never
\* repeats a name of its process that was given before the call began.
THEOREM NamesCorrect == Spec => []NamesOrdered
  <1>1. Invariant => NamesOrdered
    BY DEF Invariant, Base, Numbered
  <1> QED
    BY <1>1, CompileInvariant, PTL

\* Runner::Run closes what it opened, except after an open that failed, which
\* costs the process two descriptors at most.
THEOREM DescriptorsCorrect == Spec => []DescriptorsReturned
  <1>1. Invariant => DescriptorsReturned
    BY DEF Invariant, Base
  <1> QED
    BY <1>1, CompileInvariant, PTL

\* However the steps of a job fail, its status tells how far it came.
THEOREM StatusCorrect == Spec => []StatusTellsStage
  <1>1. Invariant => StatusTellsStage
    <2> SUFFICES ASSUME Invariant, NEW j \in Jobs, pc[j] = "done"
                 PROVE  /\ status[j] > 0 => ran[j] /\ killed[j]
                        /\ status[j] < 0 => ~ran[j]
      BY DEF StatusTellsStage
    <2>1. StatusOf(j) /\ status[j] \in -3 .. 1
      BY DEF Invariant, Statuses, Base, TypeOK
    <2>2. ran[j] => status[j] >= 0
      BY <2>1 DEF StatusOf
    <2>3. status[j] > 0 => ran[j] /\ killed[j]
      BY <2>1 DEF StatusOf
    <2> QED
      BY <2>1, <2>2, <2>3
  <1> QED
    BY <1>1, CompileInvariant, PTL

\* Every way through Start removes the files of the job.
THEOREM FilesCorrect == Spec => []FilesHaveOwners
  <1>1. Invariant => FilesHaveOwners
    BY DEF Invariant
  <1> QED
    BY <1>1, CompileInvariant, PTL

\* A job whose name is its own is answered from its own files.
THEOREM RepliesCorrect == Spec => []RepliesAreOwn
  <1>1. Invariant => RepliesAreOwn
    <2> SUFFICES ASSUME Invariant, NEW j \in Jobs, pc[j] = "done", Alone(j)
                 PROVE  /\ result[j] \subseteq {j}
                        /\ status[j] = 0 /\ ran[j] => result[j] = {j}
      BY DEF RepliesAreOwn
    <2>1. result[j] \subseteq Kin(j)
      BY DEF Invariant, DataFits, DataOf
    <2>2. Kin(j) \subseteq {j}
      BY DEF Kin, Alone
    <2>3. status[j] = 0 /\ ran[j] => result[j] # {}
      BY DEF Invariant, Privates, PrivateOf
    <2> QED
      BY <2>1, <2>2, <2>3
  <1> QED
    BY <1>1, CompileInvariant, PTL

-----------------------------------------------------------------------------
(***************************************************************************)
(* CompileRun implements CompileService.                                   *)
(***************************************************************************)
Phases == [j \in Jobs |-> PhaseOf(pc[j])]
Replies == [j \in Jobs |-> IF pc[j] = "done" THEN result[j] ELSE {}]

LEMMA PhasesAre ==
  \A x \in PCs : /\ PhaseOf(x) = "new" <=> x = "idle"
                 /\ PhaseOf(x) = "refused" <=> x = "refused"
                 /\ PhaseOf(x) = "lost" <=> x = "crashed"
                 /\ PhaseOf(x) = "answered" <=> x = "done"
                 /\ PhaseOf(x) = "working" <=>
                      x \notin {"idle", "refused", "crashed", "done"}
  BY DEF PhaseOf, PCs

\* A step that moves job j to place, and no reply but j's.
LEMMA Moves ==
  ASSUME TypeOK, NEW j \in Jobs, NEW place \in PCs, Goto(j, place),
         \A k \in Jobs : k # j => result'[k] = result[k]
  PROVE  /\ Phases' = [Phases EXCEPT ![j] = PhaseOf(place)]
         /\ Phases[j] = PhaseOf(pc[j])
         /\ place = "done" => Replies' = [Replies EXCEPT ![j] = result'[j]]
         /\ place # "done" /\ pc[j] # "done" => Replies' = Replies
  <1>1. pc \in [Jobs -> PCs]
    BY DEF TypeOK
  <1>2. pc'[j] = place /\ \A k \in Jobs : k # j => pc'[k] = pc[k]
    BY <1>1 DEF Goto
  <1>3. Phases' = [Phases EXCEPT ![j] = PhaseOf(place)]
    BY <1>2 DEF Phases
  <1>4. place = "done" => Replies' = [Replies EXCEPT ![j] = result'[j]]
    BY <1>2 DEF Replies
  <1>5. place # "done" /\ pc[j] # "done" => Replies' = Replies
    BY <1>2 DEF Replies
  <1> QED
    BY <1>3, <1>4, <1>5 DEF Phases

LEMMA ServiceInit == Init => Service!Init
  <1> SUFFICES ASSUME Init PROVE Service!Init
    OBVIOUS
  <1>1. PhaseOf("idle") = "new"
    BY DEF PhaseOf
  <1>2. /\ [j \in Jobs |-> PhaseOf(pc[j])] = [j \in Jobs |-> "new"]
        /\ [j \in Jobs |-> IF pc[j] = "done" THEN result[j] ELSE {}]
             = [j \in Jobs |-> {}]
    BY <1>1 DEF Init
  <1> QED
    BY <1>2 DEF Init, Service!Init

LEMMA ServiceStep ==
  Invariant /\ Invariant' /\ [Next]_vars => [Service!Next]_(Service!vars)
  <1> SUFFICES ASSUME Invariant, Invariant', [Next]_vars
               PROVE  Service!Next \/ UNCHANGED Service!vars
    OBVIOUS
  <1>0. Base /\ TypeOK /\ TypeOK' /\ Stages /\ DataFits /\ NamesOrdered'
    BY DEF Invariant, Base, Numbered
  <1>a. pc \in [Jobs -> PCs] /\ result \in [Jobs -> SUBSET Jobs]
    BY <1>0 DEF TypeOK
  <1>v. /\ UNCHANGED <<Phases, name, earlier, Replies>>
             => UNCHANGED Service!vars
    BY DEF Service!vars, Phases, Replies
  <1>1. ASSUME NEW j \in Jobs, Refuse(j) PROVE Service!Refuse(j)
    <2>1. Goto(j, "refused") /\ pc[j] = "idle" /\ "refused" \in PCs
          /\ UNCHANGED <<name, result, earlier>>
      BY <1>1 DEF Refuse, PCs, history
    <2>2. /\ Phases' = [Phases EXCEPT ![j] = "refused"] /\ Phases[j] = "new"
          /\ Replies' = Replies
      BY <1>0, <2>1, Moves DEF PhaseOf
    <2> QED
      BY <2>1, <2>2 DEF Service!Refuse, Phases, Replies
  <1>2. ASSUME NEW j \in Jobs, EmptyCode(j) PROVE Service!AcceptEmpty(j)
    <2>1. Goto(j, "end") /\ pc[j] = "idle" /\ "end" \in PCs
          /\ UNCHANGED <<name, result, earlier>>
      BY <1>2 DEF EmptyCode, PCs, history
    <2>2. /\ Phases' = [Phases EXCEPT ![j] = "working"] /\ Phases[j] = "new"
          /\ Replies' = Replies
      BY <1>0, <2>1, Moves DEF PhaseOf
    <2> QED
      BY <2>1, <2>2 DEF Service!AcceptEmpty, Phases, Replies
  <1>3. ASSUME NEW j \in Jobs, IncrementId(j) PROVE Service!Accept(j)
    <2>1. /\ Goto(j, "time") /\ pc[j] = "idle" /\ "time" \in PCs
          /\ UNCHANGED <<name, result>>
          /\ earlier' = [earlier EXCEPT ![j] =
               {k \in Jobs : ServerOf[k] = ServerOf[j] /\ name[k] # {}}]
      BY <1>3 DEF IncrementId, PCs
    <2>2. /\ Phases' = [Phases EXCEPT ![j] = "working"] /\ Phases[j] = "new"
          /\ Replies' = Replies
      BY <1>0, <2>1, Moves DEF PhaseOf
    <2> QED
      BY <2>1, <2>2 DEF Service!Accept, Phases, Replies
  <1>4. ASSUME NEW j \in Jobs, ReadId(j) PROVE Service!Baptise(j)
    <2> DEFINE n == <<DirOf[ServerOf[j]], ms[j], id[ServerOf[j]]>>
    <2>1. /\ Goto(j, "src") /\ pc[j] = "name" /\ "src" \in PCs
          /\ UNCHANGED <<result, earlier>>
          /\ name' = [name EXCEPT ![j] = {n}]
      BY <1>4 DEF ReadId, PCs, history
    <2>2. /\ Phases' = [Phases EXCEPT ![j] = "working"]
          /\ Phases[j] = "working" /\ Replies' = Replies
      BY <1>0, <2>1, Moves DEF PhaseOf
    <2>3. Phases' = Phases
      BY <2>2 DEF Phases
    <2>4. name[j] = {}
      BY <1>0, <2>1 DEF Stages, StageOf, Unnamed
    <2>5. name'[j] = {n} /\ \A k \in Jobs : k # j => name'[k] = name[k]
      BY <1>0, <2>1 DEF TypeOK
    <2>6. n \in Names
      BY <1>0, <2>5 DEF TypeOK
    <2>7. ASSUME NEW k \in earlier[j] PROVE name[k] # {n}
      <3>1. k \in Jobs
        BY <1>0 DEF TypeOK
      <3>2. name'[j] # name'[k]
        BY <1>0, <2>1, <2>5 DEF NamesOrdered, Named
      <3> QED
        BY <2>5, <3>1, <3>2
    <2> HIDE DEF n
    <2>8. \E m \in Names : /\ \A k \in earlier[j] : name[k] # {m}
                           /\ name' = [name EXCEPT ![j] = {m}]
      BY <2>1, <2>6, <2>7
    <2> QED
      BY <2>1, <2>2, <2>3, <2>4, <2>8 DEF Service!Baptise, Phases, Replies
  <1>5. ASSUME NEW j \in Jobs, RemoveTempFile(j) PROVE Service!Answer(j)
    <2>1. /\ Goto(j, "done") /\ pc[j] = "remove" /\ "done" \in PCs
          /\ UNCHANGED <<name, result, earlier>>
      BY <1>5 DEF RemoveTempFile, PCs, history
    <2>2. /\ Phases' = [Phases EXCEPT ![j] = "answered"]
          /\ Phases[j] = "working"
          /\ Replies' = [Replies EXCEPT ![j] = result[j]]
      BY <1>0, <2>1, Moves DEF PhaseOf
    <2>3. result[j] \in SUBSET Service!Peers(j)
      BY <1>0 DEF DataFits, DataOf, Kin, Named, Service!Peers
    <2> QED
      BY <2>1, <2>2, <2>3 DEF Service!Answer, Phases, Replies
  <1>6. ASSUME NEW j \in Jobs,
               \/ ReadClock(j) \/ WriteSrc(j) \/ WriteStdin(j) \/ Compile(j)
               \/ CompileWait(j) \/ RunOpen(j) \/ RunFork(j) \/ RunWait(j)
               \/ BuildReply(j)
        PROVE  UNCHANGED Service!vars
    <2>1. /\ name' = name /\ earlier' = earlier
          /\ \A k \in Jobs : k # j => result'[k] = result[k]
      BY <1>a, <1>6
         DEF ReadClock, WriteSrc, WriteStdin, WriteFile, Compile, CompileWait,
             RunOpen, RunFork, RunWait, BuildReply, history
    <2>2. \E x \in {"name", "stdin", "compile", "compiling", "open", "fork",
                    "running", "end", "remove"} : Goto(j, x)
      BY <1>6
         DEF ReadClock, WriteSrc, WriteStdin, WriteFile, Compile, CompileWait,
             RunOpen, RunFork, RunWait, BuildReply
    <2>3. PICK x \in PCs : /\ Goto(j, x) /\ x # "done"
                           /\ PhaseOf(x) = "working"
      BY <2>2 DEF PCs, PhaseOf
    <2>4. PhaseOf(pc[j]) = "working" /\ pc[j] # "done"
      BY <1>6 DEF ReadClock, WriteSrc, WriteStdin, WriteFile, Compile,
                  CompileWait, RunOpen, RunFork, RunWait, BuildReply, PhaseOf
    <2>5. /\ Phases' = [Phases EXCEPT ![j] = "working"]
          /\ Phases[j] = "working" /\ Replies' = Replies
      BY <1>0, <2>1, <2>3, <2>4, Moves
    <2>6. Phases' = Phases
      BY <2>5 DEF Phases
    <2> QED
      BY <1>v, <2>1, <2>5, <2>6
  <1>7. ASSUME NEW j \in Jobs, Children(j) PROVE UNCHANGED Service!vars
    <2>1. UNCHANGED <<pc, name, earlier, result>>
      BY <1>7 DEF Children, OpenCompileErr, Gxx, Exec, Program, history
    <2> QED
      BY <1>v, <2>1 DEF Phases, Replies
  <1>8. CASE Tick \/ UNCHANGED vars
    <2>1. UNCHANGED <<pc, name, earlier, result>>
      BY <1>8 DEF Tick, vars, history
    <2> QED
      BY <1>v, <2>1 DEF Phases, Replies
  <1>9. ASSUME NEW s \in Servers, Crash(s) PROVE Service!Lose(s)
    <2>1. /\ UNCHANGED <<name, earlier, result>>
          /\ \A j \in Jobs : pc'[j] =
               IF ServerOf[j] = s /\ pc[j] \notin Ended \cup {"idle"}
                 THEN "crashed" ELSE pc[j]
      BY <1>9 DEF Crash
    <2>2. \A j \in Jobs : PhaseOf(pc'[j]) =
            IF ServerOf[j] = s /\ PhaseOf(pc[j]) = "working"
              THEN "lost" ELSE PhaseOf(pc[j])
      <3> SUFFICES ASSUME NEW j \in Jobs
                   PROVE  PhaseOf(pc'[j]) =
                            IF ServerOf[j] = s /\ PhaseOf(pc[j]) = "working"
                              THEN "lost" ELSE PhaseOf(pc[j])
        OBVIOUS
      <3>1. pc[j] \in PCs /\ "crashed" \in PCs
        BY <1>a DEF PCs
      <3>2. PhaseOf(pc[j]) = "working" <=> pc[j] \notin Ended \cup {"idle"}
        BY <3>1, PhasesAre DEF Ended
      <3>3. PhaseOf("crashed") = "lost"
        BY DEF PhaseOf
      <3> QED
        BY <2>1, <3>2, <3>3
    <2>3. Phases' = [j \in Jobs |->
                       IF ServerOf[j] = s /\ Phases[j] = "working"
                         THEN "lost" ELSE Phases[j]]
      BY <2>2 DEF Phases
    <2>4. Replies' = Replies
      BY <2>1 DEF Replies, Ended
    <2> QED
      BY <2>1, <2>3, <2>4 DEF Service!Lose, Phases, Replies
  <1> QED
    BY <1>1, <1>2, <1>3, <1>4, <1>5, <1>6, <1>7, <1>8, <1>9
       DEF Next, Accept, Start, Service!Next

\* For any number of jobs, processes, failures and crashes, what a user sees of
\* the compile server is what CompileService allows.
THEOREM ServiceCorrect == Spec => ImplementsService
  BY CompileInvariant, ServiceInit, ServiceStep, PTL
     DEF Spec, ImplementsService, Service!Spec

-----------------------------------------------------------------------------
(***************************************************************************)
(* What a deployment makes of it: a directory for each process.            *)
(***************************************************************************)
\* No other job of its process was in UniqFileName while j was, or was there
\* and got no name: of any two named jobs one had its name when the other came.
NamedApart(j) ==
  \A k \in Jobs \ {j} : ServerOf[k] = ServerOf[j] /\ Named(k) =>
    k \in earlier[j] \/ j \in earlier[k]

\* With a directory for each process, a job that was alone while it got its
\* name is answered from its own files, whatever ran before, crashed before or
\* runs beside it.
SeparateReplies ==
  (\A s, t \in Servers : DirOf[s] = DirOf[t] => s = t) =>
    \A j \in Jobs : pc[j] = "done" /\ NamedApart(j) =>
      /\ result[j] \subseteq {j}
      /\ status[j] = 0 /\ ran[j] => result[j] = {j}

\* A name lies in the directory of its process.
InItsDir ==
  \A j \in Jobs, n \in Names : name[j] = {n} => n[1] = DirOf[ServerOf[j]]

LEMMA InItsDirStep ==
  Invariant /\ InItsDir /\ [Next]_vars => InItsDir'
  <1> SUFFICES ASSUME Invariant, InItsDir, [Next]_vars,
                      NEW j \in Jobs, NEW n \in Names, name'[j] = {n}
               PROVE  n[1] = DirOf[ServerOf[j]]
    BY DEF InItsDir
  <1>0. Base /\ TypeOK
    BY DEF Invariant, Base
  <1>1. CASE Named(j)
    <2>1. name'[j] = name[j]
      BY <1>0, <1>1, NamesKept
    <2> QED
      BY <2>1 DEF InItsDir
  <1>2. CASE ~Named(j)
    <2>1. ASSUME NEW k \in Jobs, Steps(k), k # j PROVE FALSE
      BY <1>0, <1>2, <2>1, OthersKept DEF Kept, Named
    <2>2. ASSUME Steps(j) PROVE n[1] = DirOf[ServerOf[j]]
      <3>1. CASE ReadId(j)
        BY <1>0, <3>1 DEF ReadId, TypeOK
      <3>2. CASE ~ReadId(j)
        BY <1>2, <2>2, <3>2
           DEF Steps, Accept, Start, Children, Refuse, EmptyCode, IncrementId,
               ReadClock, WriteSrc, WriteStdin, WriteFile, Compile, CompileWait,
               RunOpen, RunFork, RunWait, BuildReply, RemoveTempFile,
               OpenCompileErr, Gxx, Exec, Program, Named
      <3> QED
        BY <3>1, <3>2
    <2>3. ASSUME NEW s \in Servers, Crash(s) PROVE FALSE
      BY <1>2, <2>3 DEF Crash, Named
    <2>4. ~(Tick \/ UNCHANGED vars)
      BY <1>2 DEF Tick, vars, Named
    <2> QED
      BY <2>1, <2>2, <2>3, <2>4 DEF Next, Steps
  <1> QED
    BY <1>1, <1>2

LEMMA ApartIsAlone ==
  ASSUME Invariant, InItsDir, NEW j \in Jobs, Named(j), NamedApart(j),
         \A s, t \in Servers : DirOf[s] = DirOf[t] => s = t
  PROVE  Alone(j)
  <1> SUFFICES ASSUME NEW k \in Jobs \ {j}, Named(k) PROVE name[k] # name[j]
    BY DEF Alone
  <1>1. CASE ServerOf[k] = ServerOf[j]
    <2>1. k \in earlier[j] \/ j \in earlier[k]
      BY <1>1 DEF NamedApart
    <2>2. NamesOrdered
      BY DEF Invariant, Base, Numbered
    <2> QED
      BY <2>1, <2>2 DEF NamesOrdered
  <1>2. CASE ServerOf[k] # ServerOf[j]
    <2>1. PICK n \in Names : name[j] = {n}
      BY DEF Invariant, Base, Stages, StageOf, Named
    <2>2. PICK m \in Names : name[k] = {m}
      BY DEF Invariant, Base, Stages, StageOf, Named
    <2>3. n[1] = DirOf[ServerOf[j]] /\ m[1] = DirOf[ServerOf[k]]
      BY <2>1, <2>2 DEF InItsDir
    <2>4. n[1] # m[1]
      BY <1>2, <2>3, PlacementAssumption
    <2> QED
      BY <2>1, <2>2, <2>4
  <1> QED
    BY <1>1, <1>2

\* Processes that do not share a directory do not share answers either; within
\* a process only two calls of UniqFileName at once can.
THEOREM SeparateCorrect == Spec => []SeparateReplies
  <1>1. Init => InItsDir
    BY DEF Init, InItsDir
  <1>2. Invariant /\ InItsDir /\ [Next]_vars => InItsDir'
    BY InItsDirStep
  <1>3. Invariant /\ InItsDir /\ RepliesAreOwn => SeparateReplies
    <2> SUFFICES ASSUME Invariant, InItsDir, RepliesAreOwn,
                        \A s, t \in Servers : DirOf[s] = DirOf[t] => s = t,
                        NEW j \in Jobs, pc[j] = "done", NamedApart(j)
                 PROVE  /\ result[j] \subseteq {j}
                        /\ status[j] = 0 /\ ran[j] => result[j] = {j}
      BY DEF SeparateReplies
    <2>1. CASE Named(j)
      BY <2>1, ApartIsAlone DEF RepliesAreOwn
    <2>2. CASE ~Named(j)
      <3>1. Alone(j)
        BY <2>2 DEF Alone, Named
      <3> QED
        BY <3>1 DEF RepliesAreOwn
    <2> QED
      BY <2>1, <2>2
  <1> QED
    BY <1>1, <1>2, <1>3, CompileInvariant, RepliesCorrect, PTL DEF Spec

=============================================================================
