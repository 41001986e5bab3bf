-------------------------- MODULE EvidenceChainProofs --------------------------
(* For any program that makes its protected directories anew, any campaign and *)
(* any number of processes: a protected directory holds the files of one run,  *)
(* and keeps them. For the fifteen scripts, in any campaign: a claim has its   *)
(* tables, the immutable experiments choose without sight of the test data and *)
(* rest on what they pinned.                                                   *)
EXTENDS QualificationScripts, TLAPS

\* Of what a run knows nothing matters here.
IsRun(r) ==
  /\ {"at", "script", "run", "from", "opened"} \subseteq DOMAIN r
  /\ r.at \in Nat /\ r.script \in Scripts

JobsOK ==
  /\ job = [j \in Jobs |-> job[j]]
  /\ \A j \in Jobs : job[j] = Idle \/ IsRun(job[j])

\* The directory of a file belongs to the run that wrote the file ...
FilesAreOwned ==
  \A p \in DOMAIN files : p[1] \in Protected =>
    p[1] \in DOMAIN dirs /\ files[p].by = dirs[p[1]]

\* ... since a run that has passed the making of a protected directory made it.
Made(j, m) ==
  Steps(j)[m].op = "newdir" /\ Steps(j)[m].dir \in Protected =>
    Steps(j)[m].dir \in DOMAIN dirs /\ dirs[Steps(j)[m].dir] = job[j].run

MakersOwn ==
  \A j \in Jobs : Running(j) => \A m \in DOMAIN Steps(j) : m < job[j].at => Made(j, m)

IInv == JobsOK /\ FilesAreOwned /\ MakersOwn

\* No directory disappears or changes hands.
DirsStay == \A d \in DOMAIN dirs : d \in DOMAIN dirs' /\ dirs'[d] = dirs[d]

-----------------------------------------------------------------------------

\* An ended run has passed nothing: the jobs of the others are as they were.
LEMMA EndKeeps ==
  ASSUME NEW j \in Jobs, JobsOK, MakersOwn, DirsStay, Ends(j)
  PROVE  JobsOK' /\ MakersOwn'
<1>1. job'[j] = Idle /\ \A k \in Jobs : k # j => job'[k] = job[k]
  BY DEF Ends, JobsOK
<1>2. JobsOK'
  BY <1>1 DEF Ends, JobsOK, IsRun
<1>3. ASSUME NEW k \in Jobs, Running(k)', NEW m \in DOMAIN Steps(k)', m < job'[k].at
      PROVE  Made(k, m)'
  <2>1. k # j
    BY <1>1, <1>3 DEF Running, Idle
  <2>2. job'[k] = job[k]
    BY <1>1, <2>1
  <2>3. Running(k) /\ m \in DOMAIN Steps(k) /\ m < job[k].at
    BY <1>3, <2>2 DEF Running, Steps
  <2>4. Made(k, m)
    BY <2>3 DEF MakersOwn
  <2> QED
    BY <2>2, <2>4 DEF Made, Steps, DirsStay
<1> QED
  BY <1>2, <1>3 DEF MakersOwn

\* A run that goes on owns what it has passed if it owns what it passes now.
LEMMA RunKeeps ==
  ASSUME NEW j \in Jobs, NEW n \in Nat, NEW r,
         JobsOK, MakersOwn, DirsStay, IsRun(job[j]), Running(j),
         job' = [job EXCEPT ![j] = r], IsRun(r),
         r.at = job[j].at + n + 1, r.script = job[j].script, r.run = job[j].run,
         DOMAIN Steps(j) \subseteq Nat,
         \A m \in DOMAIN Steps(j) : job[j].at <= m /\ m <= job[j].at + n =>
           (Steps(j)[m].op = "newdir" /\ Steps(j)[m].dir \in Protected =>
              Steps(j)[m].dir \in DOMAIN dirs' /\ dirs'[Steps(j)[m].dir] = job[j].run)
  PROVE  JobsOK' /\ MakersOwn'
<1>1. job'[j] = r /\ \A k \in Jobs : k # j => job'[k] = job[k]
  BY DEF JobsOK
<1>2. JobsOK'
  BY <1>1 DEF JobsOK, IsRun
<1>3. ASSUME NEW k \in Jobs, Running(k)', NEW m \in DOMAIN Steps(k)', m < job'[k].at
      PROVE  Made(k, m)'
  <2>1. CASE k # j
    <3>1. job'[k] = job[k]
      BY <1>1, <2>1
    <3>2. Running(k) /\ m \in DOMAIN Steps(k) /\ m < job[k].at
      BY <1>3, <3>1 DEF Running, Steps
    <3>3. Made(k, m)
      BY <3>2 DEF MakersOwn
    <3> QED
      BY <3>1, <3>3 DEF Made, Steps, DirsStay
  <2>2. CASE k = j
    <3>1. m \in DOMAIN Steps(j) /\ m \in Nat /\ job[j].at \in Nat
      BY <1>1, <1>3, <2>2 DEF Steps, IsRun
    <3>2. CASE m < job[j].at
      <4>1. Made(j, m)
        BY <3>1, <3>2 DEF MakersOwn
      <4> QED
        BY <1>1, <2>2, <4>1 DEF Made, Steps, DirsStay
    <3>3. CASE job[j].at <= m
      <4>1. m <= job[j].at + n
        BY <1>1, <1>3, <2>2, <3>1
      <4> QED
        BY <1>1, <2>2, <3>1, <3>3, <4>1 DEF Made, Steps
    <3> QED
      BY <3>1, <3>2, <3>3
  <2> QED
    BY <2>1, <2>2
<1> QED
  BY <1>2, <1>3 DEF MakersOwn

LEMMA AdvanceKeeps ==
  ASSUME NEW j \in Jobs, NEW n \in Nat, NEW marks,
         JobsOK, MakersOwn, DirsStay, IsRun(job[j]), Running(j), GoesOver(j, n, marks),
         DOMAIN Steps(j) \subseteq Nat,
         \A m \in DOMAIN Steps(j) : job[j].at <= m /\ m <= job[j].at + n =>
           (Steps(j)[m].op = "newdir" /\ Steps(j)[m].dir \in Protected =>
              Steps(j)[m].dir \in DOMAIN dirs' /\ dirs'[Steps(j)[m].dir] = job[j].run)
  PROVE  JobsOK' /\ MakersOwn'
<1> DEFINE r == [job[j] EXCEPT !.at = job[j].at + n + 1, !.from = job[j].from \cup marks]
<1>1. job' = [job EXCEPT ![j] = r]
  BY DEF GoesOver, JobsOK
<1>2. r.at = job[j].at + n + 1 /\ r.script = job[j].script /\ r.run = job[j].run
  BY DEF IsRun
<1>3. IsRun(r)
  BY <1>2 DEF IsRun
<1> HIDE DEF r
<1> QED
  BY <1>1, <1>2, <1>3, RunKeeps

-----------------------------------------------------------------------------

LEMMA InitOwns == ChainInit => IInv
<1> SUFFICES ASSUME ChainInit PROVE IInv
  OBVIOUS
<1>1. JobsOK
  BY DEF ChainInit, JobsOK
<1>2. FilesAreOwned
  BY DEF ChainInit, FilesAreOwned
<1>3. MakersOwn
  BY DEF ChainInit, MakersOwn, Running, Idle
<1> QED
  BY <1>1, <1>2, <1>3 DEF IInv

\* What the assumption says of a run's own steps.
LEMMA StepsOK ==
  ASSUME NEW j \in Jobs, JobsOK, Running(j)
  PROVE  /\ IsRun(job[j])
         /\ DOMAIN Steps(j) \subseteq Nat
         /\ \A m \in DOMAIN Steps(j) : m > 0
<1>1. IsRun(job[j])
  BY DEF JobsOK, Running, Idle
<1> QED
  BY <1>1, ProgramAssumption DEF IsRun, Steps

LEMMA NowIsStep ==
  ASSUME NEW j \in Jobs, NEW step \in Now(j)
  PROVE  step = Step(j) /\ Running(j) /\ job[j].at \in DOMAIN Steps(j)
  BY DEF Now

\* A step that goes on with the next one and makes no directory anew.
LEMMA GoKeeps ==
  ASSUME NEW j \in Jobs, NEW marks, JobsOK, MakersOwn, DirsStay, Running(j),
         Step(j).op # "newdir", Goes(j, marks)
  PROVE  JobsOK' /\ MakersOwn'
<1>1. IsRun(job[j]) /\ DOMAIN Steps(j) \subseteq Nat
  BY StepsOK
<1>2. ASSUME NEW m \in DOMAIN Steps(j), job[j].at <= m, m <= job[j].at + 0
      PROVE  Steps(j)[m].op # "newdir"
  <2>1. m = job[j].at
    BY <1>1, <1>2 DEF IsRun
  <2> QED
    BY <2>1 DEF Step
<1> QED
  BY <1>1, <1>2, AdvanceKeeps DEF Goes

\* A step that may leave others out.
LEMMA SkipKeeps ==
  ASSUME NEW j \in Jobs, NEW marks, JobsOK, MakersOwn, DirsStay, Running(j),
         job[j].at \in DOMAIN Steps(j), Step(j).op \in {"unless", "perhaps"},
         GoesOver(j, Step(j).over, marks)
  PROVE  JobsOK' /\ MakersOwn'
<1>1. IsRun(job[j]) /\ DOMAIN Steps(j) \subseteq Nat
  BY SMTT(60), StepsOK
<1>2. /\ Step(j).over \in Nat
      /\ \A m \in DOMAIN Steps(j) :
           m > job[j].at /\ m <= job[j].at + Step(j).over => Lasting(Steps(j)[m])
  BY <1>1, ProgramAssumption DEF IsRun, Steps, Step
<1>3. ASSUME NEW m \in DOMAIN Steps(j), job[j].at <= m, m <= job[j].at + Step(j).over
      PROVE  Steps(j)[m].op # "newdir"
  <2>1. CASE m = job[j].at
    BY <2>1 DEF Step
  <2>2. CASE m # job[j].at
    BY <1>1, <1>2, <1>3, <2>2 DEF Lasting, IsRun
  <2> QED
    BY <2>1, <2>2
<1> QED
  BY <1>1, <1>2, <1>3, AdvanceKeeps

\* A file is written where its run has made the directory, if it is protected.
LEMMA WritesOwn ==
  ASSUME NEW j \in Jobs, JobsOK, MakersOwn, Running(j), job[j].at \in DOMAIN Steps(j),
         Step(j).op \in {"writes", "captures"}, Step(j).dir \in Protected
  PROVE  Step(j).dir \in DOMAIN dirs /\ dirs[Step(j).dir] = job[j].run
<1>1. IsRun(job[j]) /\ DOMAIN Steps(j) \subseteq Nat
  BY StepsOK
<1>2. PICK m \in DOMAIN Steps(j) : m < job[j].at /\ Steps(j)[m] = NewDir(Step(j).dir)
  BY <1>1, ProgramAssumption DEF IsRun, Steps, Step
<1>3. Made(j, m)
  BY <1>2 DEF MakersOwn
<1>4. Steps(j)[m].op = "newdir" /\ Steps(j)[m].dir = Step(j).dir
  BY <1>2 DEF NewDir
<1> QED
  BY <1>3, <1>4 DEF Made

\* Files that a run leaves in a directory of its own, or in one that is not
\* protected, change nothing about the protected ones.
LEMMA WritingKeeps ==
  ASSUME NEW j \in Jobs, NEW d, NEW names, NEW entry,
         FilesAreOwned, UNCHANGED dirs,
         d \in Protected => d \in DOMAIN dirs /\ dirs[d] = job[j].run,
         \A p \in names : p[1] = d, entry.by = job[j].run,
         files' = Extended(files, names, entry)
  PROVE  /\ FilesAreOwned'
         /\ \A p \in DOMAIN files : p[1] \in Protected =>
              p \in DOMAIN files' /\ files'[p].by = files[p].by
<1>1. /\ DOMAIN files' = DOMAIN files \cup names
      /\ \A p \in names : files'[p] = entry
      /\ \A p \in DOMAIN files \ names : files'[p] = files[p]
  BY DEF Extended
<1>2. FilesAreOwned'
  BY <1>1 DEF FilesAreOwned
<1>3. ASSUME NEW p \in DOMAIN files, p[1] \in Protected
      PROVE  p \in DOMAIN files' /\ files'[p].by = files[p].by
  <2>1. CASE p \in names
    BY <1>1, <1>3, <2>1 DEF FilesAreOwned
  <2>2. CASE p \notin names
    BY <1>1, <2>2
  <2> QED
    BY <2>1, <2>2
<1> QED
  BY <1>2, <1>3

-----------------------------------------------------------------------------
(* The steps, those first that change no directory and no file.                *)

\* What a protected directory holds stays.
Keeps ==
  \A p \in DOMAIN files : p[1] \in Protected =>
    p \in DOMAIN files' /\ files'[p].by = files[p].by

LEMMA StartKeeps ==
  ASSUME NEW j \in Jobs, NEW s \in Scripts, IInv, Start(j, s)
  PROVE  IInv' /\ Keeps
<1> DEFINE r == [at |-> 1, script |-> s, run |-> runs + 1, from |-> {}, opened |-> {}]
<1>1. JobsOK /\ FilesAreOwned /\ MakersOwn /\ DirsStay /\ UNCHANGED <<dirs, files>>
  BY DEF IInv, Start, DirsStay
<1>2. job' = [job EXCEPT ![j] = r]
  BY DEF Start
<1>3. IsRun(r) /\ r.at = 1 /\ r.script = s
  BY DEF IsRun
<1> HIDE DEF r
<1>4. job'[j] = r /\ \A k \in Jobs : k # j => job'[k] = job[k]
  BY <1>1, <1>2 DEF JobsOK
<1>5. JobsOK'
  BY <1>1, <1>2, <1>3, <1>4 DEF JobsOK, IsRun
<1>6. ASSUME NEW k \in Jobs, Running(k)', NEW m \in DOMAIN Steps(k)', m < job'[k].at
      PROVE  Made(k, m)'
  <2>1. k # j
    <3>1. SUFFICES ASSUME k = j PROVE FALSE
      OBVIOUS
    <3>2. m \in DOMAIN Program[s] /\ m < 1
      BY <1>3, <1>4, <1>6, <3>1 DEF Steps
    <3>3. m \in Nat \ {0}
      BY <3>2, ProgramAssumption
    <3> QED
      BY <3>2, <3>3
  <2>2. job'[k] = job[k]
    BY <1>4, <2>1
  <2>3. Running(k) /\ m \in DOMAIN Steps(k) /\ m < job[k].at
    BY <1>6, <2>2 DEF Running, Steps
  <2>4. Made(k, m)
    BY <1>1, <2>3 DEF MakersOwn
  <2> QED
    BY <1>1, <2>2, <2>4 DEF Made, Steps
<1>7. MakersOwn'
  BY <1>6 DEF MakersOwn
<1>8. FilesAreOwned' /\ Keeps
  BY <1>1 DEF FilesAreOwned, Keeps
<1> QED
  BY <1>5, <1>7, <1>8 DEF IInv

\* Runs that end, or go on, and leave directories and files alone.
LEMMA StillKeeps ==
  ASSUME NEW j \in Jobs, NEW marks, IInv, UNCHANGED <<dirs, files>>, Running(j),
         \/ Ends(j)
         \/ Step(j).op # "newdir" /\ Goes(j, marks)
         \/ /\ job[j].at \in DOMAIN Steps(j)
            /\ Step(j).op \in {"unless", "perhaps"} /\ GoesOver(j, Step(j).over, marks)
  PROVE  IInv' /\ Keeps
<1>1. JobsOK /\ MakersOwn /\ FilesAreOwned
  BY DEF IInv
<1>2. DirsStay /\ FilesAreOwned' /\ Keeps
  BY <1>1 DEF DirsStay, FilesAreOwned, Keeps
<1>3. CASE Ends(j)
  BY <1>1, <1>2, <1>3, EndKeeps DEF IInv
<1>4. CASE Step(j).op # "newdir" /\ Goes(j, marks)
  BY <1>1, <1>2, <1>4, GoKeeps DEF IInv
<1>5. CASE /\ job[j].at \in DOMAIN Steps(j)
           /\ Step(j).op \in {"unless", "perhaps"} /\ GoesOver(j, Step(j).over, marks)
  BY <1>1, <1>2, <1>5, SkipKeeps DEF IInv
<1> QED
  BY <1>3, <1>4, <1>5

\* The steps that StillKeeps is about.
LEMMA QuietStepsKeep ==
  ASSUME NEW j \in Jobs, NEW step \in Now(j), IInv,
         \/ CheckFresh(j, step) \/ Check(j, step) \/ Use(j, step) \/ Make(j, step)
         \/ RunTools(j, step) \/ Measure(j, step) \/ Read(j, step) \/ Expect(j, step)
         \/ Verify(j, step) \/ SkipIfThere(j, step) \/ SkipPerhaps(j, step)
         \/ Choose(j, step)
  PROVE  IInv' /\ Keeps
<1>0. step = Step(j) /\ Running(j) /\ job[j].at \in DOMAIN Steps(j)
  BY NowIsStep
<1>1. CASE CheckFresh(j, step)
  BY <1>0, <1>1, StillKeeps DEF CheckFresh
<1>2. CASE Check(j, step)
  BY <1>0, <1>2, StillKeeps DEF Check
<1>3. CASE Use(j, step)
  BY <1>0, <1>3, StillKeeps DEF Use
<1>4. CASE Make(j, step)
  BY <1>0, <1>4, StillKeeps DEF Make
<1>5. CASE RunTools(j, step)
  BY <1>0, <1>5, StillKeeps DEF RunTools
<1>6. CASE Measure(j, step)
  BY <1>0, <1>6, StillKeeps DEF Measure
<1>7. CASE Read(j, step)
  BY <1>0, <1>7, StillKeeps DEF Read
<1>8. CASE Expect(j, step)
  BY <1>0, <1>8, StillKeeps DEF Expect
<1>9. CASE Verify(j, step)
  BY <1>0, <1>9, StillKeeps DEF Verify
<1>10. CASE SkipIfThere(j, step)
  BY <1>0, <1>10, StillKeeps DEF SkipIfThere
<1>11. CASE SkipPerhaps(j, step)
  BY <1>0, <1>11, StillKeeps DEF SkipPerhaps
<1>12. CASE Choose(j, step)
  BY <1>0, <1>12, StillKeeps DEF Choose
<1> QED
  BY <1>1, <1>2, <1>3, <1>4, <1>5, <1>6, <1>7, <1>8, <1>9, <1>10, <1>11, <1>12

LEMMA OpenKeeps ==
  ASSUME NEW j \in Jobs, NEW step \in Now(j), IInv, Open(j, step)
  PROVE  IInv' /\ Keeps
<1>0. step = Step(j) /\ Running(j) /\ job[j].at \in DOMAIN Steps(j)
  BY NowIsStep
<1> DEFINE r == [job[j] EXCEPT !.at = job[j].at + 1, !.opened = job[j].opened \cup {Step(j).data}]
<1>1. JobsOK /\ MakersOwn /\ FilesAreOwned /\ DirsStay /\ UNCHANGED <<dirs, files>> /\ Running(j)
  BY <1>0 DEF IInv, Open, DirsStay
<1>2. IsRun(job[j]) /\ DOMAIN Steps(j) \subseteq Nat
  BY <1>1, StepsOK
<1>3. job' = [job EXCEPT ![j] = r]
  BY <1>0, <1>1 DEF Open, JobsOK
<1>4. r.at = job[j].at + 0 + 1 /\ r.script = job[j].script /\ r.run = job[j].run
  BY <1>2 DEF IsRun
<1>5. IsRun(r)
  BY <1>2, <1>4 DEF IsRun
<1>6. ASSUME NEW m \in DOMAIN Steps(j), job[j].at <= m, m <= job[j].at + 0
      PROVE  Steps(j)[m].op # "newdir"
  <2>1. m = job[j].at
    BY <1>2, <1>6 DEF IsRun
  <2> QED
    BY <1>0, <2>1 DEF Step, Open
<1> HIDE DEF r
<1>7. JobsOK' /\ MakersOwn'
  BY <1>1, <1>2, <1>3, <1>4, <1>5, <1>6, RunKeeps
<1> QED
  BY <1>1, <1>7 DEF IInv, FilesAreOwned, Keeps

-----------------------------------------------------------------------------
(* Steps that make directories and write files.                                *)

LEMMA DirsKeep ==
  ASSUME NEW j \in Jobs, NEW step \in Now(j), IInv, MakeDir(j, step) \/ MakeNewDir(j, step)
  PROVE  IInv' /\ Keeps
<1>0. step = Step(j) /\ Running(j) /\ job[j].at \in DOMAIN Steps(j)
  BY NowIsStep
<1>1. JobsOK /\ MakersOwn /\ FilesAreOwned /\ UNCHANGED files /\ Running(j)
  BY <1>0 DEF IInv, MakeDir, MakeNewDir
<1>2. IsRun(job[j]) /\ DOMAIN Steps(j) \subseteq Nat
  BY <1>1, StepsOK
<1>3. DirsStay
  BY <1>0 DEF DirsStay, MakeDir, MakeNewDir, Extended
<1>4. FilesAreOwned' /\ Keeps
  BY <1>1, <1>3 DEF FilesAreOwned, Keeps, DirsStay
<1>5. CASE MakeDir(j, step)
  BY <1>0, <1>1, <1>3, <1>4, <1>5, GoKeeps DEF MakeDir, IInv
<1>6. CASE MakeNewDir(j, step)
  <2>1. CASE Step(j).dir \in DOMAIN dirs
    BY <1>0, <1>1, <1>3, <1>4, <1>6, <2>1, EndKeeps DEF MakeNewDir, IInv
  <2>2. CASE Step(j).dir \notin DOMAIN dirs
    <3>1. /\ Goes(j, {})
          /\ Step(j).dir \in DOMAIN dirs' /\ dirs'[Step(j).dir] = job[j].run
      BY <1>0, <1>6, <2>2 DEF MakeNewDir, Extended
    <3>2. ASSUME NEW m \in DOMAIN Steps(j), job[j].at <= m, m <= job[j].at + 0
          PROVE  Steps(j)[m].dir \in DOMAIN dirs' /\ dirs'[Steps(j)[m].dir] = job[j].run
      <4>1. m = job[j].at
        BY <1>2, <3>2 DEF IsRun
      <4> QED
        BY <1>0, <3>1, <4>1 DEF Step
    <3> QED
      BY <1>1, <1>2, <1>3, <1>4, <3>1, <3>2, AdvanceKeeps DEF Goes, IInv
  <2> QED
    BY <2>1, <2>2
<1> QED
  BY <1>5, <1>6

LEMMA WritersKeep ==
  ASSUME NEW j \in Jobs, NEW step \in Now(j), IInv, Write(j, step) \/ KillWriting(j, step) \/ Capture(j, step)
  PROVE  IInv' /\ Keeps
<1>0. step = Step(j) /\ Running(j) /\ job[j].at \in DOMAIN Steps(j)
  BY NowIsStep
<1>1. /\ JobsOK /\ MakersOwn /\ FilesAreOwned /\ DirsStay /\ UNCHANGED dirs /\ Running(j)
      /\ job[j].at \in DOMAIN Steps(j) /\ Step(j).op \in {"writes", "captures"}
  BY <1>0 DEF IInv, Write, KillWriting, Capture, DirsStay
<1>2. Step(j).dir \in Protected => Step(j).dir \in DOMAIN dirs /\ dirs[Step(j).dir] = job[j].run
  BY <1>1, WritesOwn
<1>3. \A marks, says : Entry(j, marks, says).by = job[j].run
  BY DEF Entry
<1>4. \A n : \A p \in First(step, n) : p[1] = Step(j).dir
  BY SMTT(60), <1>0 DEF First
<1>5. ASSUME Capture(j, step) PROVE \A p \in {Step(j).path} : p[1] = Step(j).dir
  <2>1. job[j].script \in Scripts
    BY <1>1, StepsOK DEF IsRun
  <2>2. Step(j).op = "captures"
    BY <1>0, <1>5 DEF Capture
  <2>3. \A r \in Scripts : \A i \in DOMAIN Program[r] :
          Program[r][i].op = "captures" => Program[r][i].path[1] = Program[r][i].dir
    BY ProgramAssumption
  <2>4. Step(j).path[1] = Step(j).dir
    BY <1>1, <2>1, <2>2, <2>3 DEF Step, Steps
  <2> QED
    BY <2>4
<1>6. PICK names, marks, says :
         /\ files' = Extended(files, names, Entry(j, marks, says))
         /\ \A p \in names : p[1] = Step(j).dir
  <2>1. CASE Write(j, step)
    BY <1>0, <1>4, <2>1 DEF Write
  <2>2. CASE KillWriting(j, step)
    BY <1>0, <1>4, <2>2 DEF KillWriting
  <2>3. CASE Capture(j, step)
    BY <1>0, <1>5, <2>3 DEF Capture
  <2> QED
    BY <2>1, <2>2, <2>3
<1>7. FilesAreOwned' /\ Keeps
  BY <1>1, <1>2, <1>3, <1>6, WritingKeeps DEF Keeps
<1>8. Ends(j) \/ Goes(j, {})
  BY <1>0 DEF Write, KillWriting, Capture
<1>9. JobsOK' /\ MakersOwn'
  BY <1>1, <1>8, EndKeeps, GoKeeps
<1> QED
  BY <1>7, <1>9 DEF IInv

LEMMA StutterKeeps ==
  ASSUME IInv, UNCHANGED <<dirs, files, job>>
  PROVE  IInv' /\ Keeps
<1>1. JobsOK' /\ FilesAreOwned' /\ Keeps
  BY DEF IInv, JobsOK, FilesAreOwned, Keeps
<1>2. MakersOwn'
  BY DEF IInv, MakersOwn, Running, Made, Steps
<1> QED
  BY <1>1, <1>2 DEF IInv

LEMMA StepKeeps ==
  ASSUME IInv, [ChainNext]_chainVars
  PROVE  IInv' /\ Keeps
<1>1. ASSUME NEW j \in Jobs, NEW s \in Scripts, Start(j, s) PROVE IInv' /\ Keeps
  BY <1>1, StartKeeps
<1>2. ASSUME NEW j \in Jobs, Finish(j) \/ Kill(j) PROVE IInv' /\ Keeps
  BY <1>2, StillKeeps DEF Finish, Kill
<1>3. ASSUME NEW j \in Jobs, NEW step \in Now(j), Take(j, step) PROVE IInv' /\ Keeps
  BY <1>3, QuietStepsKeep, OpenKeeps, DirsKeep, WritersKeep DEF Take
<1>4. ASSUME NEW i, NEW v, Change(i, v) PROVE IInv' /\ Keeps
  BY <1>4, StutterKeeps DEF Change
<1>5. CASE UNCHANGED chainVars
  BY <1>5, StutterKeeps DEF chainVars
<1> QED
  BY <1>1, <1>2, <1>3, <1>4, <1>5 DEF ChainNext

\* The inductive invariant: files belong to the maker of their directory, and
\* every run has made what it has passed the making of.
THEOREM Owned == ChainSpec => []IInv
<1>1. IInv /\ [ChainNext]_chainVars => IInv'
  BY StepKeeps
<1> QED
  BY <1>1, InitOwns, PTL DEF ChainSpec

\* A result directory that its script refuses to overwrite holds the files of
\* one run: mkdir refuses the later of two that both found it absent.
THEOREM OneRun == ChainSpec => []OneRunPerDirectory
<1>1. IInv => OneRunPerDirectory
  BY DEF IInv, FilesAreOwned, OneRunPerDirectory
<1> QED
  BY <1>1, Owned, PTL

\* No later run, and no kill, takes or replaces what such a directory holds.
THEOREM Kept == ChainSpec => EvidenceIsKept
<1>1. IInv /\ [ChainNext]_chainVars =>
        [\A p \in DOMAIN files : p[1] \in Protected =>
           p \in DOMAIN files' /\ files'[p].by = files[p].by]_chainVars
  BY StepKeeps DEF Keeps
<1> QED
  BY <1>1, Owned, PTL DEF ChainSpec, EvidenceIsKept

-----------------------------------------------------------------------------
(* What a run learns from a step, and what it leaves.                          *)

Reading == {"reads", "expects", "verifies", "unless"}
Laying == {"writes", "captures"}

Learns(j) ==
  CASE Step(j).op = "uses" -> {<<Step(j).item, world[Step(j).item]>>}
    [] Step(j).op \in Reading -> IF Readable(Step(j)) THEN files[Step(j).path].from ELSE {}
    [] Step(j).op = "probes" -> {<<"failed", n>> : n \in Step(j).names}
    [] Step(j).op = "chooses" ->
         {<<"chosen-by", Step(j).data>>} \cup {<<"chosen-after", d>> : d \in job[j].opened}
    [] OTHER -> {}

\* The run has gone on: what the step asked for was so, and what it writes is there.
GoneOn(j) ==
  LET step == Step(j) IN
  /\ job'[j].script = job[j].script
  /\ job'[j].from \subseteq job[j].from \cup Learns(j)
  /\ job'[j].opened = job[j].opened \cup (IF step.op = "opens" THEN {step.data} ELSE {})
  /\ \/ job'[j].at = job[j].at + 1
     \/ step.op \in {"unless", "perhaps"} /\ job'[j].at = job[j].at + step.over + 1
  /\ step.op = "needs" => world[step.item] \in step.versions
  /\ step.op = "verifies" => Readable(step) /\ files[step.path].from \cap Strange = {}
  /\ step.op = "writes" => First(step, Len(step.files)) \subseteq DOMAIN files'

\* Files that a step has left, all or some of those it writes.
Leaves(j, names, entry) ==
  LET step == Step(j) IN
  /\ files' = Extended(files, names, entry)
  /\ entry.script = job[j].script
  /\ \/ /\ step.op = "writes"
        /\ \E n : names = First(step, n) /\ (n = Len(step.files) \/ n \in 1..(Len(step.files) - 1))
        /\ entry.from = job[j].from /\ entry.says = step.says
     \/ /\ step.op = "captures" /\ names = {step.path}
        /\ entry.from \subseteq job[j].from \cup {<<"capture", "partial">>} /\ entry.says = "captured"

Alters(j) == Step(j).op = "becomes" /\ world' = [world EXCEPT ![Step(j).item] = Step(j).version]

\* A step of a run, as the invariants below see it.
OthersStay(j) == \A k \in Jobs : k # j => job'[k] = job[k]
RunMoves(j) == job'[j] = Idle \/ GoneOn(j)
FilesMove(j) == files' = files \/ (\E names, entry : Leaves(j, names, entry))
WorldMoves(j) == world' = world \/ Alters(j)

RunStep(j) == OthersStay(j) /\ RunMoves(j) /\ FilesMove(j) /\ WorldMoves(j)

LEMMA GoesGone ==
  ASSUME NEW j \in Jobs, NEW n, NEW marks, JobsOK, Running(j), GoesOver(j, n, marks)
  PROVE  /\ OthersStay(j)
         /\ job'[j].script = job[j].script /\ job'[j].at = job[j].at + n + 1
         /\ job'[j].from = job[j].from \cup marks /\ job'[j].opened = job[j].opened
<1>1. IsRun(job[j])
  BY StepsOK
<1> QED
  BY <1>1 DEF GoesOver, JobsOK, IsRun, OthersStay

LEMMA EndsIdle ==
  ASSUME NEW j \in Jobs, JobsOK, Ends(j)
  PROVE  job'[j] = Idle /\ OthersStay(j)
  BY DEF Ends, JobsOK, OthersStay

LEMMA TakeSteps ==
  ASSUME NEW j \in Jobs, NEW step \in Now(j), JobsOK, Take(j, step)
  PROVE  RunStep(j)
<1>0. step = Step(j) /\ Running(j) /\ job[j].at \in DOMAIN Steps(j) /\ IsRun(job[j])
  BY NowIsStep, StepsOK
<1>a. job[j].at + 0 + 1 = job[j].at + 1
  BY <1>0 DEF IsRun
<1>e. ASSUME Ends(j), UNCHANGED <<files, world>> PROVE RunStep(j)
  BY <1>e, EndsIdle DEF RunStep, RunMoves, FilesMove, WorldMoves
<1>g. ASSUME NEW marks, Goes(j, marks), marks \subseteq Learns(j), Step(j).op \notin {"opens", "writes", "needs", "verifies"},
             UNCHANGED files,
             WorldMoves(j)
      PROVE  RunStep(j)
  BY <1>0, <1>a, <1>g, GoesGone DEF RunStep, RunMoves, FilesMove, WorldMoves, GoneOn, Reading, Goes
<1>1. CASE CheckFresh(j, step)
  BY <1>0, <1>1, <1>e, <1>g DEF WorldMoves, CheckFresh, Outside
<1>2. CASE MakeDir(j, step)
  BY <1>0, <1>2, <1>g DEF WorldMoves, Alters, MakeDir, Outside
<1>3. CASE MakeNewDir(j, step)
  BY <1>0, <1>3, <1>e, <1>g DEF WorldMoves, Alters, MakeNewDir, Outside
<1>4. CASE Check(j, step)
  <2>1. CASE world[step.item] \in step.versions
    <3>1. Goes(j, {}) /\ UNCHANGED <<files, world>> /\ Step(j).op = "needs"
      BY <1>0, <1>4, <2>1 DEF Check, Outside
    <3> QED
      BY <1>0, <1>a, <2>1, <3>1, GoesGone DEF RunStep, RunMoves, FilesMove, WorldMoves, GoneOn, Reading, Goes
  <2>2. CASE world[step.item] \notin step.versions
    BY <1>4, <1>e, <2>2 DEF Check, Outside
  <2> QED
    BY <2>1, <2>2
<1>5. CASE Use(j, step)
  <2>1. {<<step.item, world[step.item]>>} \subseteq Learns(j)
    BY <1>0, <1>5 DEF Use, Learns, Reading
  <2> QED
    BY <1>0, <1>5, <1>g, <2>1 DEF WorldMoves, Use, Outside
<1>6. CASE Make(j, step)
  BY <1>0, <1>6, <1>g DEF WorldMoves, Alters, Make
<1>7. CASE RunTools(j, step)
  BY <1>0, <1>7, <1>e, <1>g DEF WorldMoves, RunTools, Outside
<1>8. CASE Measure(j, step)
  <2>1. PICK failed \in SUBSET step.names : Goes(j, {<<"failed", n>> : n \in failed})
    BY <1>8 DEF Measure
  <2>2. {<<"failed", n>> : n \in failed} \subseteq Learns(j)
    BY <1>0, <1>8, <2>1 DEF Measure, Learns, Reading
  <2> QED
    BY <1>0, <1>8, <1>g, <2>1, <2>2 DEF WorldMoves, Measure, Outside
<1>9. CASE Read(j, step) \/ Expect(j, step)
  <2>1. Readable(step) => files[step.path].from \subseteq Learns(j)
    BY <1>0, <1>9 DEF Read, Expect, Learns, Reading
  <2> QED
    BY <1>0, <1>9, <1>e, <1>g, <2>1 DEF WorldMoves, Read, Expect, Outside
<1>10. CASE Verify(j, step)
  <2>1. Readable(step) => files[step.path].from \subseteq Learns(j)
    BY <1>0, <1>10 DEF Verify, Learns, Reading
  <2>2. CASE Readable(step) /\ files[step.path].from \cap Strange = {}
    <3>1. Goes(j, files[step.path].from) /\ UNCHANGED <<files, world>> /\ Step(j).op = "verifies"
      BY <1>0, <1>10, <2>2 DEF Verify, Outside
    <3> QED
      BY <1>0, <1>a, <2>1, <2>2, <3>1, GoesGone DEF RunStep, RunMoves, FilesMove, WorldMoves, GoneOn, Reading, Goes
  <2>3. CASE ~ (Readable(step) /\ files[step.path].from \cap Strange = {})
    BY <1>10, <1>e, <2>3 DEF Verify, Outside
  <2> QED
    BY <2>2, <2>3
<1>11. CASE Capture(j, step)
  <2>1. Step(j).op = "captures" /\ UNCHANGED world
    BY <1>0, <1>11 DEF Capture, Outside
  <2>2. PICK marks : /\ marks \subseteq {<<"capture", "partial">>}
                     /\ files' = Extended(files, {step.path}, Entry(j, marks, "captured"))
                     /\ Goes(j, {}) \/ Ends(j)
    BY <1>11 DEF Capture
  <2>3. Leaves(j, {step.path}, Entry(j, marks, "captured"))
    BY <1>0, <2>1, <2>2 DEF Leaves, Entry
  <2>4. CASE Goes(j, {})
    BY <1>0, <1>a, <2>1, <2>3, <2>4, GoesGone DEF RunStep, RunMoves, FilesMove, WorldMoves, GoneOn, Reading, Goes
  <2>5. CASE Ends(j)
    BY <2>1, <2>3, <2>5, EndsIdle DEF RunStep, RunMoves, FilesMove, WorldMoves
  <2> QED
    BY <2>2, <2>4, <2>5
<1>12. CASE SkipIfThere(j, step)
  <2>1. Readable(step) => files[step.path].from \subseteq Learns(j)
    BY <1>0, <1>12 DEF SkipIfThere, Learns, Reading
  <2>2. CASE Readable(step)
    <3>1. GoesOver(j, step.over, files[step.path].from) /\ UNCHANGED <<files, world>> /\ Step(j).op = "unless"
      BY <1>0, <1>12, <2>2 DEF SkipIfThere, Outside
    <3> QED
      BY <1>0, <2>1, <2>2, <3>1, GoesGone DEF RunStep, RunMoves, FilesMove, WorldMoves, GoneOn, Reading
  <2>3. CASE ~ Readable(step)
    BY <1>0, <1>12, <1>g, <2>3 DEF WorldMoves, SkipIfThere, Outside
  <2> QED
    BY <2>2, <2>3
<1>13. CASE SkipPerhaps(j, step)
  <2>1. CASE GoesOver(j, step.over, {})
    <3>1. UNCHANGED <<files, world>> /\ Step(j).op = "perhaps"
      BY <1>0, <1>13 DEF SkipPerhaps, Outside
    <3> QED
      BY <1>0, <2>1, <3>1, GoesGone DEF RunStep, RunMoves, FilesMove, WorldMoves, GoneOn, Reading
  <2>2. CASE Goes(j, {})
    BY <1>0, <1>13, <1>g, <2>2 DEF WorldMoves, SkipPerhaps, Outside
  <2> QED
    BY <1>13, <2>1, <2>2 DEF SkipPerhaps
<1>14. CASE Open(j, step)
  <2>1. /\ Step(j).op = "opens" /\ UNCHANGED <<files, world>>
        /\ OthersStay(j)
        /\ job'[j] = [job[j] EXCEPT !.at = @ + 1, !.opened = @ \cup {Step(j).data}]
    BY <1>0, <1>14 DEF Open, Outside, JobsOK, OthersStay
  <2> QED
    BY <1>0, <2>1 DEF RunStep, RunMoves, FilesMove, WorldMoves, GoneOn, Reading, IsRun
<1>15. CASE Choose(j, step)
  <2>1. {<<"chosen-by", step.data>>} \cup {<<"chosen-after", d>> : d \in job[j].opened} \subseteq Learns(j)
    BY <1>0, <1>15 DEF Choose, Learns, Reading
  <2> QED
    BY <1>0, <1>15, <1>g, <2>1 DEF WorldMoves, Choose, Outside
<1>16. CASE Write(j, step)
  <2>1. /\ Step(j).op = "writes" /\ UNCHANGED world /\ Goes(j, {})
        /\ files' = Extended(files, First(step, Len(step.files)), Entry(j, {}, step.says))
    BY <1>0, <1>16 DEF Write, Outside
  <2>2. Leaves(j, First(step, Len(step.files)), Entry(j, {}, step.says))
    BY <1>0, <2>1 DEF Leaves, Entry
  <2>3. First(step, Len(step.files)) \subseteq DOMAIN files'
    BY <2>1 DEF Extended
  <2> QED
    BY <1>0, <1>a, <2>1, <2>2, <2>3, GoesGone DEF RunStep, RunMoves, FilesMove, WorldMoves, GoneOn, Reading, Goes
<1>17. CASE KillWriting(j, step)
  <2>1. PICK n \in 1..(Len(step.files) - 1) : files' = Extended(files, First(step, n), Entry(j, {}, step.says))
    BY <1>17 DEF KillWriting
  <2>2. Step(j).op = "writes" /\ UNCHANGED world /\ Ends(j)
    BY <1>0, <1>17 DEF KillWriting
  <2>3. Leaves(j, First(step, n), Entry(j, {}, step.says))
    BY <1>0, <2>1, <2>2 DEF Leaves, Entry
  <2> QED
    BY <2>2, <2>3, EndsIdle DEF RunStep, RunMoves, FilesMove, WorldMoves
<1> QED
  BY <1>1, <1>2, <1>3, <1>4, <1>5, <1>6, <1>7, <1>8, <1>9, <1>10, <1>11, <1>12, <1>13, <1>14, <1>15, <1>16,
     <1>17 DEF Take

-----------------------------------------------------------------------------
(* The fifteen programs.                                                       *)

\* Where each script leaves its files.
Home ==
  [s19a |-> {"19a"}, s19b |-> {"19b"}, prepare |-> {}, bridge |-> {"21"}, runtime |-> {"21"},
   s22 |-> {"22"}, s22a |-> {"22a"}, s23 |-> {"23"},
   c4 |-> {"c4"}, implicit |-> {"implicit"}, simd |-> {"simd"}, weight |-> {"weight"}, lut |-> {"lut"},
   geometric |-> {"geometric"}, structured |-> {"structured", "work"}]

LaysIn(steps, home) == \A i \in DOMAIN steps : steps[i].op \in Laying => steps[i].dir \in home

\* Only the checkout of step 21 is ever changed by a script.
SparesOutside(steps) == \A i \in DOMAIN steps : steps[i].op = "becomes" => steps[i].item = "tree"

LEMMA LlamaHomes ==
  /\ LaysIn(step19a, {"19a"}) /\ LaysIn(step19b, {"19b"}) /\ LaysIn(prepare, {})
  /\ LaysIn(bridge, {"21"}) /\ LaysIn(runtime, {"21"})
  /\ LaysIn(step22, {"22"}) /\ LaysIn(step22a, {"22a"}) /\ LaysIn(step23, {"23"})
<1> USE DEF LaysIn, Laying, Dir, Needs, Uses, Becomes, Tools, Probes, Expects, Writes
<1>1. LaysIn(step19a, {"19a"})
  BY DEF step19a
<1>2. LaysIn(step19b, {"19b"})
  BY DEF step19b, step19b_checks, step19b_results
<1>3. LaysIn(prepare, {})
  BY DEF prepare
<1>4. LaysIn(bridge, {"21"}) /\ LaysIn(runtime, {"21"})
  BY DEF bridge, runtime
<1>5. LaysIn(step22, {"22"})
  BY DEF step22
<1>6. LaysIn(step22a, {"22a"})
  BY DEF step22a
<1>7. LaysIn(step23, {"23"})
  BY DEF step23
<1> QED
  BY <1>1, <1>2, <1>3, <1>4, <1>5, <1>6, <1>7

LEMMA WeightHomes ==
  /\ LaysIn(c4, {"c4"}) /\ LaysIn(implicit, {"implicit"}) /\ LaysIn(simd, {"simd"})
  /\ LaysIn(weight, {"weight"}) /\ LaysIn(lut, {"lut"}) /\ LaysIn(geometric, {"geometric"})
  /\ LaysIn(structured, {"structured", "work"})
<1> USE DEF LaysIn, Laying, Fresh, Dir, NewDir, Needs, Uses, Tools, Reads, Verifies, Captures, Unless,
            Perhaps, Opens, Chooses, Writes
<1>1. LaysIn(c4, {"c4"})
  BY DEF c4
<1>2. LaysIn(implicit, {"implicit"})
  BY DEF implicit, implicit_search, canonical_controls, generation_benchmark, implicit_results
<1>3. LaysIn(simd, {"simd"})
  BY DEF simd, simd_search, simd_results
<1>4. LaysIn(weight, {"weight"})
  BY SMTT(60) DEF weight, weight_search, canonical_prepared, weight_results
<1>5. LaysIn(lut, {"lut"})
  BY DEF lut, make_raw_quantizers
<1>6. LaysIn(geometric, {"geometric"})
  BY DEF geometric, geometric_search, geometric_results
<1>7. LaysIn(structured, {"structured", "work"})
  BY SMTT(60) DEF structured, structured_predictors, structured_candidates, structured_results
<1> QED
  BY <1>1, <1>2, <1>3, <1>4, <1>5, <1>6, <1>7

\* Every script writes in directories of its own; steps 21 share one.
LEMMA LaysAtHome ==
  ASSUME NEW s \in DOMAIN Programs
  PROVE  LaysIn(Programs[s], Home[s])
<1>1. s \in {"s19a", "s19b", "prepare", "bridge", "runtime", "s22", "s22a", "s23",
             "c4", "implicit", "simd", "weight", "lut", "geometric", "structured"}
  BY DEF Programs
<1>2. CASE s = "s19a"
  BY <1>2, LlamaHomes DEF Programs, Home
<1>8. CASE s = "s19b"
  BY <1>8, LlamaHomes DEF Programs, Home
<1>3. CASE s = "prepare"
  BY <1>3, LlamaHomes DEF Programs, Home
<1>4. CASE s \in {"bridge", "runtime"}
  BY SMTT(60), <1>4, LlamaHomes DEF Programs, Home
<1>5. CASE s \in {"s22", "s22a", "s23"}
  BY SMTT(60), <1>5, LlamaHomes DEF Programs, Home
<1>6. CASE s \in {"c4", "implicit", "simd", "weight"}
  BY SMTT(60), <1>6, WeightHomes DEF Programs, Home
<1>7. CASE s \in {"lut", "geometric", "structured"}
  BY SMTT(60), <1>7, WeightHomes DEF Programs, Home
<1> QED
  BY <1>1, <1>2, <1>3, <1>4, <1>5, <1>6, <1>7, <1>8

LEMMA ScriptsSpare ==
  ASSUME NEW s \in DOMAIN Programs
  PROVE  SparesOutside(Programs[s])
<1> USE DEF SparesOutside, Fresh, Dir, NewDir, Needs, Uses, Becomes, Tools, Probes, Expects, Reads, Verifies,
            Captures, Unless, Perhaps, Opens, Chooses, Writes
<1>1. SparesOutside(step19a) /\ SparesOutside(prepare) /\ SparesOutside(bridge) /\ SparesOutside(runtime)
  BY DEF step19a, prepare, bridge, runtime
<1>2. SparesOutside(step22) /\ SparesOutside(step22a) /\ SparesOutside(step23)
  BY DEF step22, step22a, step23
<1>3. SparesOutside(step19b)
  BY DEF step19b, step19b_checks, step19b_results
<1>4. SparesOutside(c4) /\ SparesOutside(lut)
  BY DEF c4, lut, make_raw_quantizers
<1>5. SparesOutside(implicit)
  BY SMTT(60) DEF implicit, implicit_search, canonical_controls, generation_benchmark, implicit_results
<1>6. SparesOutside(simd)
  BY DEF simd, simd_search, simd_results
<1>7. SparesOutside(weight)
  BY SMTT(60) DEF weight, weight_search, canonical_prepared, weight_results
<1>8. SparesOutside(geometric)
  BY DEF geometric, geometric_search, geometric_results
<1>9. SparesOutside(structured)
  BY SMTT(60) DEF structured, structured_predictors, structured_candidates, structured_results
<1> HIDE DEF SparesOutside
<1> QED
  BY <1>1, <1>2, <1>3, <1>4, <1>5, <1>6, <1>7, <1>8, <1>9 DEF Programs

LEMMA NamesAtHome ==
  ASSUME NEW j \in Jobs, NEW names, NEW entry, NEW p \in names, Program = Programs,
         JobsOK, Running(j), job[j].at \in DOMAIN Steps(j), Leaves(j, names, entry)
  PROVE  p[1] \in Home[job[j].script]
<1>1. IsRun(job[j]) /\ DOMAIN Steps(j) \subseteq Nat
  BY StepsOK
<1>2. job[j].script \in DOMAIN Programs /\ Steps(j) = Programs[job[j].script]
  BY <1>1, ProgramAssumption DEF IsRun, Steps
<1>3. LaysIn(Steps(j), Home[job[j].script])
  BY <1>2, LaysAtHome
<1>4. Step(j).op \in Laying /\ Step(j).dir \in Home[job[j].script]
  BY <1>3 DEF LaysIn, Leaves, Laying, Step
<1>5. CASE Step(j).op = "writes"
  BY <1>4, <1>5 DEF Leaves, First
<1>6. CASE Step(j).op = "captures"
  <2>1. Step(j).path[1] = Step(j).dir
    BY <1>1, <1>6, ProgramAssumption DEF IsRun, Steps, Step
  <2> QED
    BY <1>4, <1>6, <2>1 DEF Leaves
<1> QED
  BY <1>4, <1>5, <1>6 DEF Laying

\* What can happen: a run takes a step, begins or ends, or no run moves.
Begins(j) ==
  /\ job[j] = Idle
  /\ j \in campaign.jobs /\ job'[j].script \in campaign.scripts \cap Scripts
  /\ job'[j].at = 1 /\ job'[j].from = {} /\ job'[j].opened = {}

Turns(j) == OthersStay(j) /\ (job'[j] = Idle \/ Begins(j)) /\ UNCHANGED <<files, world>>

Rests ==
  /\ job' = job /\ files' = files /\ DOMAIN world' = DOMAIN world
  /\ world' = world \/ \A j \in Jobs : ~ Running(j)

LEMMA WhatHappens ==
  ASSUME JobsOK, [ChainNext]_chainVars
  PROVE  \/ \E j \in Jobs : Running(j) /\ job[j].at \in DOMAIN Steps(j) /\ RunStep(j)
         \/ \E j \in Jobs : Turns(j)
         \/ Rests
<1>1. ASSUME NEW j \in Jobs, NEW s \in Scripts, Start(j, s) PROVE Turns(j)
  <2>1. /\ job'[j] = [at |-> 1, script |-> s, run |-> runs + 1, from |-> {}, opened |-> {}]
        /\ OthersStay(j)
    BY <1>1 DEF Start, JobsOK, OthersStay
  <2> QED
    BY <1>1, <2>1 DEF Start, Turns, Begins
<1>2. ASSUME NEW j \in Jobs, Finish(j) \/ Kill(j) PROVE Turns(j)
  BY <1>2, EndsIdle DEF Finish, Kill, Turns, Outside
<1>3. ASSUME NEW j \in Jobs, NEW step \in Now(j), Take(j, step)
      PROVE  Running(j) /\ job[j].at \in DOMAIN Steps(j) /\ RunStep(j)
  BY <1>3, TakeSteps, NowIsStep
<1>4. ASSUME NEW i, NEW v, Change(i, v) PROVE Rests
  BY <1>4 DEF Change, Rests
<1>5. CASE UNCHANGED chainVars
  BY <1>5 DEF chainVars, Rests
<1> QED
  BY <1>1, <1>2, <1>3, <1>4, <1>5 DEF ChainNext

-----------------------------------------------------------------------------
(* The claim of step 21.                                                       *)

Tables == {"consumer-metadata-runtime-parity", "consumer-runtime-structure",
           "logit-parity", "generation-parity"}
Claim == <<"21", "adapter-provenance">>

Tabled == \A t \in Tables : <<"21", t>> \in DOMAIN files

\* The tables are the runtime's, and are there once it has passed their step.
ClaimInv ==
  /\ \A t \in Tables : <<"21", t>> \in DOMAIN files => files[<<"21", t>>].script = "runtime"
  /\ Claim \in DOMAIN files /\ files[Claim].says = "PASS" => Tabled
  /\ \A j \in Jobs : Running(j) /\ job[j].script = "runtime" /\ job[j].at > 8 => Tabled

LEMMA RuntimeSteps ==
  /\ \A i \in DOMAIN runtime : runtime[i].op \notin {"unless", "perhaps", "captures"}
  /\ \A i \in DOMAIN runtime : runtime[i].op = "writes" /\ runtime[i].says = "PASS" => i > 8
  /\ runtime[8].op = "writes"
  /\ \A t \in Tables : <<"21", t>> \in First(runtime[8], Len(runtime[8].files))
<1> USE DEF runtime, Dir, Needs, Tools, Uses, Probes, Writes
<1>1. \A i \in DOMAIN runtime : runtime[i].op \notin {"unless", "perhaps", "captures"}
  OBVIOUS
<1>2. \A i \in DOMAIN runtime : runtime[i].op = "writes" /\ runtime[i].says = "PASS" => i > 8
  OBVIOUS
<1>3. /\ runtime[8].op = "writes" /\ runtime[8].dir = "21" /\ Len(runtime[8].files) = 5
      /\ runtime[8].files[1] = "consumer-metadata-runtime-parity"
      /\ runtime[8].files[2] = "consumer-runtime-structure"
      /\ runtime[8].files[4] = "logit-parity" /\ runtime[8].files[5] = "generation-parity"
  OBVIOUS
<1> HIDE DEF runtime
<1>4. \A i \in 1..5 : <<"21", runtime[8].files[i]>> \in First(runtime[8], 5)
  BY <1>3 DEF First
<1> QED
  BY <1>1, <1>2, <1>3, <1>4 DEF Tables

LEMMA BridgeSteps ==
  ASSUME NEW i \in DOMAIN bridge, bridge[i].op \in Laying
  PROVE  /\ bridge[i].op = "writes" /\ bridge[i].says # "PASS"
         /\ \A n : n = Len(bridge[i].files) \/ n \in 1..(Len(bridge[i].files) - 1) =>
              \A t \in Tables : <<"21", t>> \notin First(bridge[i], n)
<1> USE DEF bridge, Dir, Needs, Tools, Writes, Laying
<1>1. bridge[i].op = "writes" /\ bridge[i].says # "PASS"
  OBVIOUS
<1>2. \/ bridge[i].files = <<"consumer-metadata-parity", "consumer-tensor-parity">>
      \/ bridge[i].files \in {<<"tokenizer-token-parity">>, <<"adapter-provenance">>, <<"qualification-config">>}
  OBVIOUS
<1> HIDE DEF bridge
<1>3. Len(bridge[i].files) \in {1, 2} /\ \A k \in 1..Len(bridge[i].files) : bridge[i].files[k] \notin Tables
  <2>1. CASE bridge[i].files = <<"consumer-metadata-parity", "consumer-tensor-parity">>
    BY <2>1 DEF Tables
  <2>2. CASE bridge[i].files \in {<<"tokenizer-token-parity">>, <<"adapter-provenance">>, <<"qualification-config">>}
    BY <2>2 DEF Tables
  <2> QED
    BY <1>2, <2>1, <2>2
<1> QED
  BY <1>1, <1>3 DEF First

\* Where no table is laid over, those that are there stay the runtime's.
LEMMA FilesGrow ==
  ASSUME NEW j \in Jobs, FilesMove(j)
  PROVE  DOMAIN files \subseteq DOMAIN files'
  BY DEF FilesMove, Leaves, Extended

\* A file that is new or changed is one of those the step leaves.
LEMMA FileMoves ==
  ASSUME NEW j \in Jobs, FilesMove(j), NEW p \in DOMAIN files'
  PROVE  \/ p \in DOMAIN files /\ files'[p] = files[p]
         \/ \E names, entry : Leaves(j, names, entry) /\ p \in names /\ files'[p] = entry
  BY ZenonT(60) DEF FilesMove, Leaves, Extended

LEMMA HomesIn21 ==
  ASSUME NEW s \in DOMAIN Programs, "21" \in Home[s]
  PROVE  s \in {"bridge", "runtime"}
  BY DEF Programs, Home

LEMMA ClaimFiles ==
  ASSUME NEW j \in Jobs, Program = Programs, JobsOK, Running(j), job[j].at \in DOMAIN Steps(j),
         RunStep(j), ClaimInv
  PROVE  /\ \A t \in Tables : <<"21", t>> \in DOMAIN files' => files'[<<"21", t>>].script = "runtime"
         /\ Claim \in DOMAIN files' /\ files'[Claim].says = "PASS" => Tabled'
<1>0. IsRun(job[j]) /\ job[j].script \in DOMAIN Programs /\ Steps(j) = Programs[job[j].script] /\ FilesMove(j)
  BY StepsOK, ProgramAssumption DEF IsRun, Steps, RunStep
<1>1. ASSUME NEW names, NEW entry, Leaves(j, names, entry), NEW x, <<"21", x>> \in names
      PROVE  job[j].script \in {"bridge", "runtime"} /\ Step(j).op \in Laying
  <2>1. "21" \in Home[job[j].script]
    BY <1>1, NamesAtHome
  <2> QED
    BY <1>0, <1>1, <2>1, HomesIn21 DEF Leaves, Laying
<1>2. ASSUME NEW names, NEW entry, Leaves(j, names, entry), job[j].script = "bridge", Step(j).op \in Laying
      PROVE  /\ \A t \in Tables : <<"21", t>> \notin names
             /\ entry.says # "PASS"
  <2>1. Steps(j) = bridge
    BY <1>0, <1>2 DEF Programs
  <2> QED
    BY <1>0, <1>2, <2>1, BridgeSteps DEF Leaves, Step
<1>3. ASSUME NEW t \in Tables, <<"21", t>> \in DOMAIN files'
      PROVE  files'[<<"21", t>>].script = "runtime"
  <2>1. CASE <<"21", t>> \in DOMAIN files /\ files'[<<"21", t>>] = files[<<"21", t>>]
    BY <2>1 DEF ClaimInv
  <2>2. ASSUME NEW names, NEW entry, Leaves(j, names, entry), <<"21", t>> \in names, files'[<<"21", t>>] = entry
        PROVE  files'[<<"21", t>>].script = "runtime"
    <3>1. job[j].script = "runtime"
      BY <1>1, <1>2, <2>2
    <3> QED
      BY <2>2, <3>1 DEF Leaves
  <2> QED
    BY <1>0, <1>3, <2>1, <2>2, FileMoves
<1>4. Tabled => Tabled'
  BY <1>0, FilesGrow DEF Tabled
<1>5. ASSUME Claim \in DOMAIN files', files'[Claim].says = "PASS"
      PROVE  Tabled'
  <2>1. CASE Claim \in DOMAIN files /\ files'[Claim] = files[Claim]
    BY <1>4, <1>5, <2>1 DEF ClaimInv
  <2>2. ASSUME NEW names, NEW entry, Leaves(j, names, entry), Claim \in names, files'[Claim] = entry
        PROVE  Tabled'
    <3>1. job[j].script = "runtime" /\ Step(j).op \in Laying
      BY <1>1, <1>2, <1>5, <2>2 DEF Claim
    <3>2. Steps(j) = runtime
      BY <1>0, <3>1 DEF Programs
    <3>3. Step(j).op = "writes" /\ Step(j).says = "PASS"
      BY <1>0, <1>5, <2>2, <3>1, <3>2, RuntimeSteps DEF Leaves, Step, Laying
    <3>4. job[j].at > 8
      BY <3>2, <3>3, RuntimeSteps DEF Step
    <3> QED
      BY <1>4, <3>1, <3>4 DEF ClaimInv
  <2> QED
    BY <1>0, <1>5, <2>1, <2>2, FileMoves
<1> QED
  BY <1>3, <1>5

LEMMA ClaimRuns ==
  ASSUME NEW j \in Jobs, Program = Programs, JobsOK, Running(j), job[j].at \in DOMAIN Steps(j),
         RunStep(j), ClaimInv,
         NEW k \in Jobs, Running(k)', job'[k].script = "runtime", job'[k].at > 8
  PROVE  Tabled'
<1>0. IsRun(job[j]) /\ job[j].script \in DOMAIN Programs /\ Steps(j) = Programs[job[j].script]
  BY StepsOK, ProgramAssumption DEF IsRun, Steps
<1>1. Tabled => Tabled'
  BY FilesGrow DEF Tabled, RunStep
<1>2. CASE k # j
  BY <1>1, <1>2 DEF RunStep, OthersStay, ClaimInv, Running
<1>3. CASE k = j
  <2>1. GoneOn(j)
    BY <1>3 DEF RunStep, RunMoves, Running, Idle
  <2>2. job[j].script = "runtime" /\ Steps(j) = runtime
    BY <1>0, <1>3, <2>1 DEF GoneOn, Programs
  <2>3. job'[j].at = job[j].at + 1
    BY <2>1, <2>2, RuntimeSteps DEF GoneOn, Step
  <2>4. CASE job[j].at > 8
    BY <1>1, <2>2, <2>4 DEF ClaimInv
  <2>5. CASE job[j].at <= 8
    <3>1. job[j].at = 8
      BY <1>0, <1>3, <2>3, <2>5 DEF IsRun
    <3>2. First(runtime[8], Len(runtime[8].files)) \subseteq DOMAIN files'
      BY <2>1, <2>2, <3>1, RuntimeSteps DEF GoneOn, Step
    <3> QED
      BY <3>2, RuntimeSteps DEF Tabled
  <2> QED
    BY <1>0, <2>4, <2>5 DEF IsRun
<1> QED
  BY <1>2, <1>3

LEMMA StepClaim ==
  ASSUME Program = Programs, JobsOK, ClaimInv, [ChainNext]_chainVars
  PROVE  ClaimInv'
<1>1. ASSUME NEW j \in Jobs, Running(j), job[j].at \in DOMAIN Steps(j), RunStep(j) PROVE ClaimInv'
  BY <1>1, ClaimFiles, ClaimRuns DEF ClaimInv
<1>2. ASSUME NEW j \in Jobs, Turns(j) PROVE ClaimInv'
  <2>1. Tabled' = Tabled /\ files' = files
    BY <1>2 DEF Turns, Tabled
  <2>2. ASSUME NEW k \in Jobs, Running(k)', job'[k].at > 8 PROVE job'[k] = job[k]
    BY <1>2, <2>2 DEF Turns, OthersStay, Running, Idle, Begins
  <2> QED
    BY <2>1, <2>2 DEF ClaimInv, Running
<1>3. CASE Rests
  BY <1>3 DEF Rests, ClaimInv, Tabled, Running
<1> QED
  BY <1>1, <1>2, <1>3, WhatHappens

\* Whatever runs of the fifteen scripts overlap, fail or are killed: where the
\* provenance claims runtime parity, the runtime has written the tables.
THEOREM ClaimsAreBacked ==
  ASSUME Program = Programs
  PROVE  ChainSpec => []ClaimHasTables
<1>1. ChainInit => ClaimInv
  BY DEF ChainInit, ClaimInv, Running, Idle
<1>2. IInv /\ ClaimInv /\ [ChainNext]_chainVars => ClaimInv'
  BY StepClaim DEF IInv
<1>3. ClaimInv => ClaimHasTables
  BY DEF ClaimInv, ClaimHasTables, Claim, Tabled, Tables
<1> QED
  BY <1>1, <1>2, <1>3, Owned, PTL DEF ChainSpec

-----------------------------------------------------------------------------
(* Selection without the test data.                                            *)

Seen == {<<"chosen-by", "test">>, <<"chosen-after", "test">>}

Experiments == {"c4", "implicit", "simd", "weight", "lut"}

\* What a script can read, use and choose without learning of the test data.
BlindStep(step) ==
  /\ step.op \in Reading => step.path[1] \in Experiments
  /\ step.op = "uses" => step.item \in {"source", "llama"}
  /\ step.op = "chooses" => step.data # "test"

Blind(steps) ==
  /\ \A i \in DOMAIN steps : BlindStep(steps[i])
  /\ \A i, k \in DOMAIN steps :
       steps[i].op = "opens" /\ steps[i].data = "test" /\ steps[k].op = "chooses" => k < i

LEMMA ExperimentsAreBlind == Blind(c4) /\ Blind(implicit) /\ Blind(simd) /\ Blind(weight) /\ Blind(lut)
<1> USE DEF Blind, BlindStep, Reading, Experiments, Fresh, Dir, NewDir, Needs, Uses, Tools, Reads, Verifies,
            Captures, Unless, Perhaps, Opens, Chooses, Writes
<1>1. Blind(c4)
  BY DEF c4
<1>2. Blind(implicit)
  BY DEF implicit, implicit_search, canonical_controls, generation_benchmark, implicit_results
<1>3. Blind(simd)
  BY SMTT(60) DEF simd, simd_search, simd_results
<1>4. Blind(weight)
  BY SMTT(60) DEF weight, weight_search, canonical_prepared, weight_results
<1>5. Blind(lut)
  BY DEF lut, make_raw_quantizers
<1> QED
  BY <1>1, <1>2, <1>3, <1>4, <1>5

LEMMA HomesOfExperiments ==
  ASSUME NEW s \in DOMAIN Programs, NEW d \in Experiments, d \in Home[s]
  PROVE  s \in Experiments
  BY DEF Programs, Home, Experiments

\* Neither the experiments' files nor their runs know of the test data; what a
\* run has opened, it has passed the opening of.
BlindInv ==
  /\ \A p \in DOMAIN files : p[1] \in Experiments => files[p].from \cap Seen = {}
  /\ \A j \in Jobs : Running(j) /\ job[j].script \in Experiments =>
       /\ job[j].from \cap Seen = {}
       /\ "test" \in job[j].opened =>
            \E m \in DOMAIN Steps(j) : /\ m < job[j].at
                                       /\ Steps(j)[m].op = "opens" /\ Steps(j)[m].data = "test"

LEMMA BlindLearns ==
  ASSUME NEW j \in Jobs, Program = Programs, JobsOK, Running(j), job[j].at \in DOMAIN Steps(j),
         job[j].script \in Experiments, BlindInv
  PROVE  Learns(j) \cap Seen = {}
<1>0. /\ IsRun(job[j]) /\ DOMAIN Steps(j) \subseteq Nat
      /\ Steps(j) = Programs[job[j].script]
  BY StepsOK, ProgramAssumption DEF IsRun, Steps
<1>1. Blind(Steps(j))
  BY <1>0, ExperimentsAreBlind DEF Experiments, Programs
<1>2. BlindStep(Step(j))
  BY <1>1 DEF Blind, Step
<1>3. CASE Step(j).op = "uses"
  <2>1. Learns(j) = {<<Step(j).item, world[Step(j).item]>>}
    BY <1>3 DEF Learns, Reading
  <2>2. Step(j).item \in {"source", "llama"}
    BY <1>2, <1>3 DEF BlindStep
  <2> QED
    BY <2>1, <2>2 DEF Seen
<1>4. CASE Step(j).op \in Reading
  <2>1. Readable(Step(j)) => files[Step(j).path].from \cap Seen = {}
    BY <1>2, <1>4 DEF BlindStep, BlindInv, Readable
  <2> QED
    BY <1>4, <2>1 DEF Learns, Reading
<1>5. CASE Step(j).op = "probes"
  BY <1>5 DEF Learns, Reading, Seen
<1>6. CASE Step(j).op = "chooses"
  <2>1. "test" \notin job[j].opened
    <3>1. SUFFICES ASSUME "test" \in job[j].opened PROVE FALSE
      OBVIOUS
    <3>2. PICK m \in DOMAIN Steps(j) : /\ m < job[j].at
                                       /\ Steps(j)[m].op = "opens" /\ Steps(j)[m].data = "test"
      BY <3>1 DEF BlindInv
    <3>3. job[j].at < m
      BY <1>1, <1>6, <3>2 DEF Blind, Step
    <3> QED
      BY <1>0, <3>2, <3>3 DEF IsRun
  <2>2. Step(j).data # "test"
    BY <1>2, <1>6 DEF BlindStep
  <2>3. Learns(j) = {<<"chosen-by", Step(j).data>>} \cup {<<"chosen-after", d>> : d \in job[j].opened}
    BY <1>6 DEF Learns, Reading
  <2> QED
    BY <2>1, <2>2, <2>3 DEF Seen
<1>7. CASE Step(j).op \notin Reading \cup {"uses", "probes", "chooses"}
  BY <1>7 DEF Learns, Reading
<1> QED
  BY <1>3, <1>4, <1>5, <1>6, <1>7

LEMMA BlindFiles ==
  ASSUME NEW j \in Jobs, Program = Programs, JobsOK, Running(j), job[j].at \in DOMAIN Steps(j),
         RunStep(j), BlindInv, NEW p \in DOMAIN files', p[1] \in Experiments
  PROVE  files'[p].from \cap Seen = {}
<1>0. IsRun(job[j]) /\ job[j].script \in DOMAIN Programs /\ FilesMove(j)
  BY StepsOK, ProgramAssumption DEF IsRun, RunStep
<1>1. CASE p \in DOMAIN files /\ files'[p] = files[p]
  BY <1>1 DEF BlindInv
<1>2. ASSUME NEW names, NEW entry, Leaves(j, names, entry), p \in names, files'[p] = entry
      PROVE  files'[p].from \cap Seen = {}
  <2>1. job[j].script \in Experiments
    BY <1>0, <1>2, NamesAtHome, HomesOfExperiments
  <2>2. job[j].from \cap Seen = {}
    BY <2>1 DEF BlindInv
  <2>3. <<"capture", "partial">> \notin Seen
    BY DEF Seen
  <2> QED
    BY <1>2, <2>2, <2>3 DEF Leaves
<1> QED
  BY <1>0, <1>1, <1>2, FileMoves

LEMMA BlindRuns ==
  ASSUME NEW j \in Jobs, Program = Programs, JobsOK, Running(j), job[j].at \in DOMAIN Steps(j),
         RunStep(j), BlindInv, NEW k \in Jobs, Running(k)', job'[k].script \in Experiments
  PROVE  /\ job'[k].from \cap Seen = {}
         /\ "test" \in job'[k].opened =>
              \E m \in DOMAIN Steps(k)' : /\ m < job'[k].at
                                          /\ Steps(k)'[m].op = "opens" /\ Steps(k)'[m].data = "test"
<1>1. CASE k # j
  BY <1>1 DEF RunStep, OthersStay, BlindInv, Running, Steps
<1>2. CASE k = j
  <2>0. IsRun(job[j]) /\ DOMAIN Steps(j) \subseteq Nat
    BY StepsOK
  <2>1. GoneOn(j)
    BY <1>2 DEF RunStep, RunMoves, Running, Idle
  <2>2. job[j].script \in Experiments /\ Steps(j)' = Steps(j)
    BY <1>2, <2>1 DEF GoneOn, Steps
  <2>3. job[j].from \cap Seen = {} /\ Learns(j) \cap Seen = {}
    BY <2>2, BlindLearns DEF BlindInv
  <2>4. job'[j].from \cap Seen = {}
    BY <2>1, <2>3 DEF GoneOn
  <2>5. job'[j].at > job[j].at
    <3>1. Step(j).op \in {"unless", "perhaps"} => Step(j).over \in Nat
      BY <2>0, ProgramAssumption DEF IsRun, Steps, Step
    <3> QED
      BY <2>0, <2>1, <3>1 DEF GoneOn, IsRun
  <2>6. ASSUME "test" \in job'[j].opened
        PROVE  \E m \in DOMAIN Steps(j) : /\ m < job'[j].at
                                          /\ Steps(j)[m].op = "opens" /\ Steps(j)[m].data = "test"
    <3>1. CASE "test" \in job[j].opened
      <4>1. PICK m \in DOMAIN Steps(j) : /\ m < job[j].at
                                         /\ Steps(j)[m].op = "opens" /\ Steps(j)[m].data = "test"
        BY <2>2, <3>1 DEF BlindInv
      <4>2. m < job'[j].at
        <5>1. m \in Nat /\ job[j].at \in Nat /\ job'[j].at > job[j].at
          BY <2>0, <2>5 DEF IsRun
        <5>2. job'[j].at \in Nat
          <6>1. Step(j).op \in {"unless", "perhaps"} => Step(j).over \in Nat
            BY <2>0, ProgramAssumption DEF IsRun, Steps, Step
          <6> QED
            BY <2>0, <2>1, <6>1 DEF GoneOn, IsRun
        <5> QED
          BY <4>1, <5>1, <5>2
      <4> QED
        BY <4>1, <4>2
    <3>2. CASE "test" \notin job[j].opened
      <4>1. Step(j).op = "opens" /\ Step(j).data = "test"
        BY <2>1, <2>6, <3>2 DEF GoneOn
      <4> QED
        BY <2>5, <4>1 DEF Step
    <3> QED
      BY <3>1, <3>2
  <2> QED
    BY <1>2, <2>2, <2>4, <2>6
<1> QED
  BY <1>1, <1>2

LEMMA StepBlind ==
  ASSUME Program = Programs, JobsOK, BlindInv, [ChainNext]_chainVars
  PROVE  BlindInv'
<1>1. ASSUME NEW j \in Jobs, Running(j), job[j].at \in DOMAIN Steps(j), RunStep(j) PROVE BlindInv'
  BY <1>1, BlindFiles, BlindRuns DEF BlindInv
<1>2. ASSUME NEW j \in Jobs, Turns(j) PROVE BlindInv'
  <2>1. files' = files
    BY <1>2 DEF Turns
  <2>2. ASSUME NEW k \in Jobs, Running(k)'
        PROVE  job'[k] = job[k] \/ (job'[k].from = {} /\ job'[k].opened = {})
    BY <1>2, <2>2 DEF Turns, OthersStay, Running, Idle, Begins
  <2> QED
    BY <2>1, <2>2 DEF BlindInv, Running, Steps
<1>3. CASE Rests
  BY <1>3 DEF Rests, BlindInv, Running, Steps
<1> QED
  BY <1>1, <1>2, <1>3, WhatHappens

\* However runs of the fifteen scripts overlap, fail or are killed: nothing in
\* the experiments' results was chosen by the test data, or after they were opened.
THEOREM SelectsBlindly ==
  ASSUME Program = Programs
  PROVE  ChainSpec => []SelectionIsBlind
<1>1. ChainInit => BlindInv
  BY DEF ChainInit, BlindInv, Running, Idle
<1>2. IInv /\ BlindInv /\ [ChainNext]_chainVars => BlindInv'
  BY StepBlind DEF IInv
<1>3. BlindInv => SelectionIsBlind
  BY DEF BlindInv, SelectionIsBlind, Experiments, Immutable, Seen
<1> QED
  BY <1>1, <1>2, <1>3, Owned, PTL DEF ChainSpec

-----------------------------------------------------------------------------
(* Origin.  The experiments digest the capture and read it again, so that      *)
(* another run of its gate must not come between the two.                      *)

CapturesAlone == \A c \in Campaigns : "c4" \in c.scripts => \A j, k \in c.jobs : j = k

\* What a script uses it has just required, and what it reads it has digested,
\* or comes from an experiment of its kind; nothing of that is left out.
PinnedStep(steps, i) ==
  /\ steps[i].op \notin {"captures", "unless", "expects", "becomes"}
  /\ steps[i].op = "perhaps" => steps[i].over = 1 /\ steps[i + 1].op = "opens"
  /\ steps[i].op = "uses" =>
       /\ i - 1 \in DOMAIN steps /\ steps[i].item \in {"source", "llama"}
       /\ steps[i - 1].op = "needs" /\ steps[i - 1].item = steps[i].item /\ steps[i - 1].versions = {"pinned"}
  /\ steps[i].op = "verifies" => steps[i].path[1] = "c4"
  /\ steps[i].op = "reads" =>
       \/ steps[i].path[1] \in Immutable
       \/ i - 1 \in DOMAIN steps /\ steps[i - 1].op = "verifies" /\ steps[i - 1].path = steps[i].path

PinnedSteps(steps) == \A i \in DOMAIN steps : PinnedStep(steps, i)

LEMMA ExperimentsArePinned ==
  PinnedSteps(implicit) /\ PinnedSteps(simd) /\ PinnedSteps(weight) /\ PinnedSteps(lut)
<1> USE DEF PinnedSteps, PinnedStep, Immutable, Fresh, NewDir, Needs, Uses, Tools, Reads, Verifies,
            Perhaps, Opens, Chooses, Writes
<1>1. PinnedSteps(implicit)
  BY SMTT(60) DEF implicit, implicit_search, canonical_controls, generation_benchmark, implicit_results
<1>2. PinnedSteps(simd)
  BY SMTT(60) DEF simd, simd_search, simd_results
<1>3. PinnedSteps(weight)
  BY SMTT(60) DEF weight, weight_search, canonical_prepared, weight_results
<1>4. PinnedSteps(lut)
  BY DEF lut, make_raw_quantizers
<1> QED
  BY SMTT(60), <1>1, <1>2, <1>3, <1>4

LEMMA HomesOfResults ==
  ASSUME NEW s \in DOMAIN Programs
  PROVE  /\ \A d \in Immutable : d \in Home[s] => s \in Immutable
         /\ "c4" \in Home[s] => s = "c4"
<1>1. ASSUME NEW d \in Immutable, d \in Home[s] PROVE s \in Immutable
  BY <1>1 DEF Programs, Home, Immutable
<1>2. "c4" \in Home[s] => s = "c4"
  BY DEF Programs, Home
<1> QED
  BY <1>1, <1>2

LEMMA CampaignStays == [ChainNext]_chainVars => campaign' = campaign
<1> SUFFICES ASSUME [ChainNext]_chainVars PROVE campaign' = campaign
  OBVIOUS
<1>1. ASSUME NEW j \in Jobs, NEW s \in Scripts, Start(j, s) PROVE campaign' = campaign
  BY <1>1 DEF Start
<1>2. ASSUME NEW j \in Jobs, Finish(j) \/ Kill(j) PROVE campaign' = campaign
  BY <1>2 DEF Finish, Kill, Outside
<1>3. ASSUME NEW j \in Jobs, NEW step \in Now(j), Take(j, step) PROVE campaign' = campaign
  BY <1>3 DEF Take, CheckFresh, MakeDir, MakeNewDir, Check, Use, Make, RunTools, Measure, Read, Expect, Verify,
              Capture, SkipIfThere, SkipPerhaps, Open, Choose, Write, KillWriting, Outside
<1>4. ASSUME NEW i, NEW v, Change(i, v) PROVE campaign' = campaign
  BY <1>4 DEF Change
<1>5. CASE UNCHANGED chainVars
  BY <1>5 DEF chainVars
<1> QED
  BY <1>1, <1>2, <1>3, <1>4, <1>5 DEF ChainNext

CampaignInv ==
  /\ campaign \in Campaigns /\ {"source", "llama"} \subseteq DOMAIN world
  /\ \A j \in Jobs : Running(j) => j \in campaign.jobs /\ job[j].script \in campaign.scripts
  /\ \A p \in DOMAIN files : p[1] = "c4" => "c4" \in campaign.scripts

\* What a run has required of the outside, or digested, last is still so.
StillSo(step) ==
  /\ step.op = "needs" /\ step.item \in {"source", "llama"} => world[step.item] \in step.versions
  /\ step.op = "verifies" /\ step.path[1] = "c4" => Readable(step) /\ files[step.path].from \cap Strange = {}

LastIsSo(j) == job[j].at - 1 \in DOMAIN Steps(j) => StillSo(Steps(j)[job[j].at - 1])

PinnedInv ==
  /\ \A p \in DOMAIN files : p[1] \in Immutable => files[p].from \cap Strange = {}
  /\ \A j \in Jobs : Running(j) /\ job[j].script \in Immutable =>
       job[j].from \cap Strange = {} /\ LastIsSo(j)

LEMMA CampaignFiles ==
  ASSUME NEW j \in Jobs, Program = Programs, JobsOK, Running(j), job[j].at \in DOMAIN Steps(j),
         RunStep(j), CampaignInv, NEW p \in DOMAIN files', p[1] = "c4"
  PROVE  "c4" \in campaign.scripts
<1>0. IsRun(job[j]) /\ job[j].script \in DOMAIN Programs /\ FilesMove(j) /\ job[j].script \in campaign.scripts
  BY StepsOK, ProgramAssumption DEF IsRun, RunStep, CampaignInv
<1>1. CASE p \in DOMAIN files
  BY <1>1 DEF CampaignInv
<1>2. ASSUME NEW names, NEW entry, Leaves(j, names, entry), p \in names
      PROVE  "c4" \in campaign.scripts
  <2>1. "c4" \in Home[job[j].script]
    BY <1>2, NamesAtHome
  <2> QED
    BY <1>0, <2>1, HomesOfResults
<1> QED
  BY <1>0, <1>1, <1>2, FileMoves

\* What the weight experiments need of the outside no script changes.
LEMMA WorldStays ==
  ASSUME NEW j \in Jobs, Program = Programs, JobsOK, Running(j), job[j].at \in DOMAIN Steps(j),
         RunStep(j), {"source", "llama"} \subseteq DOMAIN world
  PROVE  DOMAIN world' = DOMAIN world /\ world'["source"] = world["source"] /\ world'["llama"] = world["llama"]
<1>0. IsRun(job[j]) /\ job[j].script \in DOMAIN Programs /\ Steps(j) = Programs[job[j].script] /\ WorldMoves(j)
  BY StepsOK, ProgramAssumption DEF IsRun, RunStep, Steps
<1>1. CASE world' = world
  BY <1>1
<1>2. CASE Alters(j)
  <2>1. Step(j).item = "tree"
    BY <1>0, <1>2, ScriptsSpare DEF SparesOutside, Step, Alters
  <2>2. world' = [world EXCEPT !["tree"] = Step(j).version]
    BY <1>2, <2>1 DEF Alters
  <2> QED
    BY <2>2
<1> QED
  BY <1>0, <1>1, <1>2 DEF WorldMoves

LEMMA StepCampaign ==
  ASSUME Program = Programs, JobsOK, CampaignInv, [ChainNext]_chainVars
  PROVE  CampaignInv'
<1>0. campaign' = campaign
  BY CampaignStays
<1>1. ASSUME NEW j \in Jobs, Running(j), job[j].at \in DOMAIN Steps(j), RunStep(j) PROVE CampaignInv'
  <2>1. DOMAIN world' = DOMAIN world
    BY <1>1, WorldStays DEF CampaignInv
  <2>2. \A p \in DOMAIN files' : p[1] = "c4" => "c4" \in campaign.scripts
    BY <1>1, CampaignFiles
  <2>3. ASSUME NEW k \in Jobs, Running(k)'
        PROVE  k \in campaign.jobs /\ job'[k].script \in campaign.scripts
    <3>1. CASE k = j
      BY <1>1, <2>3, <3>1 DEF RunStep, RunMoves, GoneOn, Running, Idle, CampaignInv
    <3>2. CASE k # j
      BY <1>1, <2>3, <3>2 DEF RunStep, OthersStay, Running, CampaignInv
    <3> QED
      BY <3>1, <3>2
  <2> QED
    BY <1>0, <2>1, <2>2, <2>3 DEF CampaignInv
<1>2. ASSUME NEW j \in Jobs, Turns(j) PROVE CampaignInv'
  <2>1. ASSUME NEW k \in Jobs, Running(k)'
        PROVE  k \in campaign.jobs /\ job'[k].script \in campaign.scripts
    BY <1>2, <2>1 DEF Turns, OthersStay, Running, Idle, Begins, CampaignInv
  <2> QED
    BY <1>0, <1>2, <2>1 DEF CampaignInv, Turns
<1>3. CASE Rests
  BY <1>0, <1>3 DEF Rests, CampaignInv, Running
<1> QED
  BY <1>1, <1>2, <1>3, WhatHappens

LEMMA PinnedLearns ==
  ASSUME NEW j \in Jobs, Program = Programs, JobsOK, Running(j), job[j].at \in DOMAIN Steps(j),
         job[j].script \in Immutable, RunStep(j), GoneOn(j), PinnedInv
  PROVE  Learns(j) \cap Strange = {}
<1>0. IsRun(job[j]) /\ DOMAIN Steps(j) \subseteq Nat /\ Steps(j) = Programs[job[j].script]
  BY StepsOK, ProgramAssumption DEF IsRun, Steps
<1>1. PinnedStep(Steps(j), job[j].at)
  BY <1>0, ExperimentsArePinned DEF Immutable, Programs, PinnedSteps
<1>2. job[j].at - 1 \in DOMAIN Steps(j) => StillSo(Steps(j)[job[j].at - 1])
  BY DEF PinnedInv, LastIsSo
<1>3. CASE Step(j).op = "uses"
  <2>1. world[Step(j).item] = "pinned" /\ Step(j).item \in {"source", "llama"}
    BY <1>1, <1>2, <1>3 DEF PinnedStep, StillSo, Step
  <2>2. Learns(j) = {<<Step(j).item, "pinned">>}
    BY <1>3, <2>1 DEF Learns, Reading
  <2> QED
    BY <2>1, <2>2 DEF Strange
<1>4. CASE Step(j).op = "verifies"
  <2>1. Readable(Step(j)) /\ files[Step(j).path].from \cap Strange = {}
    BY <1>4 DEF GoneOn
  <2> QED
    BY <1>4, <2>1 DEF Learns, Reading
<1>5. CASE Step(j).op = "reads"
  <2>1. Readable(Step(j)) => files[Step(j).path].from \cap Strange = {}
    <3>1. CASE Step(j).path[1] \in Immutable
      BY <3>1 DEF PinnedInv, Readable
    <3>2. CASE Step(j).path[1] \notin Immutable
      <4>1. /\ job[j].at - 1 \in DOMAIN Steps(j) /\ Steps(j)[job[j].at - 1].op = "verifies"
            /\ Steps(j)[job[j].at - 1].path = Step(j).path
        BY <1>1, <1>5, <3>2 DEF PinnedStep, Step
      <4>2. PinnedStep(Steps(j), job[j].at - 1)
        BY <1>0, <4>1, ExperimentsArePinned DEF Immutable, Programs, PinnedSteps
      <4> QED
        BY <1>2, <4>1, <4>2 DEF PinnedStep, StillSo
    <3> QED
      BY <3>1, <3>2
  <2> QED
    BY <1>5, <2>1 DEF Learns, Reading
<1>6. CASE Step(j).op \notin {"uses", "verifies", "reads"}
  <2>1. Step(j).op \notin {"unless", "expects"}
    BY <1>1 DEF PinnedStep, Step
  <2>2. Step(j).op \notin Reading
    BY <1>6, <2>1 DEF Reading
  <2>3. CASE Step(j).op = "probes"
    BY <2>2, <2>3 DEF Learns, Strange, Reading
  <2>4. CASE Step(j).op = "chooses"
    BY <2>2, <2>4 DEF Learns, Strange, Reading
  <2>5. CASE Step(j).op \notin {"probes", "chooses"}
    BY <1>6, <2>2, <2>5 DEF Learns
  <2> QED
    BY <2>3, <2>4, <2>5
<1> QED
  BY <1>3, <1>4, <1>5, <1>6

LEMMA PinnedFiles ==
  ASSUME NEW j \in Jobs, Program = Programs, JobsOK, Running(j), job[j].at \in DOMAIN Steps(j),
         RunStep(j), PinnedInv, NEW p \in DOMAIN files', p[1] \in Immutable
  PROVE  files'[p].from \cap Strange = {}
<1>0. /\ IsRun(job[j]) /\ DOMAIN Steps(j) \subseteq Nat /\ FilesMove(j)
      /\ job[j].script \in DOMAIN Programs /\ Steps(j) = Programs[job[j].script]
  BY StepsOK, ProgramAssumption DEF IsRun, RunStep, Steps
<1>1. CASE p \in DOMAIN files /\ files'[p] = files[p]
  BY <1>1 DEF PinnedInv
<1>2. ASSUME NEW names, NEW entry, Leaves(j, names, entry), p \in names, files'[p] = entry
      PROVE  files'[p].from \cap Strange = {}
  <2>1. job[j].script \in Immutable
    BY <1>0, <1>2, NamesAtHome, HomesOfResults
  <2>2. job[j].from \cap Strange = {}
    BY <2>1 DEF PinnedInv
  <2>3. PinnedStep(Steps(j), job[j].at)
    BY <1>0, <2>1, ExperimentsArePinned DEF Immutable, Programs, PinnedSteps
  <2>4. Step(j).op # "captures"
    BY <2>3 DEF PinnedStep, Step
  <2> QED
    BY <1>2, <2>2, <2>4 DEF Leaves
<1> QED
  BY <1>0, <1>1, <1>2, FileMoves

\* A capture that an experiment knows is there stays as it is.
LEMMA CaptureStays ==
  ASSUME NEW j \in Jobs, NEW k \in Jobs, Program = Programs, CapturesAlone,
         JobsOK, CampaignInv, Running(j), job[j].at \in DOMAIN Steps(j), RunStep(j),
         Running(k), job[k].script \in Immutable, NEW p \in DOMAIN files, p[1] = "c4"
  PROVE  p \in DOMAIN files' /\ files'[p] = files[p]
<1>0. IsRun(job[j]) /\ job[j].script \in DOMAIN Programs /\ FilesMove(j)
  BY StepsOK, ProgramAssumption DEF IsRun, RunStep
<1>1. j = k
  BY DEF CampaignInv, CapturesAlone
<1>2. "c4" \notin Home[job[j].script]
  BY <1>0, <1>1, HomesOfResults DEF Immutable
<1>3. p \in DOMAIN files'
  BY <1>0, FilesGrow
<1> QED
  BY <1>0, <1>2, <1>3, FileMoves, NamesAtHome

LEMMA StaysSo ==
  ASSUME NEW j \in Jobs, NEW k \in Jobs, Program = Programs, CapturesAlone,
         JobsOK, CampaignInv, Running(j), job[j].at \in DOMAIN Steps(j), RunStep(j),
         Running(k), job[k].script \in Immutable, NEW step, StillSo(step)
  PROVE  StillSo(step)'
<1>1. world'["source"] = world["source"] /\ world'["llama"] = world["llama"]
  BY WorldStays DEF CampaignInv
<1>2. ASSUME step.op = "verifies", step.path[1] = "c4"
      PROVE  step.path \in DOMAIN files' /\ files'[step.path].from \cap Strange = {}
  <2>1. step.path \in DOMAIN files /\ files[step.path].from \cap Strange = {}
    BY <1>2 DEF StillSo, Readable
  <2> QED
    BY <1>2, <2>1, CaptureStays
<1> QED
  BY <1>1, <1>2 DEF StillSo, Readable

LEMMA PinnedRuns ==
  ASSUME NEW j \in Jobs, Program = Programs, CapturesAlone, JobsOK, CampaignInv,
         Running(j), job[j].at \in DOMAIN Steps(j), RunStep(j), PinnedInv,
         NEW k \in Jobs, Running(k)', job'[k].script \in Immutable
  PROVE  job'[k].from \cap Strange = {} /\ LastIsSo(k)'
<1>1. CASE k # j
  <2>1. job'[k] = job[k] /\ Running(k) /\ Steps(k)' = Steps(k)
    BY <1>1 DEF RunStep, OthersStay, Running, Steps
  <2>2. job[k].at - 1 \in DOMAIN Steps(k) => StillSo(Steps(k)[job[k].at - 1])
    BY <2>1 DEF PinnedInv, LastIsSo
  <2>3. PICK step : step = Steps(k)[job[k].at - 1]
    OBVIOUS
  <2>4. job[k].at - 1 \in DOMAIN Steps(k) => StillSo(step)'
    BY <2>1, <2>2, <2>3, StaysSo
  <2> QED
    BY <2>1, <2>3, <2>4 DEF PinnedInv, LastIsSo
<1>2. CASE k = j
  <2>0. IsRun(job[j]) /\ DOMAIN Steps(j) \subseteq Nat
    BY StepsOK
  <2>1. GoneOn(j)
    BY <1>2 DEF RunStep, RunMoves, Running, Idle
  <2>2. job[j].script \in Immutable /\ Steps(j)' = Steps(j)
    BY <1>2, <2>1 DEF GoneOn, Steps
  <2>3. PinnedStep(Steps(j), job[j].at)
    BY <2>0, <2>2, ExperimentsArePinned, ProgramAssumption DEF Immutable, Programs, PinnedSteps, Steps
  <2>4. job'[j].from \cap Strange = {}
    <3>1. job[j].from \cap Strange = {} /\ Learns(j) \cap Strange = {}
      BY <2>1, <2>2, PinnedLearns DEF PinnedInv
    <3> QED
      BY <2>1, <3>1 DEF GoneOn
  <2>5. CASE job'[j].at = job[j].at + 1
    <3>1. job'[j].at - 1 = job[j].at
      BY <2>0, <2>5 DEF IsRun
    <3>2. Step(j).op = "needs" => world[Step(j).item] \in Step(j).versions
      BY <2>1 DEF GoneOn
    <3>3. Step(j).op = "verifies" => Readable(Step(j)) /\ files[Step(j).path].from \cap Strange = {}
      BY <2>1 DEF GoneOn
    <3>4. PICK step : step = Step(j)
      OBVIOUS
    <3>5. StillSo(step)
      BY <3>2, <3>3, <3>4 DEF StillSo
    <3>6. StillSo(step)'
      BY <2>2, <3>5, StaysSo
    <3> QED
      BY <1>2, <2>2, <2>4, <3>1, <3>4, <3>6 DEF Step, LastIsSo
  <2>6. CASE job'[j].at # job[j].at + 1
    <3>1. Step(j).op = "perhaps" /\ job'[j].at = job[j].at + 1 + 1
      BY <2>0, <2>1, <2>3, <2>6 DEF GoneOn, PinnedStep, Step, IsRun
    <3>2. job'[j].at - 1 = job[j].at + 1
      BY <2>0, <3>1 DEF IsRun
    <3>3. Steps(j)[job[j].at + 1].op = "opens"
      BY <2>3, <3>1 DEF PinnedStep, Step
    <3>4. PICK step : step = Steps(j)[job[j].at + 1]
      OBVIOUS
    <3>5. StillSo(step)'
      BY <3>3, <3>4 DEF StillSo
    <3> QED
      BY <1>2, <2>2, <2>4, <3>2, <3>4, <3>5 DEF LastIsSo
  <2> QED
    BY <2>5, <2>6
<1> QED
  BY <1>1, <1>2

\* While a run does nothing and nothing is changed.
LEMMA IdlesSo ==
  ASSUME NEW k \in Jobs, job'[k] = job[k], files' = files, world' = world, LastIsSo(k)
  PROVE  LastIsSo(k)'
<1> DEFINE step == Steps(k)[job[k].at - 1]
<1>1. Steps(k)' = Steps(k) /\ (job[k].at - 1)' = job[k].at - 1
  BY DEF Steps
<1>2. StillSo(step) => StillSo(step)'
  BY DEF StillSo, Readable, Steps
<1> HIDE DEF step
<1> QED
  BY <1>1, <1>2 DEF LastIsSo, step

LEMMA StepPinned ==
  ASSUME Program = Programs, CapturesAlone, JobsOK, CampaignInv, PinnedInv, [ChainNext]_chainVars
  PROVE  PinnedInv'
<1>1. ASSUME NEW j \in Jobs, Running(j), job[j].at \in DOMAIN Steps(j), RunStep(j) PROVE PinnedInv'
  BY <1>1, PinnedFiles, PinnedRuns DEF PinnedInv
<1>2. ASSUME NEW j \in Jobs, Turns(j) PROVE PinnedInv'
  <2>1. files' = files /\ world' = world
    BY <1>2 DEF Turns
  <2>2. ASSUME NEW k \in Jobs, Running(k)'
        PROVE  job'[k] = job[k] \/ (job'[k].from = {} /\ job'[k].at = 1 /\ job'[k].script \in Scripts)
    BY <1>2, <2>2 DEF Turns, OthersStay, Running, Idle, Begins
  <2>3. ASSUME NEW k \in Jobs, Running(k)', job'[k].at = 1, job'[k].script \in Scripts
        PROVE  job'[k].at - 1 \notin DOMAIN Steps(k)'
    BY SMTT(60), <2>3, ProgramAssumption DEF Steps
  <2>4. ASSUME NEW k \in Jobs, Running(k)', job'[k].script \in Immutable, job'[k] = job[k]
        PROVE  job'[k].from \cap Strange = {} /\ LastIsSo(k)'
    <3>1. Running(k) /\ job[k].script \in Immutable
      BY <2>4 DEF Running
    <3>2. job[k].from \cap Strange = {} /\ LastIsSo(k)
      BY <3>1 DEF PinnedInv
    <3> QED
      BY <2>1, <2>4, <3>2, IdlesSo
  <2> QED
    BY <2>1, <2>2, <2>3, <2>4 DEF PinnedInv, LastIsSo
<1>3. CASE Rests
  <2>1. CASE world' = world
    <3>1. ASSUME NEW k \in Jobs, LastIsSo(k) PROVE LastIsSo(k)'
      BY <1>3, <2>1, <3>1, IdlesSo DEF Rests
    <3> QED
      BY <1>3, <3>1 DEF Rests, PinnedInv, Running
  <2>2. CASE \A j \in Jobs : ~ Running(j)
    BY <1>3, <2>2 DEF Rests, PinnedInv, Running
  <2> QED
    BY <1>3, <2>1, <2>2 DEF Rests
<1> QED
  BY <1>1, <1>2, <1>3, WhatHappens

\* Where nobody else runs while the capture's gate may, no immutable result comes
\* from another model, another llama.cpp or a capture that was broken off.
THEOREM ResultsArePinned ==
  ASSUME Program = Programs, CapturesAlone, {"source", "llama"} \subseteq DOMAIN Original
  PROVE  ChainSpec => []DerivesFromPinned
<1>1. ChainInit => CampaignInv /\ PinnedInv
  BY DEF ChainInit, CampaignInv, PinnedInv, Running, Idle
<1>2. IInv /\ CampaignInv /\ PinnedInv /\ [ChainNext]_chainVars => CampaignInv' /\ PinnedInv'
  BY StepCampaign, StepPinned DEF IInv
<1>3. PinnedInv => DerivesFromPinned
  BY DEF PinnedInv, DerivesFromPinned
<1> QED
  BY <1>1, <1>2, <1>3, Owned, PTL DEF ChainSpec

=============================================================================
