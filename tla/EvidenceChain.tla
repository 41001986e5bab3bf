----------------------------- MODULE EvidenceChain -----------------------------
(* Qualification scripts that leave evidence for each other.  A run takes the  *)
(* steps of its script's main; runs follow each other, overlap, fail and are   *)
(* killed; what they find outside may change while nothing runs.  A file has   *)
(* the run that wrote it and marks for everything it was derived from, through *)
(* the files that the run had read.                                            *)
EXTENDS EvidenceSteps, Integers, FiniteSets

CONSTANTS
  Jobs,        \* processes that run scripts
  Scripts,
  Program,     \* the steps of each script
  Items,       \* what scripts find outside
  Versions,    \* what an item may be
  Original,    \* what each item is at first
  Protected,   \* directories that belong to one run
  Campaigns    \* which scripts are run, by how many processes, how often, with
               \* how many kills and changes of the outside

Lasting(step) == step.op \notin {"newdir", "unless", "perhaps"}

\* A run makes a protected directory anew before it writes there, and no step
\* that it may leave out does so.
ASSUME ProgramAssumption ==
  /\ DOMAIN Program = Scripts
  /\ \A s \in Scripts :
       /\ DOMAIN Program[s] \subseteq Nat \ {0}
       /\ \A i \in DOMAIN Program[s] :
            LET step == Program[s][i]
            IN /\ step.op \in {"writes", "captures"} =>
                    (step.dir \in Protected =>
                       \E m \in DOMAIN Program[s] : m < i /\ Program[s][m] = NewDir(step.dir))
               /\ step.op = "captures" => step.path[1] = step.dir
               /\ step.op \in {"unless", "perhaps"} =>
                    /\ step.over \in Nat
                    /\ \A m \in DOMAIN Program[s] :
                         m > i /\ m <= i + step.over => Lasting(Program[s][m])

VARIABLES
  campaign, world,
  dirs,             \* the directories there are, each with the run that made it
  files,            \* the files there are
  job,              \* what each process does
  runs,             \* runs started
  changes, kills    \* changes and kills that are left

chainVars == <<campaign, world, dirs, files, job, runs, changes, kills>>

Idle == [at |-> 0]

Running(j) == job[j].at > 0
Steps(j) == Program[job[j].script]
Step(j) == Steps(j)[job[j].at]

\* The step that is next, if there is one.
Now(j) == IF Running(j) /\ job[j].at \in DOMAIN Steps(j) THEN {Step(j)} ELSE {}

\* The run goes on with the step after n others, knowing more; or it ends.
GoesOver(j, n, marks) ==
  job' = [job EXCEPT ![j].at = @ + n + 1, ![j].from = @ \cup marks]
Goes(j, marks) == GoesOver(j, 0, marks)
Ends(j) == job' = [job EXCEPT ![j] = Idle]

Extended(f, keys, value) == [k \in DOMAIN f \cup keys |-> IF k \in keys THEN value ELSE f[k]]

Outside == <<campaign, world, runs, changes, kills>>

ChainInit ==
  /\ campaign \in Campaigns
  /\ world = Original
  /\ dirs = <<>> /\ files = <<>>
  /\ job = [j \in Jobs |-> Idle]
  /\ runs = 0
  /\ changes = campaign.changes /\ kills = campaign.kills

Start(j, s) ==
  /\ job[j] = Idle
  /\ j \in campaign.jobs /\ s \in campaign.scripts
  /\ runs < campaign.runs
  /\ runs' = runs + 1
  /\ job' = [job EXCEPT ![j] = [at |-> 1, script |-> s, run |-> runs + 1, from |-> {}, opened |-> {}]]
  /\ UNCHANGED <<campaign, world, dirs, files, changes, kills>>

Finish(j) ==
  /\ Running(j) /\ job[j].at \notin DOMAIN Steps(j)
  /\ Ends(j)
  /\ UNCHANGED <<Outside, dirs, files>>

\* The process is killed: what it has written stays.
Kill(j) ==
  /\ Running(j) /\ kills > 0
  /\ kills' = kills - 1
  /\ Ends(j)
  /\ UNCHANGED <<campaign, world, dirs, files, runs, changes>>

\* Somebody replaces a model, checks out another tree, while nothing runs.
Change(i, v) ==
  /\ changes > 0 /\ \A j \in Jobs : ~ Running(j)
  /\ i \in campaign.items /\ v \in Versions[i] \ {world[i]}
  /\ changes' = changes - 1
  /\ world' = [world EXCEPT ![i] = v]
  /\ UNCHANGED <<campaign, dirs, files, job, runs, kills>>

-----------------------------------------------------------------------------
(* Steps.                                                                      *)

CheckFresh(j, step) ==
  /\ step.op = "fresh"
  /\ IF step.dir \in DOMAIN dirs THEN Ends(j) ELSE Goes(j, {})
  /\ UNCHANGED <<Outside, dirs, files>>

MakeDir(j, step) ==
  /\ step.op = "dir"
  /\ dirs' = IF step.dir \in DOMAIN dirs THEN dirs ELSE Extended(dirs, {step.dir}, job[j].run)
  /\ Goes(j, {})
  /\ UNCHANGED <<Outside, files>>

\* A directory that is there is taken.
MakeNewDirAgain(j, step) ==
  /\ step.op = "newdir"
  /\ dirs' = Extended(dirs, {step.dir}, job[j].run)
  /\ Goes(j, {})
  /\ UNCHANGED <<Outside, files>>

\* mkdir raises FileExistsError for the later of two runs that both found
\* nothing when they started.
MakeNewDir(j, step) ==
  /\ step.op = "newdir"
  /\ IF step.dir \in DOMAIN dirs
       THEN Ends(j) /\ UNCHANGED dirs
       ELSE dirs' = Extended(dirs, {step.dir}, job[j].run) /\ Goes(j, {})
  /\ UNCHANGED <<Outside, files>>

Check(j, step) ==
  /\ step.op = "needs"
  /\ IF world[step.item] \in step.versions THEN Goes(j, {}) ELSE Ends(j)
  /\ UNCHANGED <<Outside, dirs, files>>

Use(j, step) ==
  /\ step.op = "uses"
  /\ Goes(j, {<<step.item, world[step.item]>>})
  /\ UNCHANGED <<Outside, dirs, files>>

Make(j, step) ==
  /\ step.op = "becomes"
  /\ world' = [world EXCEPT ![step.item] = step.version]
  /\ Goes(j, {})
  /\ UNCHANGED <<campaign, dirs, files, runs, changes, kills>>

RunTools(j, step) ==
  /\ step.op = "tools"
  /\ Goes(j, {}) \/ Ends(j)
  /\ UNCHANGED <<Outside, dirs, files>>

Measure(j, step) ==
  /\ step.op = "probes"
  /\ \E failed \in SUBSET step.names : Goes(j, {<<"failed", n>> : n \in failed})
  /\ UNCHANGED <<Outside, dirs, files>>

Readable(step) == step.path \in DOMAIN files

Read(j, step) ==
  /\ step.op = "reads"
  /\ IF Readable(step) THEN Goes(j, files[step.path].from) ELSE Ends(j)
  /\ UNCHANGED <<Outside, dirs, files>>

Expect(j, step) ==
  /\ step.op = "expects"
  /\ IF Readable(step) /\ files[step.path].says = step.says
       THEN Goes(j, files[step.path].from) ELSE Ends(j)
  /\ UNCHANGED <<Outside, dirs, files>>

\* What the pinned digests exclude.
Strange == {<<"source", "other">>, <<"llama", "other">>, <<"capture", "partial">>}

\* The digest is taken, and compared with nothing.
VerifyNothing(j, step) ==
  /\ step.op = "verifies"
  /\ IF Readable(step) THEN Goes(j, files[step.path].from) ELSE Ends(j)
  /\ UNCHANGED <<Outside, dirs, files>>

Verify(j, step) ==
  /\ step.op = "verifies"
  /\ IF Readable(step) /\ files[step.path].from \cap Strange = {}
       THEN Goes(j, files[step.path].from) ELSE Ends(j)
  /\ UNCHANGED <<Outside, dirs, files>>

Entry(j, marks, says) ==
  [by |-> job[j].run, script |-> job[j].script, from |-> job[j].from \cup marks, says |-> says]

\* The tool writes vector by vector: it may end, or be killed, in the middle.
Capture(j, step) ==
  /\ step.op = "captures"
  /\ \/ /\ files' = Extended(files, {step.path}, Entry(j, {}, "captured"))
        /\ Goes(j, {})
     \/ /\ files' = Extended(files, {step.path}, Entry(j, {<<"capture", "partial">>}, "captured"))
        /\ Ends(j)
  /\ UNCHANGED <<Outside, dirs>>

SkipIfThere(j, step) ==
  /\ step.op = "unless"
  /\ IF Readable(step) THEN GoesOver(j, step.over, files[step.path].from) ELSE Goes(j, {})
  /\ UNCHANGED <<Outside, dirs, files>>

SkipPerhaps(j, step) ==
  /\ step.op = "perhaps"
  /\ Goes(j, {}) \/ GoesOver(j, step.over, {})
  /\ UNCHANGED <<Outside, dirs, files>>

Open(j, step) ==
  /\ step.op = "opens"
  /\ job' = [job EXCEPT ![j].at = @ + 1, ![j].opened = @ \cup {step.data}]
  /\ UNCHANGED <<Outside, dirs, files>>

Choose(j, step) ==
  /\ step.op = "chooses"
  /\ Goes(j, {<<"chosen-by", step.data>>} \cup {<<"chosen-after", d>> : d \in job[j].opened})
  /\ UNCHANGED <<Outside, dirs, files>>

\* The first n files of a step that writes.
First(step, n) == {<<step.dir, step.files[i]>> : i \in 1..n}

Write(j, step) ==
  /\ step.op = "writes"
  /\ files' = Extended(files, First(step, Len(step.files)), Entry(j, {}, step.says))
  /\ Goes(j, {})
  /\ UNCHANGED <<Outside, dirs>>

KillWriting(j, step) ==
  /\ step.op = "writes" /\ kills > 0
  /\ kills' = kills - 1
  /\ \E n \in 1..(Len(step.files) - 1) :
       files' = Extended(files, First(step, n), Entry(j, {}, step.says))
  /\ Ends(j)
  /\ UNCHANGED <<campaign, world, dirs, runs, changes>>

Take(j, step) ==
  \/ CheckFresh(j, step) \/ MakeDir(j, step) \/ MakeNewDir(j, step)
  \/ Check(j, step) \/ Use(j, step) \/ Make(j, step) \/ RunTools(j, step)
  \/ Measure(j, step) \/ Read(j, step) \/ Expect(j, step) \/ Verify(j, step)
  \/ Capture(j, step) \/ SkipIfThere(j, step) \/ SkipPerhaps(j, step)
  \/ Open(j, step) \/ Choose(j, step) \/ Write(j, step) \/ KillWriting(j, step)

ChainNext ==
  \/ \E j \in Jobs :
       \/ \E s \in Scripts : Start(j, s)
       \/ Finish(j) \/ Kill(j)
       \/ \E step \in Now(j) : Take(j, step)
  \/ \E i \in Items, v \in UNION {Versions[k] : k \in Items} : Change(i, v)

ChainSpec == ChainInit /\ [][ChainNext]_chainVars

-----------------------------------------------------------------------------
(* Properties.                                                                 *)

\* The files of a protected directory come from one run, although two may have
\* found the directory absent, and although runs are killed in the middle.
OneRunPerDirectory ==
  \A p, q \in DOMAIN files :
    p[1] \in Protected /\ q[1] = p[1] => files[p].by = files[q].by

\* What is in a protected directory stays, and stays that run's.
EvidenceIsKept ==
  [][\A p \in DOMAIN files : p[1] \in Protected =>
       p \in DOMAIN files' /\ files'[p].by = files[p].by]_chainVars

=============================================================================
