------------------------- MODULE ProvisionerProofs -------------------------
(***************************************************************************)
(* Proofs about Provisioner, for every value of the constants that         *)
(* satisfies ConstantsAssumption.                                          *)
(***************************************************************************)
EXTENDS Provisioner, TLAPS

USE ConstantsAssumption

-----------------------------------------------------------------------------
(***************************************************************************)
(* Facts about the data the actions build.                                 *)
(***************************************************************************)

(* Every artifact location of every command line is a file of the model.  *)
LEMMA LocsInFileIds ==
    ASSUME NEW a \in Args, NEW k \in Artifacts
    PROVE  Locs(a)[k] \in FileIds
BY DEF FileIds

(* The four artifacts of one command line go to four different files.     *)
LEMMA LocsInjective ==
    ASSUME NEW a \in Args, NEW k1 \in Artifacts, NEW k2 \in Artifacts, k1 # k2
    PROVE  Locs(a)[k1] # Locs(a)[k2]
BY DEF Locs, TwFile, NirnFile, SandwichFile, SandwichName, S3File, Artifacts

(* A stripped input is one of the values get_var can return.             *)
LEMMA StripInValues ==
    ASSUME NEW x \in Str
    PROVE  Strip(x) \in Values
BY DEF Values

(* The argparse defaults are a command line of the model.                *)
LEMMA DefaultArgsType == DefaultArgs \in Args
<1>1. DockerConf \in OutPaths /\ NoPath \in LocalPaths \cup {NoPath}
  OBVIOUS
<1>2. QED
  BY <1>1 DEF DefaultArgs, Args

(* The values an artifact takes from the current run have their types.   *)
LEMMA RunValuesType ==
    ASSUME TypeOK
    PROVE  /\ vals["CLIENT_ID"] \in InputVal
           /\ vals["CLIENT_SECRET"] \in InputVal
           /\ vals["BOT_TOKEN"] \in InputVal
           /\ vals["SANDWICH_ALERT_WEBHOOK"] \in InputVal
           /\ FakeToken \in TokenVal
           /\ Secret("s3_access_key") \in SecretVal
           /\ Secret("s3_secret_key") \in SecretVal
           /\ run \in Nat
<1>1. vals \in [VarNames -> InputVal] /\ run \in Nat
  BY DEF TypeOK
<1>2. QED
  BY <1>1 DEF VarNames, FakeToken, B64, Secret, TokenVal, SecretVal, SecretNames

(* The object-storage sections of both scripts have the type of a        *)
(* storage record.                                                        *)
LEMMA StorageType ==
    ASSUME TypeOK, NEW a \in Args
    PROVE  DockerStorage \in StorageVal /\ Storage(a) \in StorageVal
<1>1. DockerStorage \in StorageVal
  BY RunValuesType DEF DockerStorage, StorageVal
<1>2. QED
  BY <1>1 DEF Storage, Placeholder, Args, StorageVal, PlaceholderVal

(* What a write or a truncation puts in a file has the type of a content. *)
LEMMA RenderedType ==
    ASSUME TypeOK, NEW k \in Artifacts
    PROVE  Rendered[k] \in Content /\ Torn \in Content
<1>1. args \in Args /\ DefaultArgs \in Args
  BY DefaultArgsType DEF TypeOK
<1>2. TwConfig \in Content
  BY <1>1, RunValuesType, StorageType
  DEF TwConfig, SandwichName, ProxyUrl, PgUrl, Content, RelayVal, ProxyVal, PgVal
<1>3. DockerTwConfig \in Content
  BY <1>1, RunValuesType, StorageType
  DEF DockerTwConfig, ProxyUrl, PgUrl, DefaultArgs, Content, RelayVal, ProxyVal, PgVal
<1>4. NirnSecrets \in Content
  BY RunValuesType DEF NirnSecrets, Content
<1>5. SandwichYaml \in Content
  BY RunValuesType DEF SandwichYaml, Content
<1>6. S3Json \in Content
  BY RunValuesType DEF S3Json, Content
<1>7. Torn \in Content
  BY RunValuesType DEF Torn, Content
<1>8. QED
  BY <1>2, <1>3, <1>4, <1>5, <1>6, <1>7 DEF Rendered, Artifacts

(* Both scripts have a fixed number of lines.                            *)
LEMMA OrderLen ==
    ASSUME NEW s \in Scripts
    PROVE  Len(Order(s)) = IF s = "setup" THEN 16 ELSE 14
BY DEF Order, SetupOrder, DockerOrder, Scripts

(* In both scripts every input is read, and every artifact opened, before *)
(* that artifact is written.                                              *)
LEMMA ReadsAndOpenBeforeWrite ==
    ASSUME NEW s \in Scripts, NEW k \in Artifacts,
           NEW i \in 1..Len(Order(s)), NEW j \in 1..Len(Order(s)),
           Order(s)[i] = WriteStep[k],
           Order(s)[j] \in VarNames \cup {OpenStep[k]}
    PROVE  j < i
<1>1. CASE s = "setup"
  BY <1>1, OrderLen DEF Order, SetupOrder, WriteStep, OpenStep, VarNames, Artifacts
<1>2. CASE s = "docker_setup"
  BY <1>2, OrderLen DEF Order, DockerOrder, WriteStep, OpenStep, VarNames, Artifacts
<1>3. QED
  BY <1>1, <1>2 DEF Scripts

(* Both scripts write every artifact.                                     *)
LEMMA EveryArtifactWritten ==
    ASSUME NEW s \in Scripts, NEW k \in Artifacts
    PROVE  \E i \in 1..Len(Order(s)) : Order(s)[i] = WriteStep[k]
<1> DEFINE w == IF s = "setup"
                   THEN [tw |-> 9, nirn |-> 11, sandwich |-> 13, s3 |-> 16]
                   ELSE [tw |-> 7, nirn |-> 9, sandwich |-> 11, s3 |-> 14]
<1>1. CASE s = "setup"
  <2>1. w[k] \in 1..16
    BY <1>1 DEF Artifacts
  <2>2. Order(s)[w[k]] = WriteStep[k]
    BY <1>1 DEF Order, SetupOrder, WriteStep, Artifacts
  <2>3. QED
    BY <1>1, <2>1, <2>2, OrderLen
<1>2. CASE s = "docker_setup"
  <2>1. w[k] \in 1..14
    BY <1>2 DEF Artifacts
  <2>2. Order(s)[w[k]] = WriteStep[k]
    BY <1>2 DEF Order, DockerOrder, WriteStep, Artifacts
  <2>3. QED
    BY <1>2, <2>1, <2>2, OrderLen
<1>3. QED
  BY <1>1, <1>2 DEF Scripts

-----------------------------------------------------------------------------
(***************************************************************************)
(* Type correctness.                                                       *)
(***************************************************************************)

(* A step that moves to the next line keeps pc within the script.        *)
LEMMA AdvanceType ==
    ASSUME TypeOK, NEW step, At(step), Advance, script' = script
    PROVE  pc' \in 1..(Len(Order(script')) + 1)
BY DEF At, Advance, TypeOK

(* The initial states have the types TypeOK gives.                       *)
LEMMA TypeInit == Init => TypeOK
<1> SUFFICES ASSUME Init PROVE TypeOK
  OBVIOUS
<1>1. files \in [FileIds -> Content \cup {Absent}] /\ vals \in [VarNames -> InputVal]
  BY DEF Init, InputVal
<1>2. dirs \subseteq ManagedDirs
  BY DEF Init
<1>3. args \in Args
  BY DefaultArgsType DEF Init
<1>4. pc \in 1..(Len(Order(script)) + 1) /\ run \in 0..MaxRuns
  BY DEF Init, Order, SetupOrder
<1>5. QED
  BY <1>1, <1>2, <1>3, <1>4 DEF Init, TypeOK, Scripts
(* Every step of either script, or of the operator, keeps the types.     *)
LEMMA TypeStep == TypeOK /\ [Next]_vars => TypeOK'
<1> SUFFICES ASSUME TypeOK, [Next]_vars PROVE TypeOK'
  OBVIOUS
<1>1. ASSUME NEW s \in Scripts, NEW a \in ArgsOf(s), Start(s, a)
      PROVE  TypeOK'
  <2>1. a \in Args
    BY DefaultArgsType DEF ArgsOf
  <2>2. Len(Order(s)) \in Nat
    BY DEF Order, SetupOrder, DockerOrder
  <2>3. QED
    BY <1>1, <2>1, <2>2 DEF Start, TypeOK, InputVal
<1>2. CASE MakeDirs
  <2>1. dirs' \subseteq ManagedDirs
    BY <1>2 DEF MakeDirs, LocalDirs, TypeOK, Args, ManagedDirs
  <2>2. pc' \in 1..(Len(Order(script')) + 1)
    BY <1>2, AdvanceType DEF MakeDirs, Fail, At, TypeOK
  <2>3. QED
    BY <1>2, <2>1, <2>2 DEF MakeDirs, Fail, Advance, TypeOK
<1>3. CASE MakeDockerConf
  <2>1. pc' \in 1..(Len(Order(script')) + 1)
    BY <1>3, AdvanceType DEF MakeDockerConf, Fail, At, TypeOK
  <2>2. QED
    BY <1>3, <2>1 DEF MakeDockerConf, Fail, Advance, TypeOK, ManagedDirs
<1>4. ASSUME NEW v \in VarNames, GetVar(v)
      PROVE  TypeOK'
  <2>1. PICK x \in Str : Resolve(v, x)
    BY <1>4 DEF GetVar, TypedStr
  <2>2. vals' \in [VarNames -> InputVal]
    BY <2>1, StripInValues DEF Resolve, TypeOK, InputVal
  <2>3. pc' \in 1..(Len(Order(script')) + 1)
    BY <1>4, <2>1, AdvanceType DEF GetVar, Resolve
  <2>4. QED
    BY <1>4, <2>1, <2>2, <2>3 DEF GetVar, Resolve, Advance, TypeOK
<1>5. ASSUME NEW k \in Artifacts, Open(k)
      PROVE  TypeOK'
  <2>1. files' \in [FileIds -> Content \cup {Absent}]
    BY <1>5, LocsInFileIds, RenderedType DEF Open, TypeOK
  <2>2. pc' \in 1..(Len(Order(script')) + 1)
    BY <1>5, AdvanceType DEF Open
  <2>3. QED
    BY <1>5, <2>1, <2>2 DEF Open, Advance, TypeOK
<1>6. ASSUME NEW k \in Artifacts, Write(k)
      PROVE  TypeOK'
  <2>1. files' \in [FileIds -> Content \cup {Absent}]
    BY <1>6, LocsInFileIds, RenderedType DEF Write, TypeOK
  <2>2. pc' \in 1..(Len(Order(script')) + 1)
    BY <1>6, AdvanceType DEF Write
  <2>3. QED
    BY <1>6, <2>1, <2>2 DEF Write, Advance, TypeOK
<1>7. CASE MakeSeaweedDir
  <2>1. pc' \in 1..(Len(Order(script')) + 1)
    BY <1>7, AdvanceType DEF MakeSeaweedDir
  <2>2. QED
    BY <1>7, <2>1 DEF MakeSeaweedDir, Advance, TypeOK, ManagedDirs
<1>8. CASE Crash
  BY <1>8 DEF Crash, Fail, TypeOK
<1>9. CASE UNCHANGED vars
  BY <1>9 DEF vars, TypeOK
<1>10. QED
  BY <1>1, <1>2, <1>3, <1>4, <1>5, <1>6, <1>7, <1>8, <1>9 DEF Next

(* Every reachable state has the types TypeOK gives: the code's variables *)
(* never leave their domains, whatever the operator types, whichever      *)
(* script runs and wherever a run is interrupted.                         *)
THEOREM TypeCorrect == Spec => []TypeOK
BY TypeInit, TypeStep, PTL DEF Spec

-----------------------------------------------------------------------------
(***************************************************************************)
(* Completed runs leave a consistent environment.                          *)
(***************************************************************************)

(* The strengthening of CompletedRunConsistent that every step keeps.     *)
IInv == TypeOK /\ WrittenStepsHold

(* What a run renders depends only on its script, command line, inputs    *)
(* and run number, none of which the later lines of a run change.         *)
LEMMA RenderedUnchanged ==
    ASSUME vals' = vals, run' = run, script' = script, args' = args
    PROVE  Rendered' = Rendered
BY DEF Rendered, TwConfig, DockerTwConfig, NirnSecrets, SandwichYaml, S3Json,
       FakeToken, Secret, Storage, DockerStorage

(* The four artifacts one run renders refer to one another.               *)
LEMMA RenderedConsistent ==
    ASSUME TypeOK
    PROVE  LET tw == Rendered["tw"]
               ni == Rendered["nirn"]
               sw == Rendered["sandwich"]
               s3 == Rendered["s3"]
           IN  /\ tw \in Content /\ tw.kind = "tw"
               /\ ni \in Content /\ ni.kind = "nirn"
               /\ sw \in Content /\ sw.kind = "sandwich"
               /\ s3 \in Content /\ s3.kind = "s3"
               /\ tw.token = ni.key
               /\ sw.expected = ni.key
               /\ sw.token = ni.value
               /\ tw.client_id = sw.client_id
               /\ tw.client_secret = sw.client_secret
<1>1. \A k \in Artifacts : Rendered[k] \in Content
  BY RenderedType
<1>2. QED
  BY <1>1 DEF Artifacts, Rendered, TwConfig, DockerTwConfig, NirnSecrets,
              SandwichYaml, S3Json

(* The inductive invariant holds initially.                               *)
LEMMA IInvInit == Init => IInv
BY TypeInit DEF Init, IInv, WrittenStepsHold

(* A line that writes no artifact and changes neither the files nor what  *)
(* a run renders keeps WrittenStepsHold, whether it completes or fails.   *)
LEMMA QuietStep ==
    ASSUME IInv, NEW step, At(step), step \notin {WriteStep[k] : k \in Artifacts},
           files' = files, vals' = vals, run' = run, script' = script, args' = args,
           Advance \/ Fail
    PROVE  WrittenStepsHold'
<1>1. Rendered' = Rendered
  BY RenderedUnchanged
<1>2. CASE Advance
  <2>1. status' = "done" => pc' = Len(Order(script')) + 1
    BY <1>2 DEF Advance
  <2>2. ASSUME status' \in {"running", "done"}, NEW k \in Artifacts,
               NEW i \in 1..(pc' - 1), Order(script')[i] = WriteStep[k]
        PROVE  files'[Locs(args')[k]] = Rendered'[k]
    <3>1. i # pc
      BY <2>2, <1>2 DEF At, Advance
    <3>2. i \in 1..(pc - 1)
      BY <2>2, <3>1, <1>2 DEF Advance, IInv, TypeOK
    <3>3. QED
      BY <2>2, <3>2, <1>1 DEF IInv, WrittenStepsHold, At
  <2>3. QED
    BY <2>1, <2>2 DEF WrittenStepsHold
<1>3. CASE Fail
  BY <1>3 DEF Fail, WrittenStepsHold
<1>4. QED
  BY <1>2, <1>3

(* Every step keeps the inductive invariant.                              *)
LEMMA IInvStep == IInv /\ [Next]_vars => IInv'
<1> SUFFICES ASSUME IInv, [Next]_vars PROVE IInv'
  OBVIOUS
<1>0. TypeOK'
  BY TypeStep DEF IInv
<1> SUFFICES WrittenStepsHold'
  BY <1>0 DEF IInv
<1> USE DEF IInv
<1>1. ASSUME NEW s \in Scripts, NEW a \in ArgsOf(s), Start(s, a)
      PROVE  WrittenStepsHold'
  BY <1>1 DEF Start, WrittenStepsHold
<1>2. CASE MakeDirs
  <2>1. At("mkdirs") /\ (Advance \/ Fail)
        /\ files' = files /\ vals' = vals /\ run' = run
        /\ script' = script /\ args' = args
    BY <1>2 DEF MakeDirs
  <2>2. "mkdirs" \notin {WriteStep[k] : k \in Artifacts}
    BY DEF WriteStep, Artifacts
  <2>3. QED
    BY <2>1, <2>2, QuietStep
<1>3. CASE MakeDockerConf
  <2>1. At("mkdir_dockerconf") /\ (Advance \/ Fail)
        /\ files' = files /\ vals' = vals /\ run' = run
        /\ script' = script /\ args' = args
    BY <1>3 DEF MakeDockerConf
  <2>2. "mkdir_dockerconf" \notin {WriteStep[k] : k \in Artifacts}
    BY DEF WriteStep, Artifacts
  <2>3. QED
    BY <2>1, <2>2, QuietStep
<1>4. CASE MakeSeaweedDir
  <2>1. At("mkdir_seaweed") /\ (Advance \/ Fail)
        /\ files' = files /\ vals' = vals /\ run' = run
        /\ script' = script /\ args' = args
    BY <1>4 DEF MakeSeaweedDir
  <2>2. "mkdir_seaweed" \notin {WriteStep[k] : k \in Artifacts}
    BY DEF WriteStep, Artifacts
  <2>3. QED
    BY <2>1, <2>2, QuietStep
<1>5. CASE Crash
  <2>1. status' = "failed"
    BY <1>5 DEF Crash, Fail
  <2>2. QED
    BY <2>1 DEF WrittenStepsHold
<1>6. ASSUME NEW v \in VarNames, GetVar(v)
      PROVE  WrittenStepsHold'
  <2>1. PICK x \in Str : Resolve(v, x)
    BY <1>6 DEF GetVar, TypedStr
  <2>2. status' = "done" => pc' = Len(Order(script')) + 1
    BY <1>6, <2>1 DEF GetVar, Resolve, Advance
  <2>3. ASSUME NEW k \in Artifacts, NEW i \in 1..(pc' - 1),
               Order(script')[i] = WriteStep[k]
        PROVE  FALSE
    <3>1. pc \in 1..Len(Order(script)) /\ Order(script)[pc] = v
      BY <1>6 DEF GetVar, At
    <3>2. i \in 1..Len(Order(script)) /\ i <= pc /\ Order(script)[i] = WriteStep[k]
      BY <1>6, <2>1, <2>3, <3>1 DEF GetVar, Resolve, Advance, TypeOK
    <3>3. pc < i
      BY <3>1, <3>2, ReadsAndOpenBeforeWrite DEF TypeOK
    <3>4. QED
      BY <3>2, <3>3 DEF TypeOK
  <2>4. QED
    BY <2>2, <2>3 DEF WrittenStepsHold
<1>7. ASSUME NEW k \in Artifacts, Open(k)
      PROVE  WrittenStepsHold'
  <2>1. status' = "done" => pc' = Len(Order(script')) + 1
    BY <1>7 DEF Open, Advance
  <2>2. ASSUME status' \in {"running", "done"}, NEW k2 \in Artifacts,
               NEW i \in 1..(pc' - 1), Order(script')[i] = WriteStep[k2]
        PROVE  files'[Locs(args')[k2]] = Rendered'[k2]
    <3>1. pc \in 1..Len(Order(script)) /\ Order(script)[pc] = OpenStep[k]
      BY <1>7 DEF Open, At
    <3>2. i \in 1..(pc - 1) /\ Order(script)[i] = WriteStep[k2]
      <4>1. pc' = pc + 1 /\ script' = script
        BY <1>7 DEF Open, Advance
      <4>2. OpenStep[k] # WriteStep[k2]
        BY DEF OpenStep, WriteStep, Artifacts
      <4>3. i # pc
        BY <2>2, <3>1, <4>1, <4>2
      <4>4. QED
        BY <2>2, <3>1, <4>1, <4>3 DEF TypeOK
    <3>3. k2 # k
      BY <3>1, <3>2, ReadsAndOpenBeforeWrite DEF TypeOK
    <3>4. Locs(args)[k2] # Locs(args)[k] /\ Locs(args)[k2] \in FileIds
      BY <3>3, LocsInjective, LocsInFileIds DEF TypeOK
    <3>5. files'[Locs(args)[k2]] = files[Locs(args)[k2]]
      BY <1>7, <3>4 DEF Open, TypeOK
    <3>6. files[Locs(args)[k2]] = Rendered[k2]
      BY <1>7, <3>2 DEF At, Open, WrittenStepsHold
    <3>7. Rendered' = Rendered
      BY <1>7, RenderedUnchanged DEF Open
    <3>8. QED
      BY <1>7, <3>5, <3>6, <3>7 DEF Open
  <2>3. QED
    BY <2>1, <2>2 DEF WrittenStepsHold
<1>8. ASSUME NEW k \in Artifacts, Write(k)
      PROVE  WrittenStepsHold'
  <2>1. status' = "done" => pc' = Len(Order(script')) + 1
    BY <1>8 DEF Write, Advance
  <2>2. ASSUME status' \in {"running", "done"}, NEW k2 \in Artifacts,
               NEW i \in 1..(pc' - 1), Order(script')[i] = WriteStep[k2]
        PROVE  files'[Locs(args')[k2]] = Rendered'[k2]
    <3>1. Rendered' = Rendered
      BY <1>8, RenderedUnchanged DEF Write
    <3>2. Locs(args)[k2] \in FileIds /\ Locs(args)[k] \in FileIds
      BY LocsInFileIds DEF TypeOK
    <3>3. CASE k2 = k
      BY <1>8, <3>1, <3>2, <3>3 DEF Write, TypeOK
    <3>4. CASE k2 # k
      <4>1. pc \in 1..Len(Order(script)) /\ Order(script)[pc] = WriteStep[k]
        BY <1>8 DEF Write, At
      <4>2. i \in 1..(pc - 1)
        BY <1>8, <2>2, <3>4, <4>1 DEF Write, Advance, WriteStep, Artifacts, TypeOK
      <4>3. files[Locs(args)[k2]] = Rendered[k2]
        BY <1>8, <2>2, <4>2 DEF At, Write, WrittenStepsHold
      <4>4. Locs(args)[k2] # Locs(args)[k]
        BY <3>4, LocsInjective DEF TypeOK
      <4>5. QED
        BY <1>8, <3>1, <3>2, <4>3, <4>4 DEF Write, TypeOK
    <3>5. QED
      BY <3>3, <3>4
  <2>3. QED
    BY <2>1, <2>2 DEF WrittenStepsHold
<1>9. CASE UNCHANGED vars
  <2>1. Rendered' = Rendered
    BY <1>9, RenderedUnchanged DEF vars
  <2>2. /\ status' = status /\ pc' = pc /\ script' = script
        /\ args' = args /\ files' = files
    BY <1>9 DEF vars
  <2>3. QED
    BY <2>1, <2>2 DEF WrittenStepsHold
<1>10. QED
  BY <1>1, <1>2, <1>3, <1>4, <1>5, <1>6, <1>7, <1>8, <1>9 DEF Next

(* The inductive invariant gives a consistent environment once a run is   *)
(* done: the run has passed every write line, and each write still holds. *)
LEMMA IInvConsistent == IInv => CompletedRunConsistent
<1> SUFFICES ASSUME IInv, status = "done" PROVE EnvironmentConsistent(args)
  BY DEF CompletedRunConsistent
<1>1. \A k \in Artifacts : files[Locs(args)[k]] = Rendered[k]
  <2> TAKE k \in Artifacts
  <2>1. PICK i \in 1..Len(Order(script)) : Order(script)[i] = WriteStep[k]
    BY EveryArtifactWritten DEF IInv, TypeOK
  <2>2. pc = Len(Order(script)) + 1
    BY DEF IInv, WrittenStepsHold
  <2>3. QED
    BY <2>1, <2>2 DEF IInv, WrittenStepsHold
<1>2. QED
  BY <1>1, RenderedConsistent DEF IInv, EnvironmentConsistent, Artifacts

(* Whenever a script has printed "Done!", the four artifacts it wrote     *)
(* exist and refer to one another, for every set of paths, inputs and     *)
(* number of runs, whatever earlier runs of either script, complete or    *)
(* cut short, left in the same places.                                    *)
THEOREM CompletedRunCorrect == Spec => []CompletedRunConsistent
<1>1. Init => IInv
  BY IInvInit
<1>2. IInv /\ [Next]_vars => IInv'
  BY IInvStep
<1>3. IInv => CompletedRunConsistent
  BY IInvConsistent
<1>4. QED
  BY <1>1, <1>2, <1>3, PTL DEF Spec

(* In every state of every run, each artifact the current run has already *)
(* written still holds what the run rendered for it: no later line of the *)
(* run writes, truncates or changes the inputs of that artifact again.    *)
THEOREM WrittenStepsInvariant == Spec => []WrittenStepsHold
BY IInvInit, IInvStep, PTL DEF Spec, IInv

-----------------------------------------------------------------------------
(***************************************************************************)
(* The mode check of setup.py, which the docker proofs below rest on.     *)
(***************************************************************************)

(* A running script was started with a command line that passed setup.py *)
(* lines 26-28.                                                            *)
ModeOK == status = "running" => ~InvalidMode(script, args)

LEMMA ModeOKInit == Init => ModeOK
BY DEF Init, ModeOK

(* Only Start sets the command line, and it lets a script run only when  *)
(* the mode check passes; every later line keeps the command line.       *)
LEMMA ModeOKStep == ModeOK /\ [Next]_vars => ModeOK'
<1> SUFFICES ASSUME ModeOK, [Next]_vars PROVE ModeOK'
  OBVIOUS
<1>1. ASSUME NEW s \in Scripts, NEW a \in ArgsOf(s), Start(s, a) PROVE ModeOK'
  BY <1>1 DEF Start, ModeOK
<1>2. CASE UNCHANGED <<script, args>> /\ (status' = "running" => status = "running")
  BY <1>2 DEF ModeOK
<1>3. QED
  BY <1>1, <1>2
     DEF Next, MakeDirs, MakeDockerConf, GetVar, Resolve, Open, Write,
         MakeSeaweedDir, Crash, Advance, Fail, At, vars

-----------------------------------------------------------------------------
(***************************************************************************)
(* Inputs are read before anything is written.                             *)
(***************************************************************************)

(* The strengthening of InputsBeforeWrites that every step keeps: no file *)
(* is from a later run than the current one; every get_var line the run   *)
(* has passed has returned a value; and once a file of the current run    *)
(* exists, the run has passed all its get_var lines.                      *)
InputsIInv ==
    /\ \A f \in FileIds : files[f] # Absent => files[f].run <= run
    /\ \A j \in 1..(pc - 1) :
          Order(script)[j] \in VarNames => vals[Order(script)[j]] # NoVal
    /\ (\E f \in FileIds : files[f] # Absent /\ files[f].run = run) =>
          \A j \in 1..Len(Order(script)) : Order(script)[j] \in VarNames => j < pc

(* In both scripts every get_var line comes before every open line.       *)
LEMMA ReadsBeforeOpen ==
    ASSUME NEW s \in Scripts, NEW k \in Artifacts,
           NEW i \in 1..Len(Order(s)), NEW j \in 1..Len(Order(s)),
           Order(s)[i] = OpenStep[k], Order(s)[j] \in VarNames
    PROVE  j < i
<1>1. CASE s = "setup"
  BY <1>1, OrderLen DEF Order, SetupOrder, OpenStep, VarNames, Artifacts
<1>2. CASE s = "docker_setup"
  BY <1>2, OrderLen DEF Order, DockerOrder, OpenStep, VarNames, Artifacts
<1>3. QED
  BY <1>1, <1>2 DEF Scripts

(* What open and write put in a file belongs to the current run.          *)
LEMMA RenderedRun ==
    ASSUME NEW k \in Artifacts
    PROVE  Rendered[k].run = run /\ Torn.run = run
BY DEF Artifacts, Rendered, TwConfig, DockerTwConfig, NirnSecrets, SandwichYaml,
       S3Json, Torn

(* A line that is not a get_var, changes no file, no input and no run     *)
(* number, and advances or fails, keeps InputsIInv.                       *)
LEMMA NonReadStep ==
    ASSUME TypeOK, InputsIInv, NEW step, At(step), step \notin VarNames,
           files' = files, vals' = vals, run' = run, script' = script,
           Advance \/ Fail
    PROVE  InputsIInv'
<1>1. pc' \in {pc, pc + 1} /\ pc \in Nat
  BY DEF Advance, Fail, At
<1>2. Order(script)[pc] \notin VarNames
  BY DEF At
<1>3. QED
  BY <1>1, <1>2 DEF InputsIInv

(* An open or a write of artifact k at line pc: every get_var line lies   *)
(* before pc (lemmas ReadsBeforeOpen and ReadsAndOpenBeforeWrite).        *)
LEMMA FileStep ==
    ASSUME TypeOK, InputsIInv, NEW k \in Artifacts,
           NEW step \in {OpenStep[k], WriteStep[k]}, At(step),
           NEW c, c.run = run,
           files' = [files EXCEPT ![Locs(args)[k]] = c],
           vals' = vals, run' = run, script' = script, Advance
    PROVE  InputsIInv'
<1>1. pc' = pc + 1 /\ pc \in 1..Len(Order(script))
  BY DEF Advance, At
<1>2. \A j \in 1..Len(Order(script)) : Order(script)[j] \in VarNames => j < pc
  <2> TAKE j \in 1..Len(Order(script))
  <2>1. script \in Scripts
    BY DEF TypeOK
  <2>2. CASE step = OpenStep[k]
    BY <1>1, <2>1, <2>2, ReadsBeforeOpen DEF At
  <2>3. CASE step = WriteStep[k]
    BY <1>1, <2>1, <2>3, ReadsAndOpenBeforeWrite DEF At
  <2>4. QED
    BY <2>2, <2>3
<1>3. Order(script)[pc] \notin VarNames
  BY DEF At, OpenStep, WriteStep, VarNames, Artifacts
<1>4. \A f \in FileIds : files'[f] # Absent => files'[f].run <= run
  BY LocsInFileIds DEF InputsIInv, TypeOK
<1>5. QED
  BY <1>1, <1>2, <1>3, <1>4 DEF InputsIInv

LEMMA InputsInit == Init => InputsIInv
BY DEF Init, InputsIInv

LEMMA InputsStep == TypeOK /\ InputsIInv /\ [Next]_vars => InputsIInv'
<1> SUFFICES ASSUME TypeOK, InputsIInv, [Next]_vars PROVE InputsIInv'
  OBVIOUS
<1>1. ASSUME NEW s \in Scripts, NEW a \in ArgsOf(s), Start(s, a)
      PROVE  InputsIInv'
  <2>1. run \in Nat /\ run' = run + 1 /\ pc' = 1 /\ files' = files
    BY <1>1 DEF Start, TypeOK
  <2>2. \A f \in FileIds : files[f] # Absent => files[f].run \in Nat /\ files[f].run < run'
    BY <2>1 DEF InputsIInv, TypeOK, Content
  <2>3. QED
    BY <2>1, <2>2 DEF InputsIInv
<1>2. CASE MakeDirs
  BY <1>2, NonReadStep DEF MakeDirs, VarNames
<1>3. CASE MakeDockerConf
  BY <1>3, NonReadStep DEF MakeDockerConf, VarNames
<1>4. ASSUME NEW v \in VarNames, GetVar(v)
      PROVE  InputsIInv'
  <2>1. PICK x \in Str : Resolve(v, x)
    BY <1>4 DEF GetVar, TypedStr
  <2>2. vals'[v] # NoVal /\ vals' = [vals EXCEPT ![v] = Strip(x)]
    BY <2>1, StripInValues, NoValAssumption DEF Resolve, TypeOK
  <2>3. \A w \in VarNames : vals'[w] # NoVal \/ vals'[w] = vals[w]
    BY <2>2 DEF TypeOK
  <2>4. pc' = pc + 1 /\ pc \in 1..Len(Order(script)) /\ Order(script)[pc] = v
    BY <1>4, <2>1 DEF GetVar, Resolve, Advance, At
  <2>5. UNCHANGED <<script, run, files>>
    BY <1>4 DEF GetVar
  <2>6. ASSUME NEW j \in 1..(pc' - 1), Order(script')[j] \in VarNames
        PROVE  vals'[Order(script')[j]] # NoVal
    <3>1. CASE j = pc
      BY <2>2, <2>4, <2>5, <3>1
    <3>2. CASE j # pc
      BY <2>3, <2>4, <2>5, <2>6, <3>2 DEF InputsIInv
    <3>3. QED
      BY <3>1, <3>2
  <2>7. QED
    BY <2>4, <2>5, <2>6 DEF InputsIInv
<1>5. ASSUME NEW k \in Artifacts, Open(k) PROVE InputsIInv'
  BY <1>5, FileStep, RenderedRun DEF Open
<1>6. ASSUME NEW k \in Artifacts, Write(k) PROVE InputsIInv'
  BY <1>6, FileStep, RenderedRun DEF Write
<1>7. CASE MakeSeaweedDir
  BY <1>7, NonReadStep DEF MakeSeaweedDir, VarNames
<1>8. CASE Crash
  BY <1>8 DEF Crash, Fail, InputsIInv
<1>9. CASE UNCHANGED vars
  BY <1>9 DEF vars, InputsIInv
<1>10. QED
  BY <1>1, <1>2, <1>3, <1>4, <1>5, <1>6, <1>7, <1>8, <1>9 DEF Next

(* A run of either script writes or truncates no file before it has read *)
(* every input its get_var lines ask for, so EOF or Ctrl-C at a prompt    *)
(* leaves no file of that run behind, for every set of paths, inputs and  *)
(* number of runs.                                                        *)
THEOREM InputsFirst == Spec => []InputsBeforeWrites
<1>1. TypeOK /\ InputsIInv => InputsBeforeWrites
  BY DEF TypeOK, InputsIInv, InputsBeforeWrites
<1>2. QED
  BY <1>1, InputsInit, InputsStep, TypeInit, TypeStep, PTL DEF Spec

-----------------------------------------------------------------------------
(***************************************************************************)
(* docker/setup.py leaves earlier environments alone.                      *)
(***************************************************************************)

(* The four files docker/setup.py writes (its command line is always the *)
(* argparse defaults of setup.py).                                         *)
DockerLocs == {Locs(DefaultArgs)[k] : k \in Artifacts}

(* The strengthening of DockerSetupPreservesPrior that every step keeps:  *)
(* docker/setup.py runs with the defaults; a file at one of its four      *)
(* places exists only once ./deploy/dockerconf does; a docker-mode run    *)
(* past its first line has that directory; and a docker/setup.py run past *)
(* line 9, whose os.mkdir found no directory, sees only its own files     *)
(* there.                                                                  *)
DockerIInv ==
    /\ script = "docker_setup" => args = DefaultArgs
    /\ (\E f \in DockerLocs : files[f] # Absent) => DockerConf \in dirs
    /\ status = "running" /\ args.docker /\ pc > 1 => DockerConf \in dirs
    /\ status = "running" /\ script = "docker_setup" /\ pc > 1 =>
          \A f \in DockerLocs : files[f] # Absent => files[f].run = run

(* Only a docker-mode command line writes to the places docker/setup.py  *)
(* writes to: every other file name differs.                              *)
LEMMA DockerLocsNeedDocker ==
    ASSUME NEW a \in Args, NEW k \in Artifacts, Locs(a)[k] \in DockerLocs
    PROVE  a.docker
BY DEF DockerLocs, Locs, TwFile, NirnFile, SandwichFile, SandwichName, S3File,
       DefaultArgs, Artifacts, Args

(* Line 1 of each script is its mkdir: setup.py's makes the output path,  *)
(* docker/setup.py's makes ./deploy/dockerconf.                           *)
LEMMA FirstLines ==
    ASSUME TypeOK, NEW step, At(step)
    PROVE  /\ step = "mkdirs" => script = "setup"
           /\ step = "mkdir_dockerconf" => script = "docker_setup"
           /\ step \notin {"mkdirs", "mkdir_dockerconf"} => pc > 1
<1>1. script \in Scripts /\ pc \in 1..Len(Order(script))
  BY DEF TypeOK, At
<1>2. QED
  BY <1>1, OrderLen DEF At, Order, SetupOrder, DockerOrder, Scripts

(* A running docker-mode command line names ./deploy/dockerconf as its   *)
(* output path: the mode check of setup.py, or docker/setup.py's defaults. *)
LEMMA DockerModeOut ==
    ASSUME TypeOK, ModeOK, DockerIInv, status = "running", args.docker
    PROVE  args.out = DockerConf
BY DEF TypeOK, ModeOK, DockerIInv, InvalidMode, DefaultArgs, Scripts

(* The four places docker/setup.py writes are files of the model.        *)
LEMMA DockerLocsInFileIds == DockerLocs \subseteq FileIds
BY DefaultArgsType, LocsInFileIds DEF DockerLocs

LEMMA DockerInit == Init => DockerIInv
BY DockerLocsInFileIds DEF Init, DockerIInv

(* An open or a write of artifact k by a running script at line pc.       *)
LEMMA DockerFileStep ==
    ASSUME TypeOK, ModeOK, DockerIInv, NEW k \in Artifacts,
           NEW step \in {OpenStep[k], WriteStep[k]}, At(step),
           NEW c, c.run = run,
           files' = [files EXCEPT ![Locs(args)[k]] = c],
           UNCHANGED <<script, args, run, dirs>>, Advance
    PROVE  DockerIInv'
<1>1. pc > 1 /\ pc' = pc + 1 /\ status = "running" /\ pc \in Nat
  BY FirstLines DEF OpenStep, WriteStep, Artifacts, Advance, At
<1>2. status' = "running" => status = "running"
  BY <1>1
<1>3. Locs(args)[k] \in DockerLocs => DockerConf \in dirs
  BY <1>1, DockerLocsNeedDocker DEF TypeOK, DockerIInv
<1>4. (\E f \in DockerLocs : files'[f] # Absent) => DockerConf \in dirs'
  BY <1>3 DEF DockerIInv
<1>5. script = "docker_setup" =>
         \A f \in DockerLocs : files'[f] # Absent => files'[f].run = run'
  BY <1>1 DEF DockerIInv
<1>6. QED
  BY <1>1, <1>4, <1>5 DEF DockerIInv

LEMMA DockerStep ==
    TypeOK /\ ModeOK /\ DockerIInv /\ [Next]_vars => DockerIInv'
<1> SUFFICES ASSUME TypeOK, ModeOK, DockerIInv, [Next]_vars PROVE DockerIInv'
  OBVIOUS
<1>1. ASSUME NEW s \in Scripts, NEW a \in ArgsOf(s), Start(s, a)
      PROVE  DockerIInv'
  BY <1>1 DEF Start, ArgsOf, DockerIInv
<1>2. CASE MakeDirs
  <2>1. script = "setup" /\ dirs \subseteq dirs'
    BY <1>2, FirstLines DEF MakeDirs
  <2>2. CASE status' = "running" /\ args.docker /\ pc' > 1
    <3>1. args.out = DockerConf
      BY <1>2, <2>2, DockerModeOut DEF MakeDirs, At
    <3>2. QED
      BY <1>2, <2>1, <2>2, <3>1 DEF MakeDirs, Advance, Fail, DockerIInv
  <2>3. QED
    BY <1>2, <2>1, <2>2 DEF MakeDirs, Advance, Fail, DockerIInv
<1>3. CASE MakeDockerConf
  <2>1. script = "docker_setup" /\ pc = 1
    BY <1>3, FirstLines DEF MakeDockerConf, At, DockerOrder, Order
  <2>2. CASE DockerConf \notin dirs
    <3>1. \A f \in DockerLocs : files[f] = Absent
      BY <2>2 DEF DockerIInv
    <3>2. QED
      BY <1>3, <2>2, <3>1 DEF MakeDockerConf, DockerIInv
  <2>3. CASE DockerConf \in dirs
    BY <1>3, <2>3 DEF MakeDockerConf, Fail, DockerIInv
  <2>4. QED
    BY <2>2, <2>3
<1>4. ASSUME NEW v \in VarNames, GetVar(v) PROVE DockerIInv'
  <2>1. pc > 1 /\ pc' = pc + 1
    BY <1>4, FirstLines DEF GetVar, Resolve, Advance, VarNames
  <2>2. UNCHANGED <<script, args, run, dirs, files>> /\ (status' = "running" => status = "running")
    BY <1>4 DEF GetVar, Resolve, Advance, At
  <2>3. QED
    BY <2>1, <2>2 DEF DockerIInv
<1>5. ASSUME NEW k \in Artifacts, Open(k) PROVE DockerIInv'
  BY <1>5, DockerFileStep, RenderedRun DEF Open
<1>6. ASSUME NEW k \in Artifacts, Write(k) PROVE DockerIInv'
  BY <1>6, DockerFileStep, RenderedRun DEF Write
<1>7. CASE MakeSeaweedDir
  <2>1. pc > 1 /\ pc' = pc + 1 /\ dirs \subseteq dirs'
    BY <1>7, FirstLines DEF MakeSeaweedDir, Advance
  <2>2. UNCHANGED <<script, args, run, files>> /\ (status' = "running" => status = "running")
    BY <1>7 DEF MakeSeaweedDir, Advance, At
  <2>3. QED
    BY <2>1, <2>2 DEF DockerIInv
<1>8. CASE Crash
  BY <1>8 DEF Crash, Fail, DockerIInv
<1>9. CASE UNCHANGED vars
  BY <1>9 DEF vars, DockerIInv
<1>10. QED
  BY <1>1, <1>2, <1>3, <1>4, <1>5, <1>6, <1>7, <1>8, <1>9 DEF Next

(* An open or write of docker/setup.py hits a file of its own run only.   *)
LEMMA DockerWriteOwnRun ==
    ASSUME TypeOK, DockerIInv, NEW k \in Artifacts,
           NEW step \in {OpenStep[k], WriteStep[k]}, At(step),
           script = "docker_setup", NEW f \in FileIds, f = Locs(args)[k],
           files[f] # Absent
    PROVE  files[f].run = run
<1>1. pc > 1 /\ status = "running"
  BY FirstLines DEF OpenStep, WriteStep, Artifacts, At
<1>2. f \in DockerLocs
  BY DEF DockerIInv, DockerLocs
<1>3. QED
  BY <1>1, <1>2 DEF DockerIInv

(* docker/setup.py changes no file that an earlier run of either script   *)
(* left, for every set of paths and every number of runs, although two  *)
(* of its files lie outside ./deploy/dockerconf: each run that writes to  *)
(* those places makes that directory first, and line 9's os.mkdir raises *)
(* when it exists.                                                        *)
THEOREM DockerSetupPreservesPriorHolds == Spec => DockerSetupPreservesPrior
<1>1. TypeOK /\ ModeOK /\ DockerIInv /\ [Next]_vars
        => [script' = "docker_setup" =>
              \A f \in FileIds :
                  files[f] # Absent /\ files[f].run < run' => files'[f] = files[f]]_vars
  <2> SUFFICES ASSUME TypeOK, ModeOK, DockerIInv, [Next]_vars,
                      script' = "docker_setup", NEW f \in FileIds,
                      files[f] # Absent, files[f].run < run'
               PROVE  files'[f] = files[f]
    OBVIOUS
  <2>1. ASSUME NEW k \in Artifacts, NEW step \in {OpenStep[k], WriteStep[k]},
               At(step), NEW c, files' = [files EXCEPT ![Locs(args)[k]] = c],
               UNCHANGED <<script, run>>
        PROVE  files'[f] = files[f]
    <3>1. CASE f = Locs(args)[k]
      <4>1. files[f].run = run /\ run \in Nat
        BY <2>1, <3>1, DockerWriteOwnRun DEF TypeOK
      <4>2. QED
        BY <2>1, <4>1
    <3>2. CASE f # Locs(args)[k]
      BY <2>1, <3>2 DEF TypeOK
    <3>3. QED
      BY <3>1, <3>2
  <2>2. CASE \E k \in Artifacts : Open(k)
    BY <2>1, <2>2 DEF Open
  <2>3. CASE \E k \in Artifacts : Write(k)
    BY <2>1, <2>3 DEF Write
  <2>4. CASE ~\E k \in Artifacts : Open(k) \/ Write(k)
    BY <2>4 DEF Next, Start, MakeDirs, MakeDockerConf, GetVar, MakeSeaweedDir,
                Crash, vars
  <2>5. QED
    BY <2>2, <2>3, <2>4
<1>2. QED
  BY <1>1, TypeInit, TypeStep, ModeOKInit, ModeOKStep, DockerInit, DockerStep, PTL
     DEF Spec, DockerSetupPreservesPrior

=============================================================================
