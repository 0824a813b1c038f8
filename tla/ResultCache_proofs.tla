------------------------- MODULE ResultCache_proofs -------------------------
(***************************************************************************)
(* The safety of the result cache for any number of runs, janitors,        *)
(* mutants, keys and buckets, and whatever the tests say.                  *)
(*                                                                         *)
(* None of the properties is inductive: a rename publishes what the        *)
(* temporary file holds, which depends on who wrote it and when, and a     *)
(* file operation succeeds because of what an earlier one found.  CacheInv *)
(* says of every run what its local state implies (Flow), what its         *)
(* temporary files hold (Staged), and what stays true of the directory     *)
(* between two of its operations while nobody removes files (Undisturbed). *)
(* Each action is shown to keep it, and then to implement VerdictCache.    *)
(***************************************************************************)
EXTENDS ResultCache, TLAPS

\* The file operations of store_entry and force_update_entry.
Writing == {"mkdir", "create", "write", "recheck", "rename"}

\* The local state of a run: the entry it works on is one it still has to visit,
\* it stores only mutants it has a verdict for, and corrects only survivors that
\* isolation kills.
Flow(r) ==
  /\ pc[r] = "idle" =>
       /\ covered[r] = {} /\ todo[r] = {}
       /\ \A m \in Mutants : report[r][m] = NoFile
  /\ pc[r] \in FileOps => at[r] \in todo[r]
  /\ pc[r] \in {"lookup", "read"} =>
       /\ todo[r] \cap covered[r] = {}
       /\ \A m \in todo[r] \cup covered[r] : report[r][m] = NoFile
  /\ pc[r] \in Writing \cup {"store", "correct"} =>
       /\ todo[r] \subseteq covered[r]
       /\ \A m \in covered[r] : report[r][m] \in Verdicts
  /\ pc[r] \in {"idle", "lookup", "read", "store", "recheck"} => flips[r] = {}
  /\ Running(r) =>
       \A m \in flips[r] :
         m \in covered[r] /\ report[r][m] = "survived" /\ Isolated[m] = "killed"
  /\ pc[r] = "correct" \/ (Running(r) /\ Correcting(r)) =>
       todo[r] \subseteq flips[r]

\* A run has no temporary file but the one of its current operation, which holds
\* the verdict of that mutant once it is written; a killed run may leave any.
Staged(r) ==
  /\ \A k \in Keys : tmp[<<r, k>>] # NoFile =>
       \/ pc[r] = "crashed"
       \/ pc[r] \in {"write", "recheck", "rename"} /\ k = Key(r)
  /\ pc[r] \in {"recheck", "rename"} => tmp[<<r, Key(r)>>] \in {NoFile, Data(r)}

\* Before any gc or clean starts, what a run saw a step ago is still there.
Undisturbed(r) ==
  (\A j \in Janitors : jpc[j] = "idle") =>
    /\ pc[r] # "failed"
    /\ pc[r] = "read" => entry[Key(r)] # NoFile
    /\ pc[r] = "create" => BucketOf[Key(r)] \in dirs
    /\ pc[r] \in {"write", "recheck", "rename"} => tmp[<<r, Key(r)>>] # NoFile

CacheInv ==
  /\ TypeOK /\ EntriesAreWhole
  /\ \A r \in Runs : Flow(r) /\ Staged(r) /\ Undisturbed(r)

---------------------------------------------------------------------------
(* The invariant                                                           *)

\* CacheInv survives a run that starts and lists its mutants.
LEMMA StartKeeps ==
  ASSUME CacheInv, NEW r \in Runs, NEW options \in Modes, Start(r, options)
  PROVE  CacheInv'
<1>1. /\ pc[r] = "idle" /\ pc' = [pc EXCEPT ![r] = "lookup"]
      /\ mode' = [mode EXCEPT ![r] = options]
      /\ todo' = [todo EXCEPT ![r] = Mutants]
      /\ alone' \subseteq alone \cup {r}
      /\ UNCHANGED <<files, covered, flips, at, report, janitors>>
  BY DEF Start, Goto
<1>2. TypeOK'
  BY <1>1 DEF CacheInv, TypeOK, files, janitors, Loops, FileOps
<1>3. ASSUME NEW p \in Runs PROVE Flow(p)'
  BY <1>1 DEF CacheInv, TypeOK, Flow, Writing, Running, Correcting,
     janitors, FileOps
<1>4. ASSUME NEW p \in Runs PROVE Staged(p)'
  BY <1>1 DEF CacheInv, Staged, Key, Data, Correcting, files
<1>5. ASSUME NEW p \in Runs PROVE Undisturbed(p)'
  BY <1>1 DEF CacheInv, Undisturbed, Key, files, janitors
<1>6. EntriesAreWhole'
  BY <1>1 DEF CacheInv, EntriesAreWhole, files
<1> QED
  BY <1>2, <1>3, <1>4, <1>5, <1>6 DEF CacheInv

\* CacheInv survives load_entry finding no entry.
LEMMA MissKeeps ==
  ASSUME CacheInv, NEW r \in Runs, NEW m \in Mutants,
         LookUp(r, m), entry[KeyOf[m]] = NoFile
  PROVE  CacheInv'
<1>1. /\ pc[r] = "lookup" /\ m \in todo[r]
      /\ todo' = [todo EXCEPT ![r] = @ \ {m}]
      /\ covered' = [covered EXCEPT ![r] = @ \cup {m}]
      /\ UNCHANGED <<files, pc, at, mode, flips, report, janitors, alone>>
  BY DEF LookUp, Skip
<1>2. TypeOK'
  BY <1>1 DEF CacheInv, TypeOK, files, janitors
<1>3. ASSUME NEW p \in Runs PROVE Flow(p)'
  BY <1>1 DEF CacheInv, TypeOK, Flow, Running, Correcting, Loops, FileOps
<1>4. ASSUME NEW p \in Runs PROVE Staged(p)'
  BY <1>1 DEF CacheInv, Staged, Key, Data, Correcting, files
<1>5. ASSUME NEW p \in Runs PROVE Undisturbed(p)'
  BY <1>1 DEF CacheInv, Undisturbed, Key, files, janitors
<1>6. EntriesAreWhole'
  BY <1>1 DEF CacheInv, EntriesAreWhole, files
<1> QED
  BY <1>2, <1>3, <1>4, <1>5, <1>6 DEF CacheInv

\* CacheInv survives load_entry finding a file to read.
LEMMA FoundKeeps ==
  ASSUME CacheInv, NEW r \in Runs, NEW m \in Mutants,
         LookUp(r, m), entry[KeyOf[m]] # NoFile
  PROVE  CacheInv'
<1>1. /\ pc[r] = "lookup" /\ m \in todo[r]
      /\ pc' = [pc EXCEPT ![r] = "read"] /\ at' = [at EXCEPT ![r] = m]
      /\ UNCHANGED <<files, plans, todo, report, janitors, alone>>
  BY DEF LookUp, Begin, Goto, plans
<1>2. TypeOK'
  BY <1>1 DEF CacheInv, TypeOK, files, plans, janitors, FileOps
<1>3. ASSUME NEW p \in Runs PROVE Flow(p)'
  BY <1>1 DEF CacheInv, TypeOK, Flow, Writing, Running, Correcting, plans,
     Loops, FileOps
<1>4. ASSUME NEW p \in Runs PROVE Staged(p)'
  BY <1>1 DEF CacheInv, TypeOK, Staged, Key, Data, Correcting, files, plans,
     janitors
<1>5. ASSUME NEW p \in Runs PROVE Undisturbed(p)'
  BY <1>1 DEF CacheInv, TypeOK, Undisturbed, Key, files, janitors
<1>6. EntriesAreWhole'
  BY <1>1 DEF CacheInv, EntriesAreWhole, files
<1> QED
  BY <1>2, <1>3, <1>4, <1>5, <1>6 DEF CacheInv

\* CacheInv survives load_entry reading a verdict.
LEMMA HitKeeps ==
  ASSUME CacheInv, NEW r \in Runs, Read(r), entry[Key(r)] \in Verdicts
  PROVE  CacheInv'
<1>1. /\ pc[r] = "read" /\ pc' = [pc EXCEPT ![r] = "lookup"]
      /\ todo' = [todo EXCEPT ![r] = @ \ {at[r]}]
      /\ report' = [report EXCEPT ![r][at[r]] = entry[Key(r)]]
      /\ UNCHANGED <<files, plans, at, janitors, alone>>
  BY DEF Read, Handled, Goto
<1>2. /\ at[r] \in Mutants /\ at[r] \in todo[r]
      /\ Key(r) \in Keys /\ BucketOf[Key(r)] \in Buckets
  BY <1>1, CacheAssumption DEF CacheInv, TypeOK, Flow, FileOps, Key
<1>3. TypeOK'
  BY <1>1, <1>2 DEF CacheInv, TypeOK, files, plans, janitors, Loops
<1>4. ASSUME NEW p \in Runs PROVE Flow(p)'
  BY <1>1 DEF CacheInv, TypeOK, Flow, Writing, Running, Correcting, plans,
     FileOps
<1>5. ASSUME NEW p \in Runs PROVE Staged(p)'
  BY <1>1 DEF CacheInv, Staged, Key, Data, Correcting, files, plans
<1>6. ASSUME NEW p \in Runs PROVE Undisturbed(p)'
  BY <1>1 DEF CacheInv, Undisturbed, Key, files, janitors
<1>7. EntriesAreWhole'
  BY <1>1 DEF CacheInv, EntriesAreWhole, files
<1> QED
  BY <1>3, <1>4, <1>5, <1>6, <1>7 DEF CacheInv

\* CacheInv survives load_entry failing on a file that has gone.
LEMMA LoadFailsKeeps ==
  ASSUME CacheInv, NEW r \in Runs, Read(r), entry[Key(r)] \notin Verdicts
  PROVE  CacheInv'
<1>1. /\ pc[r] = "read" /\ pc' = [pc EXCEPT ![r] = "failed"]
      /\ UNCHANGED <<files, plans, at, todo, report, janitors, alone>>
  BY DEF Read, Fail, Goto
<1>2. /\ at[r] \in Mutants /\ at[r] \in todo[r]
      /\ Key(r) \in Keys /\ BucketOf[Key(r)] \in Buckets
  BY <1>1, CacheAssumption DEF CacheInv, TypeOK, Flow, FileOps, Key
<1>3. TypeOK'
  BY <1>1, <1>2 DEF CacheInv, TypeOK, files, plans, janitors, Ends
<1>4. ASSUME NEW p \in Runs PROVE Flow(p)'
  BY <1>1, <1>2 DEF CacheInv, Flow, Writing, Running, Correcting, plans
<1>5. ASSUME NEW p \in Runs PROVE Staged(p)'
  BY <1>1 DEF CacheInv, Staged, Key, Data, Correcting, files, plans
<1>6. ASSUME NEW p \in Runs PROVE Undisturbed(p)'
  BY <1>1, <1>2 DEF CacheInv, TypeOK, Undisturbed, EntriesAreWhole, Key,
     Contents, files, janitors
<1>7. EntriesAreWhole'
  BY <1>1 DEF CacheInv, EntriesAreWhole, files
<1> QED
  BY <1>3, <1>4, <1>5, <1>6, <1>7 DEF CacheInv

\* CacheInv survives the tests of the mutants that missed.
LEMMA ExecuteKeeps ==
  ASSUME CacheInv, NEW r \in Runs, NEW found \in [covered[r] -> Verdicts],
         Execute(r, found)
  PROVE  CacheInv'
<1>1. /\ pc[r] = "lookup" /\ pc' = [pc EXCEPT ![r] = "store"]
      /\ todo[r] = {} /\ todo' = [todo EXCEPT ![r] = covered[r]]
      /\ report' = [report EXCEPT ![r] =
                     [m \in Mutants |-> IF m \in covered[r] THEN found[m] ELSE @[m]]]
      /\ UNCHANGED <<files, plans, at, janitors, alone>>
  BY DEF Execute, Goto
<1>2. TypeOK'
  BY <1>1 DEF CacheInv, TypeOK, files, plans, janitors, Loops, FileOps
<1>3. ASSUME NEW p \in Runs PROVE Flow(p)'
  BY <1>1 DEF CacheInv, TypeOK, Flow, Running, Correcting, plans, FileOps
<1>4. ASSUME NEW p \in Runs PROVE Staged(p)'
  BY <1>1 DEF CacheInv, Staged, Key, Data, Correcting, files, plans
<1>5. ASSUME NEW p \in Runs PROVE Undisturbed(p)'
  BY <1>1 DEF CacheInv, Undisturbed, Key, files, janitors
<1>6. EntriesAreWhole'
  BY <1>1 DEF CacheInv, EntriesAreWhole, files
<1> QED
  BY <1>2, <1>3, <1>4, <1>5, <1>6 DEF CacheInv

\* CacheInv survives store_entry finding no entry.
LEMMA StoreNewKeeps ==
  ASSUME CacheInv, NEW r \in Runs, NEW m \in Mutants,
         Store(r, m), entry[KeyOf[m]] = NoFile
  PROVE  CacheInv'
<1>1. /\ pc[r] = "store" /\ m \in todo[r]
      /\ pc' = [pc EXCEPT ![r] = "mkdir"] /\ at' = [at EXCEPT ![r] = m]
      /\ UNCHANGED <<files, plans, todo, report, janitors, alone>>
  BY DEF Store, Begin, Goto
<1>2. TypeOK'
  BY <1>1 DEF CacheInv, TypeOK, files, plans, janitors, FileOps
<1>3. ASSUME NEW p \in Runs PROVE Flow(p)'
  BY <1>1 DEF CacheInv, TypeOK, Flow, Running, Correcting, plans, FileOps
<1>4. ASSUME NEW p \in Runs PROVE Staged(p)'
  BY <1>1 DEF CacheInv, TypeOK, Staged, Key, Data, Correcting, files, plans,
     janitors
<1>5. ASSUME NEW p \in Runs PROVE Undisturbed(p)'
  BY <1>1 DEF CacheInv, Undisturbed, Key, files, janitors
<1>6. EntriesAreWhole'
  BY <1>1 DEF CacheInv, EntriesAreWhole, files
<1> QED
  BY <1>2, <1>3, <1>4, <1>5, <1>6 DEF CacheInv

\* CacheInv survives store_entry finding an entry.
LEMMA StoreKnownKeeps ==
  ASSUME CacheInv, NEW r \in Runs, NEW m \in Mutants,
         Store(r, m), entry[KeyOf[m]] # NoFile
  PROVE  CacheInv'
<1>1. /\ pc[r] = "store" /\ m \in todo[r]
      /\ todo' = [todo EXCEPT ![r] = @ \ {m}]
      /\ UNCHANGED <<files, pc, at, plans, report, janitors, alone>>
  BY DEF Store, Skip
<1>2. TypeOK'
  BY <1>1 DEF CacheInv, TypeOK, files, plans, janitors
<1>3. ASSUME NEW p \in Runs PROVE Flow(p)'
  BY <1>1 DEF CacheInv, Flow, Running, Correcting, plans, FileOps
<1>4. ASSUME NEW p \in Runs PROVE Staged(p)'
  BY <1>1 DEF CacheInv, Staged, Key, Data, Correcting, files, plans
<1>5. ASSUME NEW p \in Runs PROVE Undisturbed(p)'
  BY <1>1 DEF CacheInv, Undisturbed, Key, files, janitors
<1>6. EntriesAreWhole'
  BY <1>1 DEF CacheInv, EntriesAreWhole, files
<1> QED
  BY <1>2, <1>3, <1>4, <1>5, <1>6 DEF CacheInv

\* CacheInv survives phase_verify_survivors choosing what to correct.
LEMMA VerifyKeeps ==
  ASSUME CacheInv, NEW r \in Runs, Verify(r)
  PROVE  CacheInv'
<1>1. /\ pc[r] = "store" /\ pc' = [pc EXCEPT ![r] = "correct"]
      /\ flips' = [flips EXCEPT ![r] = FalseSurvivors(r)]
      /\ todo' = [todo EXCEPT ![r] = FalseSurvivors(r)]
      /\ UNCHANGED <<files, mode, covered, at, report, janitors, alone>>
  BY DEF Verify, Goto
<1>2. TypeOK'
  BY <1>1 DEF CacheInv, TypeOK, FalseSurvivors, files, janitors, Loops,
     FileOps
<1>3. ASSUME NEW p \in Runs PROVE Flow(p)'
  BY <1>1 DEF CacheInv, TypeOK, Flow, Running, Correcting, FalseSurvivors,
     files, FileOps
<1>4. ASSUME NEW p \in Runs PROVE Staged(p)'
  BY <1>1 DEF CacheInv, Staged, Key, Data, Correcting, files
<1>5. ASSUME NEW p \in Runs PROVE Undisturbed(p)'
  BY <1>1 DEF CacheInv, Undisturbed, Key, files, janitors
<1>6. EntriesAreWhole'
  BY <1>1 DEF CacheInv, EntriesAreWhole, files
<1> QED
  BY <1>2, <1>3, <1>4, <1>5, <1>6 DEF CacheInv

\* CacheInv survives force_update_entry beginning.
LEMMA ForceUpdateKeeps ==
  ASSUME CacheInv, NEW r \in Runs, NEW m \in Mutants, ForceUpdate(r, m)
  PROVE  CacheInv'
<1>1. /\ pc[r] = "correct" /\ m \in todo[r]
      /\ pc' = [pc EXCEPT ![r] = "mkdir"] /\ at' = [at EXCEPT ![r] = m]
      /\ UNCHANGED <<files, plans, todo, report, janitors, alone>>
  BY DEF ForceUpdate, Begin, Goto
<1>2. TypeOK'
  BY <1>1 DEF CacheInv, TypeOK, files, plans, janitors, FileOps
<1>3. ASSUME NEW p \in Runs PROVE Flow(p)'
  BY <1>1 DEF CacheInv, TypeOK, Flow, Running, Correcting, plans, Loops
<1>4. ASSUME NEW p \in Runs PROVE Staged(p)'
  BY <1>1 DEF CacheInv, TypeOK, Staged, Key, Data, Correcting, NoFile,
     files, plans
<1>5. ASSUME NEW p \in Runs PROVE Undisturbed(p)'
  BY <1>1 DEF CacheInv, Undisturbed, Key, files, janitors
<1>6. EntriesAreWhole'
  BY <1>1 DEF CacheInv, EntriesAreWhole, files
<1> QED
  BY <1>2, <1>3, <1>4, <1>5, <1>6 DEF CacheInv

\* CacheInv survives apply_verification_corrections.
LEMMA FinishKeeps ==
  ASSUME CacheInv, NEW r \in Runs, Finish(r)
  PROVE  CacheInv'
<1>1. /\ pc[r] = "correct" /\ pc' = [pc EXCEPT ![r] = "done"]
      /\ report' = [report EXCEPT ![r] =
                     [m \in Mutants |-> IF m \in flips[r] THEN "killed" ELSE @[m]]]
      /\ UNCHANGED <<files, plans, at, todo, janitors, alone>>
  BY DEF Finish, Goto
<1>2. TypeOK'
  BY <1>1 DEF CacheInv, TypeOK, Verdicts, files, plans, janitors, FileOps,
     Ends
<1>3. ASSUME NEW p \in Runs PROVE Flow(p)'
  BY <1>1 DEF CacheInv, TypeOK, Flow, Writing, Running, Correcting, plans,
     Loops, FileOps
<1>4. ASSUME NEW p \in Runs PROVE Staged(p)'
  BY <1>1 DEF CacheInv, Staged, Key, Data, Correcting, files, plans
<1>5. ASSUME NEW p \in Runs PROVE Undisturbed(p)'
  BY <1>1 DEF CacheInv, Undisturbed, Key, files, janitors
<1>6. EntriesAreWhole'
  BY <1>1 DEF CacheInv, EntriesAreWhole, files
<1> QED
  BY <1>2, <1>3, <1>4, <1>5, <1>6 DEF CacheInv

\* CacheInv survives create_dir_all.
LEMMA MakeDirKeeps ==
  ASSUME CacheInv, NEW r \in Runs, MakeDir(r)
  PROVE  CacheInv'
<1>1. /\ pc[r] = "mkdir" /\ pc' = [pc EXCEPT ![r] = "create"]
      /\ dirs' = dirs \cup {BucketOf[Key(r)]}
      /\ UNCHANGED <<entry, tmp, plans, at, todo, report, janitors, alone>>
  BY DEF MakeDir, Goto
<1>2. /\ at[r] \in Mutants /\ at[r] \in todo[r]
      /\ Key(r) \in Keys /\ BucketOf[Key(r)] \in Buckets
  BY <1>1, CacheAssumption DEF CacheInv, TypeOK, Flow, FileOps, Key
<1>3. TypeOK'
  BY <1>1, <1>2 DEF CacheInv, TypeOK, plans, janitors, FileOps
<1>4. ASSUME NEW p \in Runs PROVE Flow(p)'
  BY <1>1 DEF CacheInv, Flow, Writing, Running, Correcting, plans, FileOps
<1>5. ASSUME NEW p \in Runs PROVE Staged(p)'
  BY <1>1 DEF CacheInv, Staged, Key, Data, Correcting, plans
<1>6. ASSUME NEW p \in Runs PROVE Undisturbed(p)'
  BY <1>1 DEF CacheInv, Undisturbed, Key, janitors
<1>7. EntriesAreWhole'
  BY <1>1 DEF CacheInv, EntriesAreWhole
<1> QED
  BY <1>3, <1>4, <1>5, <1>6, <1>7 DEF CacheInv

\* CacheInv survives fs::write creating the temporary file.
LEMMA CreateKeeps ==
  ASSUME CacheInv, NEW r \in Runs, CreateTmp(r), BucketOf[Key(r)] \in dirs
  PROVE  CacheInv'
<1>1. /\ pc[r] = "create" /\ pc' = [pc EXCEPT ![r] = "write"]
      /\ tmp' = [tmp EXCEPT ![<<r, Key(r)>>] = Torn]
      /\ UNCHANGED <<entry, dirs, plans, at, todo, report, janitors, alone>>
  BY DEF CreateTmp, Goto, MyTmp, TmpPath
<1>2. /\ at[r] \in Mutants /\ at[r] \in todo[r]
      /\ Key(r) \in Keys /\ BucketOf[Key(r)] \in Buckets
  BY <1>1, CacheAssumption DEF CacheInv, TypeOK, Flow, FileOps, Key
<1>3. TypeOK'
  BY <1>1 DEF CacheInv, TypeOK, Contents, plans, janitors, FileOps
<1>4. ASSUME NEW p \in Runs PROVE Flow(p)'
  BY <1>1 DEF CacheInv, Flow, Writing, Running, Correcting, plans, FileOps
<1>5. ASSUME NEW p \in Runs PROVE Staged(p)'
  BY <1>1 DEF CacheInv, TypeOK, Staged, Key, Data, Correcting, plans
<1>6. ASSUME NEW p \in Runs PROVE Undisturbed(p)'
  BY <1>1, <1>2 DEF CacheInv, TypeOK, Undisturbed, Key, NoFile, Torn, janitors
<1>7. EntriesAreWhole'
  BY <1>1 DEF CacheInv, EntriesAreWhole
<1> QED
  BY <1>3, <1>4, <1>5, <1>6, <1>7 DEF CacheInv

\* CacheInv survives fs::write finding no bucket.
LEMMA CreateFailsKeeps ==
  ASSUME CacheInv, NEW r \in Runs, CreateTmp(r), BucketOf[Key(r)] \notin dirs
  PROVE  CacheInv'
<1>1. /\ pc[r] = "create" /\ pc' = [pc EXCEPT ![r] = "failed"]
      /\ UNCHANGED <<files, plans, at, todo, report, janitors, alone>>
  BY DEF CreateTmp, Fail, Goto, files
<1>2. /\ at[r] \in Mutants /\ at[r] \in todo[r]
      /\ Key(r) \in Keys /\ BucketOf[Key(r)] \in Buckets
  BY <1>1, CacheAssumption DEF CacheInv, TypeOK, Flow, FileOps, Key
<1>3. TypeOK'
  BY <1>1, <1>2 DEF CacheInv, TypeOK, files, plans, janitors, Ends
<1>4. ASSUME NEW p \in Runs PROVE Flow(p)'
  BY <1>1 DEF CacheInv, Flow, Writing, Running, Correcting, plans, FileOps
<1>5. ASSUME NEW p \in Runs PROVE Staged(p)'
  BY <1>1 DEF CacheInv, Staged, Key, Data, Correcting, files, plans
<1>6. ASSUME NEW p \in Runs PROVE Undisturbed(p)'
  BY <1>1 DEF CacheInv, Undisturbed, files, janitors
<1>7. EntriesAreWhole'
  BY <1>1 DEF CacheInv, EntriesAreWhole, files
<1> QED
  BY <1>3, <1>4, <1>5, <1>6, <1>7 DEF CacheInv

\* CacheInv survives fs::write filling the temporary file.
LEMMA WriteKeeps ==
  ASSUME CacheInv, NEW r \in Runs, WriteTmp(r)
  PROVE  CacheInv'
<1>1. /\ pc[r] = "write"
      /\ pc' = [pc EXCEPT ![r] = IF Correcting(r) THEN "rename" ELSE "recheck"]
      /\ tmp' = IF tmp[<<r, Key(r)>>] = NoFile THEN tmp
               ELSE [tmp EXCEPT ![<<r, Key(r)>>] = Data(r)]
      /\ UNCHANGED <<entry, dirs, plans, at, todo, report, janitors, alone>>
  BY DEF WriteTmp, Goto, MyTmp, TmpPath
<1>2. /\ at[r] \in Mutants /\ at[r] \in todo[r]
      /\ Key(r) \in Keys /\ BucketOf[Key(r)] \in Buckets
  BY <1>1, CacheAssumption DEF CacheInv, TypeOK, Flow, FileOps, Key
<1>3. TypeOK'
  BY <1>1, <1>2 DEF CacheInv, TypeOK, Contents, Verdicts, Data, plans,
     janitors, FileOps
<1>4. ASSUME NEW p \in Runs PROVE Flow(p)'
  BY <1>1 DEF CacheInv, Flow, Writing, Running, Correcting, plans, FileOps
<1>5. Data(r) \in Verdicts
  BY <1>1, <1>2 DEF CacheInv, Flow, Writing, Data, Verdicts
<1>6. ASSUME NEW p \in Runs PROVE Staged(p)'
  <2>1. CASE p = r
    BY <1>1, <1>2, <2>1 DEF CacheInv, TypeOK, Staged, Key, Data,
       Correcting, plans
  <2>2. CASE p # r
    BY <1>1, <2>2 DEF CacheInv, Staged, Key, Data, Correcting, plans
  <2> QED
    BY <2>1, <2>2
<1>7. ASSUME NEW p \in Runs PROVE Undisturbed(p)'
  <2>1. CASE p = r
    BY <1>1, <1>5 DEF CacheInv, Undisturbed, Key, Verdicts, NoFile, janitors
  <2>2. CASE p # r
    BY <1>1, <2>2 DEF CacheInv, Undisturbed, Key, janitors
  <2> QED
    BY <2>1, <2>2
<1>8. EntriesAreWhole'
  BY <1>1 DEF CacheInv, EntriesAreWhole
<1> QED
  BY <1>3, <1>4, <1>6, <1>7, <1>8 DEF CacheInv

\* CacheInv survives store_entry finding no entry again.
LEMMA RecheckFreeKeeps ==
  ASSUME CacheInv, NEW r \in Runs, Recheck(r), entry[Key(r)] = NoFile
  PROVE  CacheInv'
<1>1. /\ pc[r] = "recheck" /\ pc' = [pc EXCEPT ![r] = "rename"]
      /\ UNCHANGED <<files, plans, at, todo, report, janitors, alone>>
  BY DEF Recheck, Goto, files
<1>2. TypeOK'
  BY <1>1 DEF CacheInv, TypeOK, files, plans, janitors, FileOps
<1>3. ASSUME NEW p \in Runs PROVE Flow(p)'
  BY <1>1 DEF CacheInv, Flow, Writing, Running, Correcting, plans, FileOps
<1>4. ASSUME NEW p \in Runs PROVE Staged(p)'
  BY <1>1 DEF CacheInv, Staged, Key, Data, Correcting, files, plans
<1>5. ASSUME NEW p \in Runs PROVE Undisturbed(p)'
  BY <1>1 DEF CacheInv, Undisturbed, Key, files, janitors
<1>6. EntriesAreWhole'
  BY <1>1 DEF CacheInv, EntriesAreWhole, files
<1> QED
  BY <1>2, <1>3, <1>4, <1>5, <1>6 DEF CacheInv

\* CacheInv survives store_entry finding an entry after all.
LEMMA RecheckTakenKeeps ==
  ASSUME CacheInv, NEW r \in Runs, Recheck(r), entry[Key(r)] # NoFile
  PROVE  CacheInv'
<1>1. /\ pc[r] = "recheck" /\ pc' = [pc EXCEPT ![r] = "store"]
      /\ todo' = [todo EXCEPT ![r] = @ \ {at[r]}]
      /\ tmp' = [tmp EXCEPT ![<<r, Key(r)>>] = NoFile]
      /\ UNCHANGED <<entry, dirs, plans, at, report, janitors, alone>>
  BY DEF Recheck, Handled, Goto, MyTmp, TmpPath
<1>2. /\ at[r] \in Mutants /\ at[r] \in todo[r]
      /\ Key(r) \in Keys /\ BucketOf[Key(r)] \in Buckets
  BY <1>1, CacheAssumption DEF CacheInv, TypeOK, Flow, FileOps, Key
<1>3. TypeOK'
  BY <1>1, <1>2 DEF CacheInv, TypeOK, Contents, plans, janitors, Loops
<1>4. ASSUME NEW p \in Runs PROVE Flow(p)'
  BY <1>1 DEF CacheInv, TypeOK, Flow, Writing, Running, Correcting, plans,
     FileOps
<1>5. ASSUME NEW p \in Runs PROVE Staged(p)'
  BY <1>1 DEF CacheInv, TypeOK, Staged, Key, Data, Correcting, plans
<1>6. ASSUME NEW p \in Runs PROVE Undisturbed(p)'
  BY <1>1 DEF CacheInv, TypeOK, Undisturbed, Key, janitors
<1>7. EntriesAreWhole'
  BY <1>1 DEF CacheInv, EntriesAreWhole
<1> QED
  BY <1>3, <1>4, <1>5, <1>6, <1>7 DEF CacheInv

\* CacheInv survives the rename into place.
LEMMA RenameKeeps ==
  ASSUME CacheInv, NEW r \in Runs, Rename(r), tmp[MyTmp(r)] # NoFile
  PROVE  CacheInv'
<1>1. /\ pc[r] = "rename" /\ tmp[<<r, Key(r)>>] # NoFile
      /\ pc' = [pc EXCEPT ![r] = IF Correcting(r) THEN "correct" ELSE "store"]
      /\ todo' = [todo EXCEPT ![r] = @ \ {at[r]}]
      /\ entry' = [entry EXCEPT ![Key(r)] = tmp[<<r, Key(r)>>]]
      /\ tmp' = [tmp EXCEPT ![<<r, Key(r)>>] = NoFile]
      /\ UNCHANGED <<dirs, plans, at, report, janitors, alone>>
  BY DEF Rename, Handled, Goto, MyTmp, TmpPath
<1>2. /\ at[r] \in Mutants /\ at[r] \in todo[r]
      /\ Key(r) \in Keys /\ BucketOf[Key(r)] \in Buckets
  BY <1>1, CacheAssumption DEF CacheInv, TypeOK, Flow, FileOps, Key
<1>3. TypeOK'
  BY <1>1, <1>2 DEF CacheInv, TypeOK, Contents, plans, janitors, Loops
<1>4. ASSUME NEW p \in Runs PROVE Flow(p)'
  BY <1>1 DEF CacheInv, TypeOK, Flow, Writing, Running, Correcting, plans,
     FileOps
<1>5. ASSUME NEW p \in Runs PROVE Staged(p)'
  BY <1>1 DEF CacheInv, TypeOK, Staged, Key, Data, Correcting, plans
<1>6. ASSUME NEW p \in Runs PROVE Undisturbed(p)'
  BY <1>1 DEF CacheInv, TypeOK, Undisturbed, Key, janitors
<1>7. EntriesAreWhole'
  BY <1>1, <1>2 DEF CacheInv, TypeOK, Staged, EntriesAreWhole, Data,
     Verdicts, Torn
<1> QED
  BY <1>3, <1>4, <1>5, <1>6, <1>7 DEF CacheInv

\* CacheInv survives a rename whose temporary file has gone.
LEMMA RenameFailsKeeps ==
  ASSUME CacheInv, NEW r \in Runs, Rename(r), tmp[MyTmp(r)] = NoFile
  PROVE  CacheInv'
<1>1. /\ pc[r] = "rename" /\ tmp[<<r, Key(r)>>] = NoFile
      /\ pc' = [pc EXCEPT ![r] = "failed"]
      /\ UNCHANGED <<files, plans, at, todo, report, janitors, alone>>
  BY DEF Rename, Fail, Goto, MyTmp, TmpPath, files
<1>2. /\ at[r] \in Mutants /\ at[r] \in todo[r]
      /\ Key(r) \in Keys /\ BucketOf[Key(r)] \in Buckets
  BY <1>1, CacheAssumption DEF CacheInv, TypeOK, Flow, FileOps, Key
<1>3. TypeOK'
  BY <1>1, <1>2 DEF CacheInv, TypeOK, files, plans, janitors, Ends
<1>4. ASSUME NEW p \in Runs PROVE Flow(p)'
  BY <1>1 DEF CacheInv, Flow, Writing, Running, Correcting, plans, FileOps
<1>5. ASSUME NEW p \in Runs PROVE Staged(p)'
  <2>1. CASE p = r
    BY <1>1, <2>1 DEF CacheInv, TypeOK, Staged, files
  <2>2. CASE p # r
    BY <1>1 DEF CacheInv, Staged, Key, Data, Correcting, files, plans
  <2> QED
    BY <2>1, <2>2
<1>6. ASSUME NEW p \in Runs PROVE Undisturbed(p)'
  BY <1>1 DEF CacheInv, Undisturbed, janitors
<1>7. EntriesAreWhole'
  BY <1>1 DEF CacheInv, EntriesAreWhole, files
<1> QED
  BY <1>3, <1>4, <1>5, <1>6, <1>7 DEF CacheInv

\* CacheInv survives a run that is cut short.
LEMMA CrashKeeps ==
  ASSUME CacheInv, NEW r \in Runs, Crash(r)
  PROVE  CacheInv'
<1>1. /\ pc' = [pc EXCEPT ![r] = "crashed"]
      /\ UNCHANGED <<files, plans, at, todo, report, janitors, alone>>
  BY DEF Crash, Goto
<1>2. TypeOK'
  BY <1>1 DEF CacheInv, TypeOK, files, plans, janitors, FileOps, Ends
<1>3. ASSUME NEW p \in Runs PROVE Flow(p)'
  BY <1>1 DEF CacheInv, Flow, Writing, Running, Correcting, plans, Loops,
     FileOps
<1>4. ASSUME NEW p \in Runs PROVE Staged(p)'
  BY <1>1 DEF CacheInv, Staged, Key, Data, Correcting, files, plans
<1>5. ASSUME NEW p \in Runs PROVE Undisturbed(p)'
  BY <1>1 DEF CacheInv, Undisturbed, Key, files, janitors
<1>6. EntriesAreWhole'
  BY <1>1 DEF CacheInv, EntriesAreWhole, files
<1> QED
  BY <1>2, <1>3, <1>4, <1>5, <1>6 DEF CacheInv

\* What a step of a gc or a clean does: it takes files away, and leaves the
\* runs as they are.
Takes(j) ==
  /\ UNCHANGED <<pc, plans, at, todo, report>>
  /\ entry' \in [Keys -> Contents] /\ tmp' \in [Runs \X Keys -> Contents]
  /\ dirs' \in SUBSET Buckets /\ alone' \in SUBSET Runs
  /\ jpc' \in [Janitors -> {"idle", "scan", "prune", "rmdir", "clean", "done"}]
  /\ jtodo' \in [Janitors -> SUBSET Buckets] /\ victims' \in [Janitors -> SUBSET Keys]
  /\ jpc'[j] # "idle"
  /\ \A k \in Keys : entry'[k] \in {NoFile, entry[k]}
  /\ \A f \in Runs \X Keys : tmp'[f] \in {NoFile, tmp[f]}

\* Every action of a gc or a clean is such a step.
LEMMA JanitorTakes ==
  ASSUME TypeOK, NEW j \in Janitors, JanitorStep(j)
  PROVE  Takes(j)
<1>1. ASSUME NEW command \in {"scan", "clean"}, JanitorStart(j, command)
      PROVE  Takes(j)
  BY <1>1 DEF JanitorStart, JGoto, Takes, TypeOK, files
<1>2. ASSUME NEW b \in Buckets, Scan(j, b) PROVE Takes(j)
  BY <1>2 DEF Scan, Takes, TypeOK, files
<1>3. ASSUME NEW S \in SUBSET victims[j], ChooseVictims(j, S) PROVE Takes(j)
  BY <1>3 DEF ChooseVictims, JGoto, Takes, TypeOK, files
<1>4. ASSUME NEW k \in Keys, Prune(j, k) PROVE Takes(j)
  BY <1>4 DEF Prune, Takes, TypeOK, Contents
<1>5. ASSUME ListBuckets(j) PROVE Takes(j)
  BY <1>5 DEF ListBuckets, JGoto, Takes, TypeOK, files
<1>6. ASSUME NEW b \in Buckets, RemoveBucket(j, b) PROVE Takes(j)
  BY <1>6 DEF RemoveBucket, Takes, TypeOK
<1>7. ASSUME NEW k \in Keys, CleanEntry(j, k) PROVE Takes(j)
  BY <1>7 DEF CleanEntry, Takes, TypeOK, Contents, janitors
<1>8. ASSUME NEW r \in Runs, NEW k \in Keys, CleanTmp(j, r, k) PROVE Takes(j)
  BY <1>8 DEF CleanTmp, Takes, TypeOK, Contents, janitors
<1>9. ASSUME NEW b \in Buckets, CleanBucket(j, b) PROVE Takes(j)
  BY <1>9 DEF CleanBucket, Takes, TypeOK, janitors
<1>10. ASSUME JanitorEnds(j) PROVE Takes(j)
  BY <1>10 DEF JanitorEnds, JGoto, Takes, TypeOK, files
<1> QED
  BY <1>1, <1>2, <1>3, <1>4, <1>5, <1>6, <1>7, <1>8, <1>9, <1>10 DEF
     JanitorStep

\* CacheInv survives every step of a gc or a clean.
LEMMA JanitorKeeps ==
  ASSUME CacheInv, NEW j \in Janitors, JanitorStep(j)
  PROVE  CacheInv'
<1>1. Takes(j)
  BY JanitorTakes DEF CacheInv
<1>2. TypeOK'
  BY <1>1 DEF CacheInv, TypeOK, Takes, plans
<1>3. EntriesAreWhole'
  BY <1>1 DEF CacheInv, EntriesAreWhole, Takes, NoFile, Torn
<1>4. ASSUME NEW p \in Runs PROVE Flow(p)'
  BY <1>1 DEF CacheInv, Flow, Takes, plans, Running, Correcting
<1>5. ASSUME NEW p \in Runs PROVE Staged(p)'
  <2>1. /\ pc' = pc /\ at' = at /\ flips' = flips /\ report' = report
        /\ \A k \in Keys : tmp'[<<p, k>>] \in {NoFile, tmp[<<p, k>>]}
    BY <1>1 DEF Takes, plans
  <2>2. pc[p] \in {"recheck", "rename"} => Key(p) \in Keys
    BY CacheAssumption DEF CacheInv, TypeOK, FileOps, Key
  <2> QED
    BY <2>1, <2>2 DEF CacheInv, Staged, Key, Data, Correcting
<1>6. ASSUME NEW p \in Runs PROVE Undisturbed(p)'
  BY <1>1 DEF Undisturbed, Takes
<1> QED
  BY <1>2, <1>3, <1>4, <1>5, <1>6 DEF CacheInv

\* CacheInv survives every step of a run.
LEMMA RunKeeps ==
  ASSUME CacheInv, NEW r \in Runs, RunStep(r)
  PROVE  CacheInv'
<1>1. ASSUME NEW m \in Mutants, LookUp(r, m) \/ Store(r, m) PROVE CacheInv'
  BY <1>1, FoundKeeps, MissKeeps, StoreKnownKeeps, StoreNewKeeps
<1>2. ASSUME Read(r) \/ CreateTmp(r) \/ Recheck(r) \/ Rename(r)
      PROVE  CacheInv'
  BY <1>2, HitKeeps, LoadFailsKeeps, CreateKeeps, CreateFailsKeeps,
     RecheckFreeKeeps, RecheckTakenKeeps, RenameKeeps, RenameFailsKeeps
<1> QED
  BY <1>1, <1>2, StartKeeps, ExecuteKeeps, VerifyKeeps, ForceUpdateKeeps,
     FinishKeeps, MakeDirKeeps, WriteKeeps, CrashKeeps DEF RunStep

\* CacheInv holds in an empty directory before any process starts.
LEMMA InitCacheInv == Init => CacheInv
<1> SUFFICES ASSUME Init PROVE CacheInv
  OBVIOUS
<1>1. TypeOK
  BY DEF Init, TypeOK, Contents, Modes, FileOps
<1>2. EntriesAreWhole
  BY DEF Init, EntriesAreWhole, NoFile, Torn
<1>3. ASSUME NEW r \in Runs PROVE Flow(r) /\ Staged(r) /\ Undisturbed(r)
  BY DEF Init, Flow, Staged, Undisturbed, FileOps
<1> QED
  BY <1>1, <1>2, <1>3 DEF CacheInv

\* The inductive invariant holds of every behaviour.
THEOREM CacheInvHolds == Spec => []CacheInv
<1>1. CacheInv /\ [Next]_vars => CacheInv'
  <2> SUFFICES ASSUME CacheInv, [Next]_vars PROVE CacheInv'
    OBVIOUS
  <2>1. CASE Next
    BY <2>1, JanitorKeeps, RunKeeps DEF Next
  <2>2. CASE UNCHANGED vars
    BY <2>2 DEF CacheInv, TypeOK, EntriesAreWhole, Flow, Staged,
       Undisturbed, Key, Data, Running, Correcting, vars, files, plans, janitors
  <2> QED
    BY <2>1, <2>2
<1> QED
  BY <1>1, InitCacheInv, PTL DEF Spec

\* Every variable of the cache and of the processes that use it keeps its type.
THEOREM CacheTypeCorrect == Spec => []TypeOK
  BY CacheInvHolds, PTL DEF CacheInv

\* Whoever is killed and whenever, the file of an entry holds a whole verdict:
\* load_entry never meets a half-written one.
THEOREM EntriesWhole == Spec => []EntriesAreWhole
  BY CacheInvHolds, PTL DEF CacheInv

\* Only a run that was cut short leaves a temporary file behind: store_entry and
\* force_update_entry rename or remove theirs on every path.
THEOREM NothingLeftOver == Spec => []NoLeftovers
<1>1. CacheInv => NoLeftovers
  BY DEF CacheInv, Staged, NoLeftovers, TmpPath
<1> QED
  BY <1>1, CacheInvHolds, PTL

\* No file operation of a run fails before some gc or clean has started,
\* whatever the other runs do and wherever they die.
THEOREM RunsDoNotFailRuns == Spec => []OnlyJanitorsFailRuns
<1>1. CacheInv => OnlyJanitorsFailRuns
  BY DEF CacheInv, Undisturbed, OnlyJanitorsFailRuns
<1> QED
  BY <1>1, CacheInvHolds, PTL

---------------------------------------------------------------------------
(* The refinement of VerdictCache                                          *)

\* In VerdictCache, a run that starts and lists its mutants is no step.
LEMMA StartRefines ==
  ASSUME CacheInv, CacheInv', NEW r \in Runs, NEW options \in Modes,
         Start(r, options)
  PROVE  [VC!Next]_(VC!vars)
  BY DEF Start, VC!vars, files

\* In VerdictCache, load_entry finding no entry is no step.
LEMMA MissRefines ==
  ASSUME CacheInv, CacheInv', NEW r \in Runs, NEW m \in Mutants,
         LookUp(r, m), entry[KeyOf[m]] = NoFile
  PROVE  [VC!Next]_(VC!vars)
<1>1. /\ pc[r] = "lookup" /\ m \in todo[r]
      /\ todo' = [todo EXCEPT ![r] = @ \ {m}]
      /\ covered' = [covered EXCEPT ![r] = @ \cup {m}]
      /\ UNCHANGED <<files, pc, at, mode, flips, report, janitors, alone>>
  BY DEF LookUp, Skip
<1>2. report[r][m] = NoFile
  BY <1>1 DEF CacheInv, Flow
<1>3. ASSUME NEW p \in Runs
      PROVE  {n \in covered'[p] : report'[p][n] # NoFile} =
               {n \in covered[p] : report[p][n] # NoFile}
  BY <1>1, <1>2
<1> QED
  BY <1>1, <1>3 DEF VC!vars, files

\* In VerdictCache, load_entry finding a file to read is no step.
LEMMA FoundRefines ==
  ASSUME CacheInv, CacheInv', NEW r \in Runs, NEW m \in Mutants,
         LookUp(r, m), entry[KeyOf[m]] # NoFile
  PROVE  [VC!Next]_(VC!vars)
  BY DEF LookUp, VC!vars, files

\* In VerdictCache, load_entry reading a verdict is Hit.
LEMMA HitRefines ==
  ASSUME CacheInv, CacheInv', NEW r \in Runs,
         Read(r), entry[Key(r)] \in Verdicts
  PROVE  [VC!Next]_(VC!vars)
<1>1. /\ pc[r] = "read" /\ pc' = [pc EXCEPT ![r] = "lookup"]
      /\ todo' = [todo EXCEPT ![r] = @ \ {at[r]}]
      /\ report' = [report EXCEPT ![r][at[r]] = entry[Key(r)]]
      /\ UNCHANGED <<files, plans, at, janitors, alone>>
  BY DEF Read, Handled, Goto
<1>2. at[r] \in Mutants /\ report[r][at[r]] = NoFile /\ at[r] \notin covered[r]
  BY <1>1 DEF CacheInv, TypeOK, Flow, FileOps
<1>3. ASSUME NEW p \in Runs
      PROVE  {n \in covered'[p] : report'[p][n] # NoFile} =
               {n \in covered[p] : report[p][n] # NoFile}
  BY <1>1, <1>2 DEF plans
<1>4. VC!Hit(r, at[r])
  BY <1>1, <1>2, <1>3 DEF VC!Hit, Key, files
<1> QED
  BY <1>2, <1>4 DEF VC!Next

\* In VerdictCache, load_entry failing on a file that has gone is no step.
LEMMA LoadFailsRefines ==
  ASSUME CacheInv, CacheInv', NEW r \in Runs,
         Read(r), entry[Key(r)] \notin Verdicts
  PROVE  [VC!Next]_(VC!vars)
  BY DEF Read, VC!vars, plans, files

\* In VerdictCache, the tests of the mutants that missed is Test.
LEMMA ExecuteRefines ==
  ASSUME CacheInv, CacheInv', NEW r \in Runs, NEW found \in [covered[r] -> Verdicts],
         Execute(r, found)
  PROVE  [VC!Next]_(VC!vars)
<1>1. /\ pc[r] = "lookup" /\ pc' = [pc EXCEPT ![r] = "store"]
      /\ todo[r] = {} /\ todo' = [todo EXCEPT ![r] = covered[r]]
      /\ report' = [report EXCEPT ![r] =
                     [m \in Mutants |-> IF m \in covered[r] THEN found[m] ELSE @[m]]]
      /\ UNCHANGED <<files, plans, at, janitors, alone>>
  BY DEF Execute, Goto
<1>2. DOMAIN found = covered[r] /\ covered[r] \in SUBSET Mutants
  BY DEF CacheInv, TypeOK
<1>3. \A m \in covered[r] : report[r][m] = NoFile /\ found[m] \in Warm[m]
  BY <1>2, CacheAssumption DEF CacheInv, Flow, Execute, Outcomes
<1>4. ASSUME NEW p \in Runs
      PROVE  {n \in covered'[p] : report'[p][n] # NoFile} =
               IF p = r THEN DOMAIN found ELSE {n \in covered[p] : report[p][n] # NoFile}
  BY <1>1 DEF CacheInv, TypeOK, plans, Verdicts, NoFile
<1>5. VC!Test(r, found)
  BY <1>1, <1>3, <1>4 DEF VC!Test, files
<1> QED
  BY <1>2, <1>5 DEF VC!Next

\* In VerdictCache, store_entry finding no entry is no step.
LEMMA StoreNewRefines ==
  ASSUME CacheInv, CacheInv', NEW r \in Runs, NEW m \in Mutants,
         Store(r, m), entry[KeyOf[m]] = NoFile
  PROVE  [VC!Next]_(VC!vars)
  BY DEF Store, VC!vars, plans, files

\* In VerdictCache, store_entry finding an entry is no step.
LEMMA StoreKnownRefines ==
  ASSUME CacheInv, CacheInv', NEW r \in Runs, NEW m \in Mutants,
         Store(r, m), entry[KeyOf[m]] # NoFile
  PROVE  [VC!Next]_(VC!vars)
  BY DEF Store, VC!vars, plans, files

\* In VerdictCache, phase_verify_survivors choosing what to correct is no step.
LEMMA VerifyRefines ==
  ASSUME CacheInv, CacheInv', NEW r \in Runs, Verify(r)
  PROVE  [VC!Next]_(VC!vars)
  BY DEF Verify, VC!vars, files

\* In VerdictCache, force_update_entry beginning is no step.
LEMMA ForceUpdateRefines ==
  ASSUME CacheInv, CacheInv', NEW r \in Runs, NEW m \in Mutants,
         ForceUpdate(r, m)
  PROVE  [VC!Next]_(VC!vars)
  BY DEF ForceUpdate, VC!vars, plans, files

\* In VerdictCache, apply_verification_corrections is Amend.
LEMMA FinishRefines ==
  ASSUME CacheInv, CacheInv', NEW r \in Runs, Finish(r)
  PROVE  [VC!Next]_(VC!vars)
<1>1. /\ pc[r] = "correct" /\ pc' = [pc EXCEPT ![r] = "done"]
      /\ report' = [report EXCEPT ![r] =
                     [m \in Mutants |-> IF m \in flips[r] THEN "killed" ELSE @[m]]]
      /\ UNCHANGED <<files, plans, at, todo, janitors, alone>>
  BY DEF Finish, Goto
<1>2. \A m \in flips[r] : m \in Mutants /\ report[r][m] = "survived" /\ Isolated[m] = "killed"
  BY <1>1 DEF CacheInv, TypeOK, Flow, Running, Loops
<1>3. ASSUME NEW p \in Runs
      PROVE  {n \in covered'[p] : report'[p][n] # NoFile} =
               {n \in covered[p] : report[p][n] # NoFile}
  BY <1>1, <1>2 DEF CacheInv, TypeOK, plans, NoFile
<1>4. VC!Amend(r, flips[r])
  BY <1>1, <1>2, <1>3 DEF VC!Amend, files
<1> QED
  BY <1>4 DEF CacheInv, TypeOK, VC!Next

\* In VerdictCache, create_dir_all is no step.
LEMMA MakeDirRefines ==
  ASSUME CacheInv, CacheInv', NEW r \in Runs, MakeDir(r)
  PROVE  [VC!Next]_(VC!vars)
  BY DEF MakeDir, VC!vars, plans

\* In VerdictCache, fs::write creating the temporary file is no step.
LEMMA CreateRefines ==
  ASSUME CacheInv, CacheInv', NEW r \in Runs,
         CreateTmp(r), BucketOf[Key(r)] \in dirs
  PROVE  [VC!Next]_(VC!vars)
  BY DEF CreateTmp, VC!vars, plans

\* In VerdictCache, fs::write finding no bucket is no step.
LEMMA CreateFailsRefines ==
  ASSUME CacheInv, CacheInv', NEW r \in Runs,
         CreateTmp(r), BucketOf[Key(r)] \notin dirs
  PROVE  [VC!Next]_(VC!vars)
  BY DEF CreateTmp, VC!vars, plans

\* In VerdictCache, fs::write filling the temporary file is no step.
LEMMA WriteRefines ==
  ASSUME CacheInv, CacheInv', NEW r \in Runs, WriteTmp(r)
  PROVE  [VC!Next]_(VC!vars)
  BY DEF WriteTmp, VC!vars, plans

\* In VerdictCache, store_entry finding no entry again is no step.
LEMMA RecheckFreeRefines ==
  ASSUME CacheInv, CacheInv', NEW r \in Runs, Recheck(r), entry[Key(r)] = NoFile
  PROVE  [VC!Next]_(VC!vars)
  BY DEF Recheck, VC!vars, plans

\* In VerdictCache, store_entry finding an entry after all is no step.
LEMMA RecheckTakenRefines ==
  ASSUME CacheInv, CacheInv', NEW r \in Runs, Recheck(r), entry[Key(r)] # NoFile
  PROVE  [VC!Next]_(VC!vars)
  BY DEF Recheck, VC!vars, plans

\* In VerdictCache, the rename into place is Record or Correct.
LEMMA RenameRefines ==
  ASSUME CacheInv, CacheInv', NEW r \in Runs, Rename(r), tmp[MyTmp(r)] # NoFile
  PROVE  [VC!Next]_(VC!vars)
<1>1. /\ pc[r] = "rename" /\ tmp[<<r, Key(r)>>] # NoFile
      /\ pc' = [pc EXCEPT ![r] = IF Correcting(r) THEN "correct" ELSE "store"]
      /\ todo' = [todo EXCEPT ![r] = @ \ {at[r]}]
      /\ entry' = [entry EXCEPT ![Key(r)] = tmp[<<r, Key(r)>>]]
      /\ tmp' = [tmp EXCEPT ![<<r, Key(r)>>] = NoFile]
      /\ UNCHANGED <<dirs, plans, at, report, janitors, alone>>
  BY DEF Rename, Handled, Goto, MyTmp, TmpPath
<1>2. at[r] \in Mutants /\ at[r] \in covered[r] /\ report[r][at[r]] \in Verdicts
  BY <1>1 DEF CacheInv, TypeOK, Flow, FileOps, Writing
<1>3. entry' = [entry EXCEPT ![KeyOf[at[r]]] = Data(r)]
  BY <1>1 DEF CacheInv, Staged, Key
<1>4. report' = report /\ covered' = covered
  BY <1>1 DEF plans
<1>5. at[r] \in {n \in covered[r] : report[r][n] # NoFile}
  BY <1>2 DEF Verdicts, NoFile
<1>6. CASE Correcting(r)
  <2>1. report[r][at[r]] = "survived" /\ Isolated[at[r]] = "killed"
    BY <1>1, <1>6 DEF CacheInv, Flow, Running, FileOps
  <2>2. VC!Correct(r, at[r])
    BY <1>3, <1>4, <1>5, <1>6, <2>1 DEF VC!Correct, Data
  <2> QED
    BY <1>2, <2>2 DEF VC!Next
<1>7. CASE ~Correcting(r)
  <2>1. VC!Record(r, at[r])
    BY <1>3, <1>4, <1>5, <1>7 DEF VC!Record, Data
  <2> QED
    BY <1>2, <2>1 DEF VC!Next
<1> QED
  BY <1>6, <1>7

\* In VerdictCache, a rename whose temporary file has gone is no step.
LEMMA RenameFailsRefines ==
  ASSUME CacheInv, CacheInv', NEW r \in Runs, Rename(r), tmp[MyTmp(r)] = NoFile
  PROVE  [VC!Next]_(VC!vars)
  BY DEF Rename, VC!vars, plans

\* In VerdictCache, a run that is cut short is no step.
LEMMA CrashRefines ==
  ASSUME CacheInv, CacheInv', NEW r \in Runs, Crash(r)
  PROVE  [VC!Next]_(VC!vars)
  BY DEF Crash, VC!vars, plans, files

\* A gc or a clean loses one entry of the map at a time.
LEMMA JanitorRefines ==
  ASSUME CacheInv, NEW j \in Janitors, JanitorStep(j)
  PROVE  [VC!Next]_(VC!vars)
<1>1. covered' = covered /\ report' = report
  BY JanitorTakes DEF CacheInv, Takes, plans
<1>2. ASSUME NEW k \in Keys, Prune(j, k) \/ CleanEntry(j, k) PROVE VC!Next
  BY <1>1, <1>2 DEF Prune, CleanEntry, VC!Next, VC!Lose
<1>3. CASE entry' = entry
  BY <1>1, <1>3 DEF VC!vars
<1> QED
  BY <1>2, <1>3 DEF JanitorStep, JanitorStart, Scan, ChooseVictims,
     ListBuckets, RemoveBucket, CleanTmp, CleanBucket, JanitorEnds, files

\* Every step of a run is a step of VerdictCache or a stutter.
LEMMA RunRefines ==
  ASSUME CacheInv, CacheInv', NEW r \in Runs, RunStep(r)
  PROVE  [VC!Next]_(VC!vars)
<1>1. ASSUME NEW m \in Mutants, LookUp(r, m) \/ Store(r, m)
      PROVE  [VC!Next]_(VC!vars)
  BY <1>1, FoundRefines, MissRefines, StoreKnownRefines, StoreNewRefines
<1>2. ASSUME Read(r) \/ CreateTmp(r) \/ Recheck(r) \/ Rename(r)
      PROVE  [VC!Next]_(VC!vars)
  BY <1>2, HitRefines, LoadFailsRefines, CreateRefines, CreateFailsRefines,
     RecheckFreeRefines, RecheckTakenRefines, RenameRefines, RenameFailsRefines
<1> QED
  BY <1>1, <1>2, StartRefines, ExecuteRefines, VerifyRefines,
     ForceUpdateRefines, FinishRefines, MakeDirRefines, WriteRefines, CrashRefines DEF RunStep

\* The files implement the map: entries and reports hold only verdicts that a
\* test of a mutant of that key gave, in whatever order the file operations of
\* any number of runs, gcs and cleans come.
THEOREM FilesImplementMap == Spec => ImplementsVerdictCache
<1>1. Init => VC!Init
  BY DEF Init, VC!Init
<1>2. CacheInv /\ CacheInv' /\ [Next]_vars => [VC!Next]_(VC!vars)
  <2> SUFFICES ASSUME CacheInv, CacheInv', [Next]_vars PROVE [VC!Next]_(VC!vars)
    OBVIOUS
  <2>1. CASE Next
    BY <2>1, JanitorRefines, RunRefines DEF Next
  <2>2. CASE UNCHANGED vars
    BY <2>2 DEF vars, files, plans, VC!vars
  <2> QED
    BY <2>1, <2>2
<1> QED
  BY <1>1, <1>2, CacheInvHolds, PTL DEF Spec, VC!Spec, ImplementsVerdictCache

---------------------------------------------------------------------------
(* A run that has the directory to itself                                  *)

\* Mutants of one function text under the same tests share a key, and then one
\* entry cannot say what a run reports of each.
OwnEntries == \A m, n \in Mutants : KeyOf[m] = KeyOf[n] => m = n

\* No other run and no gc or clean is under way.
Unshared(r) ==
  /\ \A q \in Runs : Running(q) => q = r
  /\ \A j \in Janitors : ~Cleaning(j)

\* What the directory says of the mutants of a run, phase by phase: those it
\* missed have no entry until it stores them, the others have its verdict, and a
\* correction turns the entry before it turns the report.
Mirrored(r) ==
  /\ pc[r] \in {"lookup", "read"} =>
       /\ \A m \in covered[r] : entry[KeyOf[m]] = NoFile
       /\ \A m \in Mutants \ (todo[r] \cup covered[r]) :
            entry[KeyOf[m]] = report[r][m]
  /\ pc[r] \in Writing \cup {"store"} /\ ~Correcting(r) =>
       /\ \A m \in todo[r] : entry[KeyOf[m]] = NoFile
       /\ \A m \in Mutants \ todo[r] : entry[KeyOf[m]] = report[r][m]
  /\ pc[r] = "correct" \/ (pc[r] \in Writing /\ Correcting(r)) =>
       /\ \A m \in flips[r] \ todo[r] : entry[KeyOf[m]] = "killed"
       /\ \A m \in Mutants \ flips[r] : entry[KeyOf[m]] = report[r][m]

SoloInv ==
  \A r \in alone : /\ pc[r] # "idle"
                   /\ Running(r) => Unshared(r) /\ Mirrored(r)

\* What every step of a run but its first leaves to the others.
LEMMA OthersWait ==
  ASSUME TypeOK, NEW r \in Runs, RunStep(r), pc[r] # "idle"
  PROVE  /\ Running(r) /\ alone' = alone /\ jpc' = jpc /\ pc'[r] # "idle"
         /\ \A q \in Runs \ {r} : pc'[q] = pc[q]
<1>1. ASSUME NEW m \in Mutants, LookUp(r, m) \/ Store(r, m) \/ ForceUpdate(r, m)
      PROVE  /\ pc[r] \in Loops /\ alone' = alone /\ jpc' = jpc
             /\ \/ pc' = pc
                \/ \E l \in FileOps : pc' = [pc EXCEPT ![r] = l]
  BY <1>1 DEF LookUp, Store, ForceUpdate, Begin, Skip, Goto, janitors, Loops,
     FileOps
<1>2. ASSUME \/ \E found \in [covered[r] -> Verdicts] : Execute(r, found)
             \/ Read(r) \/ Verify(r) \/ Finish(r) \/ MakeDir(r) \/ CreateTmp(r)
             \/ WriteTmp(r) \/ Recheck(r) \/ Rename(r) \/ Crash(r)
      PROVE  /\ Running(r) /\ alone' = alone /\ jpc' = jpc
             /\ \E l \in Loops \cup FileOps \cup Ends : pc' = [pc EXCEPT ![r] = l]
  BY <1>2 DEF Execute, Read, Verify, Finish, MakeDir, CreateTmp, WriteTmp,
     Recheck, Rename, Crash, Handled, Fail, Goto, janitors, Running, Loops,
     FileOps, Ends
<1>3. \A options \in Modes : ~Start(r, options)
  BY DEF Start
<1>4. DOMAIN pc = Runs
  BY DEF TypeOK
<1>5. \A l \in Loops \cup FileOps \cup Ends : l # "idle"
  BY DEF Loops, FileOps, Ends
<1>6. CASE \E m \in Mutants : LookUp(r, m) \/ Store(r, m) \/ ForceUpdate(r, m)
  BY <1>1, <1>4, <1>5, <1>6 DEF Running
<1>7. CASE ~\E m \in Mutants : LookUp(r, m) \/ Store(r, m) \/ ForceUpdate(r, m)
  BY <1>2, <1>3, <1>4, <1>5, <1>7 DEF RunStep
<1> QED
  BY <1>6, <1>7

\* A run keeps the directory its mirror in its lookups.
LEMMA LookUpMirrors ==
  ASSUME CacheInv, NEW r \in Runs, Mirrored(r),
         \/ \E m \in Mutants : LookUp(r, m)
         \/ Read(r)
         \/ \E found \in [covered[r] -> Verdicts] : Execute(r, found)
  PROVE  Running(r)' => Mirrored(r)'
<1>1. ASSUME NEW m \in Mutants, LookUp(r, m) PROVE Mirrored(r)'
  <2>1. /\ pc[r] = "lookup" /\ m \in todo[r]
        /\ UNCHANGED <<entry, report, flips>>
    BY <1>1 DEF LookUp, files
  <2>2. CASE entry[KeyOf[m]] = NoFile
    <3>1. /\ pc'[r] = "lookup" /\ todo'[r] = todo[r] \ {m}
          /\ covered'[r] = covered[r] \cup {m}
      BY <1>1, <2>1, <2>2 DEF LookUp, Skip, CacheInv, TypeOK
    <3> QED
      BY <2>1, <2>2, <3>1 DEF Mirrored, Writing
  <2>3. CASE entry[KeyOf[m]] # NoFile
    <3>1. pc'[r] = "read" /\ UNCHANGED <<todo, covered>>
      BY <1>1, <2>1, <2>3 DEF LookUp, Begin, Goto, CacheInv, TypeOK
    <3> QED
      BY <2>1, <3>1 DEF Mirrored, Writing
  <2> QED
    BY <2>2, <2>3
<1>2. ASSUME Read(r), Running(r)' PROVE Mirrored(r)'
  <2>1. /\ pc[r] = "read" /\ UNCHANGED <<entry, flips, covered>>
        /\ pc'[r] = "lookup" /\ todo'[r] = todo[r] \ {at[r]}
        /\ at[r] \in Mutants
        /\ report'[r] = [report[r] EXCEPT ![at[r]] = entry[KeyOf[at[r]]]]
    BY <1>2 DEF Read, Handled, Fail, Goto, Key, CacheInv, TypeOK, FileOps,
       Running, Loops, files, plans
  <2>2. DOMAIN report[r] = Mutants
    BY DEF CacheInv, TypeOK
  <2> QED
    BY <2>1, <2>2 DEF Mirrored, Writing
<1>3. ASSUME NEW found \in [covered[r] -> Verdicts], Execute(r, found)
      PROVE  Mirrored(r)'
  <2>1. /\ pc[r] = "lookup" /\ todo[r] = {} /\ UNCHANGED <<entry, flips>>
        /\ pc'[r] = "store" /\ todo'[r] = covered[r]
        /\ \A m \in Mutants \ covered[r] : report'[r][m] = report[r][m]
    BY <1>3 DEF Execute, Goto, CacheInv, TypeOK, files, plans
  <2> QED
    BY <2>1 DEF Mirrored, Writing
<1> QED
  BY <1>1, <1>2, <1>3

\* A run keeps the directory its mirror from one entry to the next: a mutant it
\* has yet to store has no entry, so that it skips none.
LEMMA LoopMirrors ==
  ASSUME CacheInv, NEW r \in Runs, Mirrored(r),
         \/ \E m \in Mutants : Store(r, m) \/ ForceUpdate(r, m)
         \/ Verify(r) \/ MakeDir(r) \/ Crash(r)
  PROVE  Running(r)' => Mirrored(r)'
<1>1. ASSUME NEW m \in Mutants, Store(r, m) PROVE Mirrored(r)'
  <2>1. /\ pc[r] = "store" /\ m \in todo[r] /\ flips[r] = {}
        /\ UNCHANGED <<entry, report, flips, covered>>
    BY <1>1 DEF Store, CacheInv, Flow, files, plans
  <2>2. entry[KeyOf[m]] = NoFile
    BY <2>1 DEF Mirrored, Correcting
  <2>3. pc'[r] = "mkdir" /\ todo' = todo
    BY <1>1, <2>1, <2>2 DEF Store, Begin, Goto, CacheInv, TypeOK
  <2> QED
    BY <2>1, <2>3 DEF Mirrored, Correcting, Writing
<1>2. ASSUME NEW m \in Mutants, ForceUpdate(r, m) PROVE Mirrored(r)'
  <2>1. /\ pc[r] = "correct" /\ m \in todo[r] /\ pc'[r] = "mkdir"
        /\ UNCHANGED <<entry, report, flips, covered, todo>>
    BY <1>2 DEF ForceUpdate, Begin, Goto, CacheInv, TypeOK, files, plans
  <2>2. flips[r] # {}
    BY <2>1 DEF CacheInv, Flow
  <2> QED
    BY <2>1, <2>2 DEF Mirrored, Correcting, Writing
<1>3. ASSUME Verify(r) PROVE Mirrored(r)'
  <2>1. /\ pc[r] = "store" /\ todo[r] = {} /\ pc'[r] = "correct"
        /\ UNCHANGED <<entry, report, covered>> /\ todo'[r] = flips'[r]
        /\ flips[r] = {}
    BY <1>3 DEF Verify, Goto, CacheInv, TypeOK, Flow, files
  <2> QED
    BY <2>1 DEF Mirrored, Correcting, Writing
<1>4. ASSUME MakeDir(r) PROVE Mirrored(r)'
  <2>1. /\ pc[r] = "mkdir" /\ pc'[r] = "create"
        /\ UNCHANGED <<entry, report, flips, covered, todo>>
    BY <1>4 DEF MakeDir, Goto, CacheInv, TypeOK, plans
  <2> QED
    BY <2>1 DEF Mirrored, Correcting, Writing
<1>5. ASSUME Crash(r) PROVE ~Running(r)'
  BY <1>5 DEF Crash, Goto, CacheInv, TypeOK, Running, Loops, FileOps
<1> QED
  BY <1>1, <1>2, <1>3, <1>4, <1>5

\* A run keeps the directory its mirror while it writes an entry: the rename
\* gives the mutant, and no other, the verdict of the temporary file.
LEMMA WriteMirrors ==
  ASSUME CacheInv, OwnEntries, NEW r \in Runs, Mirrored(r),
         CreateTmp(r) \/ WriteTmp(r) \/ Recheck(r) \/ Rename(r)
  PROVE  Running(r)' => Mirrored(r)'
<1>1. ASSUME CreateTmp(r), Running(r)' PROVE Mirrored(r)'
  <2>1. /\ pc[r] = "create" /\ pc'[r] = "write"
        /\ UNCHANGED <<entry, report, flips, covered, todo>>
    BY <1>1 DEF CreateTmp, Fail, Goto, CacheInv, TypeOK, Running, Loops,
       FileOps, plans
  <2> QED
    BY <2>1 DEF Mirrored, Correcting, Writing
<1>2. ASSUME WriteTmp(r) PROVE Mirrored(r)'
  <2>1. /\ pc[r] = "write" /\ pc'[r] \in {"recheck", "rename"}
        /\ UNCHANGED <<entry, report, flips, covered, todo>>
    BY <1>2 DEF WriteTmp, Goto, CacheInv, TypeOK, plans
  <2> QED
    BY <2>1 DEF Mirrored, Correcting, Writing
<1>3. ASSUME Recheck(r) PROVE Mirrored(r)'
  <2>1. /\ pc[r] = "recheck" /\ flips[r] = {} /\ at[r] \in todo[r]
        /\ UNCHANGED <<entry, report, flips, covered>>
    BY <1>3 DEF Recheck, CacheInv, Flow, FileOps, plans
  <2>2. entry[Key(r)] = NoFile
    BY <2>1 DEF Mirrored, Correcting, Writing, Key
  <2>3. pc'[r] = "rename" /\ todo' = todo
    BY <1>3, <2>2 DEF Recheck, Goto, CacheInv, TypeOK
  <2> QED
    BY <2>1, <2>3 DEF Mirrored, Correcting, Writing
<1>4. ASSUME Rename(r), Running(r)' PROVE Mirrored(r)'
  <2>1. /\ pc[r] = "rename" /\ tmp[<<r, Key(r)>>] # NoFile
        /\ pc'[r] = IF Correcting(r) THEN "correct" ELSE "store"
        /\ todo'[r] = todo[r] \ {at[r]}
        /\ entry' = [entry EXCEPT ![Key(r)] = tmp[<<r, Key(r)>>]]
        /\ UNCHANGED <<report, flips, covered>>
    BY <1>4 DEF Rename, Handled, Fail, Goto, MyTmp, TmpPath, CacheInv, TypeOK,
       Running, Loops, FileOps, plans
  <2>2. at[r] \in todo[r] /\ at[r] \in Mutants /\ Key(r) \in Keys
    BY <2>1, CacheAssumption DEF CacheInv, TypeOK, Flow, FileOps, Key
  <2>3. tmp[<<r, Key(r)>>] = Data(r)
    BY <2>1 DEF CacheInv, Staged
  <2>4. /\ entry'[KeyOf[at[r]]] = Data(r)
        /\ \A m \in Mutants \ {at[r]} : entry'[KeyOf[m]] = entry[KeyOf[m]]
    BY <2>1, <2>2, <2>3, CacheAssumption DEF CacheInv, TypeOK, OwnEntries, Key
  <2>5. CASE Correcting(r)
    <3>1. at[r] \in flips[r] /\ flips[r] \subseteq Mutants
      BY <2>1, <2>2, <2>5 DEF CacheInv, TypeOK, Flow, Running, FileOps
    <3> QED
      BY <2>1, <2>2, <2>4, <2>5, <3>1 DEF Mirrored, Correcting, Data, Writing
  <2>6. CASE ~Correcting(r)
    <3>1. todo[r] \subseteq Mutants
      BY DEF CacheInv, TypeOK
    <3> QED
      BY <2>1, <2>2, <2>4, <2>6, <3>1 DEF Mirrored, Correcting, Data, Writing
  <2> QED
    BY <2>5, <2>6
<1> QED
  BY <1>1, <1>2, <1>3, <1>4

\* SoloInv survives a run that starts: it shares the directory with every run
\* that is under way, and mirrors it trivially.
LEMMA StartSolo ==
  ASSUME CacheInv, SoloInv, NEW r \in Runs, NEW options \in Modes,
         Start(r, options)
  PROVE  SoloInv'
<1>1. /\ pc[r] = "idle" /\ pc' = [pc EXCEPT ![r] = "lookup"]
      /\ todo' = [todo EXCEPT ![r] = Mutants] /\ jpc' = jpc
      /\ UNCHANGED <<entry, covered, flips, report>>
      /\ DOMAIN pc = Runs /\ covered[r] = {} /\ todo'[r] = Mutants
  BY DEF Start, Goto, files, janitors, CacheInv, TypeOK, Flow
<1>2. ASSUME NEW p \in alone'
      PROVE  /\ pc'[p] # "idle"
             /\ Running(p)' => Unshared(p)' /\ Mirrored(p)'
  <2>1. CASE p = r
    <3>1. r \notin alone
      BY <1>1 DEF SoloInv
    <3>2. /\ \A q \in Runs : ~Running(q)
          /\ \A j \in Janitors : ~Cleaning(j)
      BY <2>1, <3>1 DEF Start
    <3>3. Unshared(p)'
      BY <1>1, <2>1, <3>2 DEF Unshared, Running, Cleaning
    <3>4. Mirrored(p)'
      BY <1>1, <2>1 DEF Mirrored, Writing
    <3> QED
      BY <1>1, <2>1, <3>3, <3>4
  <2>2. CASE p # r
    <3>1. p \in alone /\ ~Running(p) /\ p \in Runs
      BY <2>2 DEF Start, CacheInv, TypeOK
    <3>2. pc'[p] = pc[p]
      BY <1>1, <2>2, <3>1
    <3> QED
      BY <3>1, <3>2 DEF SoloInv, Running
  <2> QED
    BY <2>1, <2>2
<1> QED
  BY <1>2 DEF SoloInv

\* SoloInv survives every other step of a run.
LEMMA RunSolo ==
  ASSUME CacheInv, SoloInv, OwnEntries, NEW r \in Runs, RunStep(r)
  PROVE  SoloInv'
<1>1. CASE pc[r] = "idle"
  BY <1>1, StartSolo DEF RunStep, LookUp, Store, ForceUpdate, Execute, Read,
     Verify, Finish, MakeDir, CreateTmp, WriteTmp, Recheck, Rename, Crash,
     Running, Loops, FileOps
<1>2. CASE pc[r] # "idle"
  <2>1. /\ Running(r) /\ alone' = alone /\ jpc' = jpc /\ pc'[r] # "idle"
        /\ \A q \in Runs \ {r} : pc'[q] = pc[q]
    BY <1>2, OthersWait DEF CacheInv
  <2>2. ASSUME Mirrored(r), Running(r)' PROVE Mirrored(r)'
    <3>1. ~\E options \in Modes : Start(r, options)
      BY <1>2 DEF Start
    <3>2. ~Finish(r)
      BY <2>2 DEF Finish, Goto, CacheInv, TypeOK, Running, Loops, FileOps
    <3> QED
      BY <2>2, <3>1, <3>2, LookUpMirrors, LoopMirrors, WriteMirrors DEF RunStep
  <2>3. ASSUME NEW p \in alone
        PROVE  /\ pc'[p] # "idle"
               /\ Running(p)' => Unshared(p)' /\ Mirrored(p)'
    <3>1. p \in Runs /\ pc[p] # "idle"
      BY <2>3 DEF SoloInv, CacheInv, TypeOK
    <3>2. CASE p = r
      BY <2>1, <2>2, <2>3, <3>2 DEF SoloInv, Unshared, Running, Cleaning
    <3>3. CASE p # r
      <4>1. pc'[p] = pc[p] /\ ~Running(p)
        BY <2>1, <3>1, <3>3 DEF SoloInv, Unshared
      <4> QED
        BY <3>1, <4>1 DEF Running
    <3> QED
      BY <3>2, <3>3
  <2> QED
    BY <2>1, <2>3 DEF SoloInv
<1> QED
  BY <1>1, <1>2

\* SoloInv survives every step of a gc or a clean: the first ends the solitude of
\* the runs under way, and the later ones find none.
LEMMA JanitorSolo ==
  ASSUME CacheInv, SoloInv, NEW j \in Janitors, JanitorStep(j)
  PROVE  SoloInv'
<1>1. pc' = pc
  BY JanitorTakes DEF CacheInv, Takes
<1>2. \/ alone' = {r \in alone : ~Running(r)}
      \/ alone' = alone /\ Cleaning(j)
  BY DEF JanitorStep, JanitorStart, Scan, RemoveBucket, CleanBucket,
     ChooseVictims, Prune, CleanEntry, CleanTmp, ListBuckets, JanitorEnds,
     Cleaning
<1>3. \A p \in alone' : p \in alone /\ ~Running(p)
  BY <1>2 DEF SoloInv, Unshared
<1> QED
  BY <1>1, <1>3 DEF SoloInv, Running

\* A run that had the directory to itself leaves there exactly what it reports:
\* store_entry skips nothing it has to store, and force_update_entry changes the
\* entries that apply_verification_corrections changes in the report.
THEOREM SoloRunsAreCached ==
  ASSUME OwnEntries
  PROVE  Spec => SoloRunCachesWhatItReports
<1>1. Init => SoloInv
  BY DEF Init, SoloInv
<1>2. CacheInv /\ SoloInv /\ [Next]_vars => SoloInv'
  <2> SUFFICES ASSUME CacheInv, SoloInv, [Next]_vars PROVE SoloInv'
    OBVIOUS
  <2>1. CASE Next
    BY <2>1, RunSolo, JanitorSolo, OwnEntries DEF Next
  <2>2. CASE UNCHANGED vars
    BY <2>2 DEF SoloInv, Unshared, Mirrored, Running, Cleaning, Correcting,
       vars, files, plans, janitors
  <2> QED
    BY <2>1, <2>2
<1>3. CacheInv /\ SoloInv /\ [Next]_vars =>
        [\A r \in alone : Running(r) /\ pc'[r] = "done" =>
           \A m \in Mutants : entry'[KeyOf[m]] = report'[r][m]]_vars
  <2> SUFFICES ASSUME CacheInv, SoloInv, Next,
                      NEW r \in alone, Running(r), pc'[r] = "done",
                      NEW m \in Mutants
               PROVE  entry'[KeyOf[m]] = report'[r][m]
    OBVIOUS
  <2>1. r \in Runs /\ Unshared(r) /\ Mirrored(r) /\ DOMAIN pc = Runs
    BY DEF SoloInv, CacheInv, TypeOK
  <2>2. pc[r] # "done"
    BY DEF Running, Loops, FileOps
  <2>3. RunStep(r)
    <3>1. ASSUME NEW j \in Janitors, JanitorStep(j) PROVE pc' = pc
      BY <3>1, JanitorTakes DEF CacheInv, Takes
    <3>2. PICK p \in Runs : RunStep(p)
      BY <2>2, <3>1 DEF Next
    <3>3. CASE pc[p] = "idle"
      <4>1. \E l \in {"lookup"} : pc' = [pc EXCEPT ![p] = l]
        BY <3>2, <3>3 DEF RunStep, Start, LookUp, Store, ForceUpdate, Execute,
           Read, Verify, Finish, MakeDir, CreateTmp, WriteTmp, Recheck, Rename,
           Crash, Goto, Running, Loops, FileOps
      <4> QED
        BY <2>1, <2>2, <4>1
    <3>4. CASE pc[p] # "idle"
      BY <2>1, <3>2, <3>4, OthersWait DEF CacheInv, Unshared
    <3> QED
      BY <3>3, <3>4
  <2>4. Finish(r)
    <3>1. ASSUME NEW n \in Mutants, LookUp(r, n) \/ Store(r, n) \/ ForceUpdate(r, n)
          PROVE  pc'[r] # "done"
      BY <2>1, <2>2, <3>1 DEF LookUp, Store, ForceUpdate, Begin, Skip, Goto
    <3>2. ASSUME \/ \E options \in Modes : Start(r, options)
                 \/ \E found \in [covered[r] -> Verdicts] : Execute(r, found)
                 \/ Read(r) \/ Verify(r) \/ MakeDir(r) \/ CreateTmp(r)
                 \/ WriteTmp(r) \/ Recheck(r) \/ Rename(r) \/ Crash(r)
          PROVE  pc'[r] # "done"
      BY <2>1, <3>2 DEF Start, Execute, Read, Verify, MakeDir, CreateTmp,
         WriteTmp, Recheck, Rename, Crash, Handled, Fail, Goto
    <3> QED
      BY <2>3, <3>1, <3>2 DEF RunStep
  <2>5. /\ pc[r] = "correct" /\ todo[r] = {} /\ entry' = entry
        /\ report'[r][m] = IF m \in flips[r] THEN "killed" ELSE report[r][m]
    BY <2>1, <2>4 DEF Finish, CacheInv, TypeOK, files
  <2> QED
    BY <2>1, <2>5 DEF Mirrored
<1> QED
  BY <1>1, <1>2, <1>3, CacheInvHolds, PTL DEF Spec, SoloRunCachesWhatItReports
===============================================================================
