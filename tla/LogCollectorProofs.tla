------------------------- MODULE LogCollectorProofs -------------------------
(***************************************************************************)
(* Proofs about LogCollector for any number of runs and disturbances: one  *)
(* run collects at a time, a system run leaves the folder whole, no run is *)
(* shut out, and the types.                                                *)
(***************************************************************************)
EXTENDS LogCollector, TLAPS

PCs == {"idle", "create", "own", "open", "wait", "notes", "collect",
        "handOver", "draft", "fill", "move", "end"}

\* pc and the lock's part of TypeOK, which the lock needs.
ControlOK ==
    /\ pc \in [Runs -> PCs]
    /\ holder \in Runs \union {Nobody}

\* A run that writes has the lock: the strengthening of OneAtATime.
WritersHold == \A r \in Runs : Working(r) => holder = r

LockInv == ControlOK /\ WritersHold

LEMMA LockInit == Init => LockInv
BY DEF Init, LockInv, ControlOK, WritersHold, Working, PCs

LEMMA LockStep == LockInv /\ [Next]_vars => LockInv'
<1> SUFFICES ASSUME LockInv, [Next]_vars PROVE LockInv'
  OBVIOUS
<1> USE RunsAssumption DEF LockInv, ControlOK, WritersHold, Working, PCs
<1>1. ASSUME NEW r \in Runs, Start(r) PROVE LockInv'
  BY <1>1 DEF Start, Goto
<1>2. ASSUME NEW r \in Runs, Create(r) \/ Own(r) \/ Open(r) PROVE LockInv'
  BY <1>2 DEF Create, Own, Open, Goto
<1>3. ASSUME NEW r \in Runs, Acquire(r) PROVE LockInv'
  BY <1>3 DEF Acquire, Goto
<1>4. ASSUME NEW r \in Runs, GiveUp(r) PROVE LockInv'
  BY <1>4 DEF GiveUp, Goto
<1>5. ASSUME NEW r \in Runs, WriteNotes(r) \/ Collect(r) \/ HandOver(r) PROVE LockInv'
  BY <1>5 DEF WriteNotes, Collect, HandOver, Goto, quiet
<1>6. ASSUME NEW r \in Runs, Draft(r) \/ Fill(r) \/ Move(r) PROVE LockInv'
  BY <1>6 DEF Draft, Fill, Move, Goto, quiet
<1>7. ASSUME NEW r \in Runs, End(r) PROVE LockInv'
  BY <1>7 DEF End, Goto
<1>8. ASSUME NEW r \in Runs, Killed(r) PROVE LockInv'
  BY <1>8 DEF Killed
<1>9. CASE LeaveSetup
  BY <1>9 DEF LeaveSetup
<1>10. CASE PowerLoss
  BY <1>10 DEF PowerLoss
<1>11. CASE GiveAway
  BY <1>11 DEF GiveAway
<1>12. CASE UNCHANGED vars
  BY <1>12 DEF vars
<1> QED
  BY <1>1, <1>2, <1>3, <1>4, <1>5, <1>6, <1>7, <1>8, <1>9, <1>10, <1>11, <1>12 DEF Next, Step

\* Two runs never write into the folder at the same time, however many there are,
\* whichever are killed, and however long others waited (flock in
\* aero7-collect-logs).
THEOREM OneCollects == Spec => []OneAtATime
<1>1. LockInv => OneAtATime
  BY RunsAssumption DEF LockInv, WritersHold, OneAtATime
<1> QED
  BY <1>1, LockInit, LockStep, PTL DEF Spec

-----------------------------------------------------------------------------
(* Behind a system run.                                                    *)

Made == {"folder", "boots", "boot", "lock"}

\* Everything that was collected is described by manifest.
Covers(manifest) == \A x \in Sections : owner[x] # "none" => x \in manifest

\* What a system run has established on its way: the directories are there from
\* the first step on, and the manifest it moves describes what it found.
OnTheWay ==
    \A r \in SystemRuns :
        /\ pc[r] \notin {"idle", "create"} => \A x \in Made : owner[x] # "none"
        /\ pc[r] = "move" => Covers(drafted)
        /\ pc[r] = "end" => Covers(described)

\* Nobody writes behind a run that ended, and what it made is still there.
Behind ==
    /\ last \in Runs \union {Nobody}
    /\ last # Nobody => holder = Nobody
    /\ last \in SystemRuns => Whole /\ \A x \in Made : owner[x] # "none"

OwnersOK == owner \in [Items -> {"none", "root", "user"}]

WholeInv == LockInv /\ OwnersOK /\ OnTheWay /\ Behind

LEMMA WholeInit == Init => WholeInv
<1> SUFFICES ASSUME Init PROVE OwnersOK /\ OnTheWay /\ Behind
  BY LockInit DEF WholeInv
<1> QED
  BY RunsAssumption DEF Init, OwnersOK, OnTheWay, Behind, Runs

LEMMA WholeStep == WholeInv /\ [Next]_vars => WholeInv'
<1> SUFFICES ASSUME WholeInv, [Next]_vars PROVE OwnersOK' /\ OnTheWay' /\ Behind'
  BY LockStep DEF WholeInv
<1> USE RunsAssumption DEF WholeInv, LockInv, ControlOK, WritersHold, Working, PCs,
        OwnersOK, OnTheWay, Behind, Runs
<1>t. Made \subseteq Items /\ Sections \subseteq Items /\ Made \intersect Sections = {}
  BY DEF Made, Sections, Items
<1>n. "temporary" \in Items /\ "manifest" \in Items
      /\ {"temporary", "manifest"} \intersect (Made \union Sections) = {}
  BY DEF Made, Sections, Items
<1>1. ASSUME NEW r \in Runs, Start(r) \/ Open(r) \/ GiveUp(r) PROVE OwnersOK' /\ OnTheWay' /\ Behind'
  BY <1>1 DEF Start, Open, GiveUp, Goto, Ended, files, Covers, Whole
<1>2. ASSUME NEW r \in Runs, Create(r) PROVE OwnersOK' /\ OnTheWay' /\ Behind'
  <2> DEFINE top == Created(r, IF Allowed(r, "folder") THEN {"folder"} ELSE {}, owner)
  <2>1. /\ top \in [Items -> {"none", "root", "user"}]
        /\ \A x \in Items : owner[x] # "none" => top[x] = owner[x]
        /\ \A x \in Items \ {"folder"} : top[x] = owner[x]
        /\ r \in SystemRuns => top["folder"] # "none"
    BY <1>t DEF Created, Me, Allowed, Made
  <2>2. PICK below \in SUBSET {"boots", "lock", "boot"} :
            /\ owner' = Created(r, below, top)
            /\ r \in SystemRuns => below = {"boots", "lock", "boot"}
    <3> HIDE DEF top
    <3> QED
      BY <1>2 DEF Create, top
  <2> HIDE DEF top
  <2>3. /\ OwnersOK'
        /\ \A x \in Items : owner[x] # "none" => owner'[x] = owner[x]
        /\ \A x \in Sections : owner'[x] = owner[x]
        /\ r \in SystemRuns => \A x \in Made : owner'[x] # "none"
    BY <2>1, <2>2, <1>t DEF Created, Me, Made
  <2>4. (\A x \in Made : owner[x] # "none") => owner' = owner
    BY <2>1, <2>2, <1>t DEF Created, Me, Made
  <2>5. OnTheWay'
    BY <1>2, <2>3, <1>t DEF Create, Goto, Covers
  <2>6. Behind'
    BY <1>2, <2>4 DEF Create, Whole
  <2> QED
    BY <2>3, <2>5, <2>6
<1>3. ASSUME NEW r \in Runs, Own(r) PROVE OwnersOK' /\ OnTheWay' /\ Behind'
  <2>1. OwnersOK'
    BY <1>3 DEF Own
  <2>2. /\ \A x \in Items : owner[x] # "none" => owner'[x] # "none"
        /\ \A x \in Items : owner[x] # "root" => owner'[x] # "root"
        /\ \A x \in Sections : owner'[x] = owner[x]
    BY <1>3, <1>t DEF Own, Made, Sections
  <2> QED
    BY <1>3, <2>1, <2>2, <1>t DEF Own, Goto, Covers, Whole
<1>4. ASSUME NEW r \in Runs, Acquire(r) PROVE OwnersOK' /\ OnTheWay' /\ Behind'
  BY <1>4 DEF Acquire, Goto, files, Covers
<1>5. ASSUME NEW r \in Runs, WriteNotes(r) \/ Collect(r) \/ HandOver(r) \/ Draft(r)
      PROVE  OwnersOK' /\ OnTheWay' /\ Behind'
  <2>1. holder = r /\ last = Nobody /\ last' = Nobody /\ holder' = holder
    BY <1>5 DEF WriteNotes, Collect, HandOver, Draft, Goto, quiet
  <2>2. /\ OwnersOK'
        /\ \A x \in Items : owner[x] # "none" => owner'[x] # "none"
    BY <1>5, <1>n DEF WriteNotes, Collect, HandOver, Draft, Write, Created, EverythingToUser, Me
  <2>3. \A s \in Runs : s # r => pc'[s] = pc[s] /\ pc[s] \notin {"move", "end"}
    BY <1>5, <2>1 DEF WriteNotes, Collect, HandOver, Draft, Goto
  <2>4. /\ pc[r] \notin {"idle", "create"} /\ pc'[r] \notin {"idle", "create", "end"}
        /\ r \in SystemRuns => pc'[r] # "move"
    BY <1>5 DEF WriteNotes, Collect, HandOver, Draft, Goto, Allowed
  <2> QED
    BY <2>1, <2>2, <2>3, <2>4, <1>t
<1>6. ASSUME NEW r \in Runs, Fill(r) \/ Move(r) PROVE OwnersOK' /\ OnTheWay' /\ Behind'
  <2>1. holder = r /\ last = Nobody /\ last' = Nobody /\ holder' = holder
    BY <1>6 DEF Fill, Move, Goto, quiet
  <2>2. OwnersOK' /\ \A x \in Made \union Sections : owner'[x] = owner[x]
    BY <1>6, <1>n, <1>t DEF Fill, Move
  <2>3. \A s \in Runs : s # r => pc'[s] = pc[s] /\ pc[s] \notin {"move", "end"}
    BY <1>6, <2>1 DEF Fill, Move, Goto
  <2>4. ASSUME r \in SystemRuns
        PROVE  (pc'[r] = "move" => Covers(drafted)') /\ (pc'[r] = "end" => Covers(described)')
    BY <1>6, <2>2, <2>4 DEF Fill, Move, Goto, Allowed, Covers
  <2>5. pc[r] \notin {"idle", "create"}
    BY <1>6 DEF Fill, Move, Goto
  <2> QED
    BY <2>1, <2>2, <2>3, <2>4, <2>5, <1>t
<1>7. ASSUME NEW r \in Runs, End(r) PROVE OwnersOK' /\ OnTheWay' /\ Behind'
  <2>1. /\ OwnersOK'
        /\ \A x \in Items : owner'[x] = "none" <=> owner[x] = "none"
        /\ r \in SystemRuns => \A x \in Items : owner'[x] # "root"
    BY <1>7 DEF End, EverythingToUser
  <2>2. \A s \in Runs : s # r => pc'[s] = pc[s] /\ pc[s] \notin {"move", "end"}
    BY <1>7 DEF End, Goto
  <2>3. OnTheWay'
    BY <1>7, <2>1, <2>2, <1>t DEF End, Goto
  <2>4. ASSUME r \in SystemRuns PROVE Whole' /\ \A x \in Made : owner'[x] # "none"
    BY <1>7, <2>1, <2>4, <1>t DEF End, Goto, Covers, Whole
  <2> QED
    BY <1>7, <2>1, <2>3, <2>4 DEF End
<1>8. ASSUME NEW r \in Runs, Killed(r) PROVE OwnersOK' /\ OnTheWay' /\ Behind'
  BY <1>8 DEF Killed, files, Covers, Whole
<1>9. CASE LeaveSetup
  BY <1>9 DEF LeaveSetup, files, Covers, Whole
<1>10. CASE GiveAway
  BY <1>10 DEF GiveAway
<1>11. CASE PowerLoss
  <2>1. pc' = [r \in Runs |-> "idle"] /\ last' = Nobody /\ holder' = Nobody
    BY <1>11 DEF PowerLoss
  <2>2. OwnersOK'
    BY <1>11 DEF PowerLoss
  <2> QED
    BY <2>1, <2>2
<1>12. CASE UNCHANGED vars
  BY <1>12 DEF vars, files, Covers, Whole
<1> QED
  BY <1>1, <1>2, <1>3, <1>4, <1>5, <1>6, <1>7, <1>8, <1>9, <1>10, <1>11, <1>12 DEF Next, Step

\* When a system run has come to its end, all of the folder is the user's and the
\* manifest describes all of it, whatever runs were killed before and whatever
\* they left to root (aero7-collect-logs, its two chown -R and refresh_manifest).
THEOREM SystemRunRepairs == Spec => []SystemRunLeavesWhole
<1>1. WholeInv => SystemRunLeavesWhole
  BY DEF WholeInv, Behind, SystemRunLeavesWhole
<1> QED
  BY <1>1, WholeInit, WholeStep, PTL DEF Spec

-----------------------------------------------------------------------------
(* Nobody is shut out.                                                     *)

\* The chown of the setup run has given folder and lock to the user before it can
\* end, hence before setup is left and a user's run can start; they stay the
\* user's until the folder is removed.
ShutInv ==
    /\ \/ removed
       \/ phase = "setup" /\ result[SetupRun] # "ok" /\ pc[SetupRun] \in {"idle", "create", "own"}
       \/ owner["folder"] = "user" /\ owner["lock"] = "user"
    /\ \A r \in UserRuns : pc[r] # "idle" => phase = "desktop"
    /\ result \in [Runs -> {"none", "ok", "failed", "killed"}]
    /\ NoRunIsShutOut

OpenInv == LockInv /\ OwnersOK /\ ShutInv

LEMMA OpenInit == Init => OpenInv
<1> SUFFICES ASSUME Init PROVE OwnersOK /\ ShutInv
  BY LockInit DEF OpenInv
<1> QED
  BY RunsAssumption DEF Init, OwnersOK, ShutInv, NoRunIsShutOut, Runs

LEMMA OpenStep == OpenInv /\ [Next]_vars => OpenInv'
<1> SUFFICES ASSUME OpenInv, [Next]_vars PROVE OwnersOK' /\ ShutInv'
  BY LockStep DEF OpenInv
<1> USE RunsAssumption DEF OpenInv, LockInv, ControlOK, PCs, OwnersOK, ShutInv,
        NoRunIsShutOut, Runs, trouble
<1>n. {"folder", "lock", "temporary", "manifest"} \subseteq Items
      /\ {"folder", "lock"} \intersect (OfThisBoot \union Sections) = {}
  BY DEF Sections, Items, OfThisBoot
<1>1. ASSUME NEW r \in Runs, Start(r) PROVE OwnersOK' /\ ShutInv'
  BY <1>1 DEF Start, Goto, files
<1>2. ASSUME NEW r \in Runs, Create(r) PROVE OwnersOK' /\ ShutInv'
  <2>1. OwnersOK' /\ \A x \in Items : owner[x] = "user" => owner'[x] = "user"
    BY <1>2 DEF Create, Created, Me
  <2> QED
    BY <1>2, <2>1, <1>n DEF Create, Goto
<1>3. ASSUME NEW r \in Runs, Own(r) PROVE OwnersOK' /\ ShutInv'
  BY <1>3, <1>n DEF Own, Goto
<1>4. ASSUME NEW r \in Runs, Open(r) PROVE OwnersOK' /\ ShutInv'
  <2>1. ~Allowed(r, "lock") => r \in UserRuns /\ removed
    BY <1>4 DEF Open, Goto, Allowed, Above
  <2> QED
    BY <1>4, <2>1 DEF Open, Goto, Ended, files
<1>5. ASSUME NEW r \in Runs, Acquire(r) \/ GiveUp(r) PROVE OwnersOK' /\ ShutInv'
  BY <1>5 DEF Acquire, GiveUp, Goto, Ended, files
<1>6. ASSUME NEW r \in Runs, WriteNotes(r) \/ Collect(r) \/ HandOver(r) \/ Draft(r) \/ Fill(r)
      PROVE  OwnersOK' /\ ShutInv'
  <2>1. OwnersOK' /\ \A x \in Items : owner[x] = "user" => owner'[x] = "user"
    BY <1>6, <1>n DEF WriteNotes, Collect, HandOver, Draft, Fill, Write, Created,
                      EverythingToUser, Me
  <2> QED
    BY <1>6, <2>1, <1>n DEF WriteNotes, Collect, HandOver, Draft, Fill, Goto, quiet
<1>7. ASSUME NEW r \in Runs, Move(r) PROVE OwnersOK' /\ ShutInv'
  BY <1>7, <1>n DEF Move, Goto, quiet
<1>8. ASSUME NEW r \in Runs, End(r) PROVE OwnersOK' /\ ShutInv'
  BY <1>8, <1>n DEF End, Goto, Ended, EverythingToUser
<1>9. ASSUME NEW r \in Runs, Killed(r) PROVE OwnersOK' /\ ShutInv'
  BY <1>9 DEF Killed, Ended, files
<1>10. CASE LeaveSetup
  BY <1>10 DEF LeaveSetup, files
<1>11. CASE GiveAway
  BY <1>11 DEF GiveAway
<1>12. CASE PowerLoss
  <2>1. OwnersOK' /\ owner'["folder"] = owner["folder"] /\ owner'["lock"] = owner["lock"]
    BY <1>12, <1>n DEF PowerLoss, OfThisBoot
  <2> QED
    BY <1>12, <2>1 DEF PowerLoss, Ended
<1>13. CASE UNCHANGED vars
  BY <1>13 DEF vars, files
<1> QED
  BY <1>1, <1>2, <1>3, <1>4, <1>5, <1>6, <1>7, <1>8, <1>9, <1>10, <1>11, <1>12, <1>13
     DEF Next, Step

\* The run that oobe-finalize waits for never ends with an error, and no other run
\* does unless the folder was removed: neither a lock that is taken nor what
\* killed runs left to root keeps a run out.
THEOREM SetupGoesOn == Spec => []NoRunIsShutOut
<1>1. OpenInv => NoRunIsShutOut
  BY DEF OpenInv, ShutInv
<1> QED
  BY <1>1, OpenInit, OpenStep, PTL DEF Spec

-----------------------------------------------------------------------------
(* Types.                                                                  *)

\* Both manifests describe only what is there: the strengthening of TypeOK.
Present == {x \in Sections : owner[x] # "none"}

TypeInv ==
    /\ TypeOK
    /\ drafted \subseteq Present

\* TypeOK in two parts: where everybody is, and what is in the folder.
ControlTypes ==
    /\ phase \in {"setup", "desktop"} /\ pc \in [Runs -> PCs]
    /\ holder \in Runs \union {Nobody} /\ last \in Runs \union {Nobody}
    /\ result \in [Runs -> {"none", "ok", "failed", "killed"}]
    /\ disturbances \in 0 .. MaxDisturbances /\ removed \in BOOLEAN

ManifestsOK == drafted \subseteq Present /\ described \subseteq Present

LEMMA TypeInit == Init => TypeInv
<1> SUFFICES ASSUME Init PROVE TypeInv
  OBVIOUS
<1>1. ControlTypes
  <2>1. removed \in BOOLEAN
    BY Zenon DEF Init
  <2> QED
    BY <2>1, RunsAssumption, SMT DEF Init, ControlTypes, PCs, Runs
<1>2. OwnersOK /\ ManifestsOK
  BY DEF Init, OwnersOK, ManifestsOK
<1> QED
  BY <1>1, <1>2 DEF TypeInv, TypeOK, ControlTypes, ManifestsOK, OwnersOK, PCs, Present

LEMMA TypeStep == TypeInv /\ [Next]_vars => TypeInv'
<1> SUFFICES ASSUME TypeInv, [Next]_vars PROVE TypeInv'
  OBVIOUS
<1>a. ControlTypes /\ OwnersOK /\ ManifestsOK
  BY DEF TypeInv, TypeOK, ControlTypes, ManifestsOK, OwnersOK, PCs, Present
<1>b. ControlTypes'
  <2> USE <1>a, RunsAssumption DEF ControlTypes, PCs, trouble, Goto, Ended, Runs
  <2>1. ASSUME NEW r \in Runs, Start(r) \/ Create(r) \/ Own(r) PROVE ControlTypes'
    BY <2>1 DEF Start, Create, Own
  <2>2. ASSUME NEW r \in Runs, Open(r) \/ Acquire(r) \/ GiveUp(r) PROVE ControlTypes'
    BY <2>2 DEF Open, Acquire, GiveUp
  <2>3. ASSUME NEW r \in Runs, WriteNotes(r) \/ Collect(r) \/ HandOver(r) PROVE ControlTypes'
    BY <2>3 DEF WriteNotes, Collect, HandOver, quiet
  <2>4. ASSUME NEW r \in Runs, Draft(r) \/ Fill(r) \/ Move(r) PROVE ControlTypes'
    BY <2>4 DEF Draft, Fill, Move, quiet
  <2>5. ASSUME NEW r \in Runs, End(r) \/ Killed(r) PROVE ControlTypes'
    BY <2>5 DEF End, Killed
  <2>6. CASE LeaveSetup
    BY <2>6 DEF LeaveSetup
  <2>7. CASE GiveAway
    <3>1. removed' \in BOOLEAN
      BY <2>7, Zenon DEF GiveAway
    <3> QED
      BY <2>7, <3>1, SMT DEF GiveAway
  <2>8. CASE PowerLoss
    BY <2>8 DEF PowerLoss
  <2>9. CASE UNCHANGED vars
    BY <2>9 DEF vars
  <2> QED
    BY <2>1, <2>2, <2>3, <2>4, <2>5, <2>6, <2>7, <2>8, <2>9 DEF Next, Step
<1>c. OwnersOK' /\ ManifestsOK'
  <2> USE <1>a DEF OwnersOK, ManifestsOK, Present
  <2>t. Sections \subseteq Items /\ {"temporary", "manifest"} \subseteq Items \ Sections
        /\ OfThisBoot \union {"older", "notes"} = Sections /\ "boot" \in Items \ Sections
    BY DEF Sections, Items, OfThisBoot
  <2>1. ASSUME NEW r \in Runs, Start(r) \/ Open(r) \/ Acquire(r) \/ GiveUp(r) \/ Killed(r)
        PROVE  OwnersOK' /\ ManifestsOK'
    BY <2>1 DEF Start, Open, Acquire, GiveUp, Killed, files
  <2>2. ASSUME NEW r \in Runs, Create(r) PROVE OwnersOK' /\ ManifestsOK'
    BY <2>2, <2>t DEF Create, Created, Me
  <2>3. ASSUME NEW r \in Runs, Own(r) PROVE OwnersOK' /\ ManifestsOK'
    BY <2>3, <2>t DEF Own
  <2>4. ASSUME NEW r \in Runs, WriteNotes(r) \/ Collect(r) PROVE OwnersOK' /\ ManifestsOK'
    BY <2>4, <2>t DEF WriteNotes, Collect, Write, Created, Me
  <2>5. ASSUME NEW r \in Runs, HandOver(r) \/ Draft(r) PROVE OwnersOK' /\ ManifestsOK'
    BY <2>5, <2>t DEF HandOver, Draft, Created, Me, EverythingToUser
  <2>6. ASSUME NEW r \in Runs, Fill(r) \/ Move(r) PROVE OwnersOK' /\ ManifestsOK'
    BY <2>6, <2>t DEF Fill, Move
  <2>7. ASSUME NEW r \in Runs, End(r) PROVE OwnersOK' /\ ManifestsOK'
    BY <2>7, <2>t DEF End, EverythingToUser
  <2>8. CASE LeaveSetup \/ GiveAway
    BY <2>8 DEF LeaveSetup, GiveAway, files
  <2>9. CASE PowerLoss
    <3>1. OwnersOK'
      BY <2>9 DEF PowerLoss
    <3>2. /\ owner'["notes"] = owner["notes"]
          /\ (\E x \in OfThisBoot \union {"older"} : owner[x] # "none") => owner'["older"] # "none"
      BY <2>9, <2>t DEF PowerLoss, OfThisBoot
    <3>3. \A x \in drafted' \union described' :
              \/ x = "notes" /\ owner["notes"] # "none"
              \/ x = "older" /\ \E y \in OfThisBoot \union {"older"} : owner[y] # "none"
      BY <2>9, <2>t DEF PowerLoss
    <3> QED
      BY <3>1, <3>2, <3>3, <2>t
  <2>10. CASE UNCHANGED vars
    BY <2>10 DEF vars, files
  <2> QED
    BY <2>1, <2>2, <2>3, <2>4, <2>5, <2>6, <2>7, <2>8, <2>9, <2>10 DEF Next, Step
<1> QED
  BY <1>b, <1>c DEF TypeInv, TypeOK, ControlTypes, ManifestsOK, OwnersOK, PCs, Present

\* Types, with a manifest that describes only what is there.
THEOREM TypeCorrect == Spec => []TypeOK
<1>1. TypeInv => TypeOK
  BY DEF TypeInv
<1> QED
  BY <1>1, TypeInit, TypeStep, PTL DEF Spec
=============================================================================
