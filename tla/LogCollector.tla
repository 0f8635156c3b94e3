---------------------------- MODULE LogCollector ----------------------------
(***************************************************************************)
(* diagnostics/aero7-collect-logs: the folder of logs on the desktop, into *)
(* which the system timer, the session timer and setup itself collect, one *)
(* behind the other under a lock that is waited for 30 seconds.  A system  *)
(* run is root's, and what it creates is root's until a chown; the folder  *)
(* and its directories have mode 0700, so what is left to root by a run    *)
(* that was killed, or by a loss of power, is closed to the user's runs.   *)
(* The script goes on where a command fails, except where the lock file    *)
(* cannot be opened.                                                       *)
(***************************************************************************)
EXTENDS Naturals, FiniteSets

CONSTANTS
    SystemRuns,     \* runs with --system, as root
    UserRuns,       \* runs with --user
    SetupRun,       \* the system run that oobe-finalize waits for
    Nobody,
    MaxDisturbances \* bound: losses of power, killed runs, removed folders

Runs == SystemRuns \union UserRuns

ASSUME RunsAssumption ==
    /\ SetupRun \in SystemRuns /\ SystemRuns \intersect UserRuns = {}
    /\ Nobody \notin Runs /\ MaxDisturbances \in Nat

\* Groups of files: the README and the icon, COLLECTION.txt, what a system run
\* and what a user run collects in this boot, and all of the earlier boots.
Sections == {"notes", "metadata", "system", "session", "older"}

OfThisBoot == {"metadata", "system", "session"}

Items == Sections \union {"folder", "boots", "boot", "lock", "temporary", "manifest"}

VARIABLES
    phase,      \* "setup" until oobe-finalize goes on, then "desktop"
    pc,         \* where each run is
    holder,     \* who has the lock
    owner,      \* [Items -> {"none", "root", "user"}], "none" if not there
    drafted,    \* the sections that the temporary manifest and that
    described,  \* manifest.sha256 describe as they are
    last,       \* (history) the run that ended since anything was written
    result,     \* [Runs -> {"none", "ok", "failed", "killed"}], how each last ended
    disturbances,
    removed     \* (history) the folder was removed at some time

files == <<owner, drafted, described>>
trouble == <<disturbances, removed>>
vars == <<phase, pc, holder, files, last, result, trouble>>

Init ==
    /\ phase = "setup"
    /\ pc = [r \in Runs |-> "idle"]
    /\ holder = Nobody
    /\ owner = [x \in Items |-> "none"]
    /\ drafted = {} /\ described = {}
    /\ last = Nobody /\ result = [r \in Runs |-> "none"]
    /\ disturbances = 0 /\ removed = FALSE

Goto(r, from, to) == pc[r] = from /\ pc' = [pc EXCEPT ![r] = to]

Me(r) == IF r \in SystemRuns THEN "root" ELSE "user"

\* The directories on the way to an item.
Above(x) == CASE x = "folder" -> {}
              [] x \in {"boots", "notes", "lock", "temporary", "manifest"} -> {"folder"}
              [] x = "boot" -> {"folder", "boots"}
              [] OTHER -> {"folder", "boots", "boot"}

\* May r write x, or read it, or create it?
Allowed(r, x) ==
    \/ r \in SystemRuns
    \/ owner[x] # "root" /\ \A d \in Above(x) : owner[d] = "user"

\* New items belong to r, existing ones stay with their owner.
Created(r, items, own) ==
    [x \in Items |-> IF x \in items /\ own[x] = "none" THEN Me(r) ELSE own[x]]

-----------------------------------------------------------------------------
(* In front of the lock.                                                   *)

Ended(r, how) == result' = [result EXCEPT ![r] = how]

\* The timer of the system and of the session, the icon; or oobe-finalize.  Left out
\* are the ends with status 1 that come before anything is written or locked: a
\* system run without the state file, or for an account that is not there.
Start(r) ==
    /\ Goto(r, "idle", "create")
    /\ r = SetupRun => phase = "setup" /\ result[r] # "ok"
    /\ r \in UserRuns => phase = "desktop"
    /\ UNCHANGED <<phase, holder, files, last, result, trouble>>

\* install -d of log folder, Boots and the directory of this boot, one by one, and
\* touch of the lock file.  The desktop directory above them, which the same command
\* makes and chown gives to the user, is taken to be there and the user's already.
Create(r) ==
    /\ Goto(r, "create", IF r \in SystemRuns THEN "own" ELSE "open")
    /\ LET top == Created(r, IF Allowed(r, "folder") THEN {"folder"} ELSE {}, owner)
           Open(d) == r \in SystemRuns \/ top[d] # "root"
           below == (IF Open("folder") THEN {"boots", "lock"} ELSE {}) \union
                    (IF Open("folder") /\ Open("boots") THEN {"boot"} ELSE {})
       IN  owner' = Created(r, below, top)
    /\ UNCHANGED <<phase, holder, drafted, described, last, result, trouble>>

\* chown of the same, but not of the directory Boots between them.
Own(r) ==
    /\ Goto(r, "own", "open")
    /\ owner' = [x \in Items |-> IF x \in {"folder", "boot", "lock"} THEN "user" ELSE owner[x]]
    /\ UNCHANGED <<phase, holder, drafted, described, last, result, trouble>>

\* Redirected to the lock file; a run that may not open it ends here.
Open(r) ==
    /\ \/ Allowed(r, "lock") /\ Goto(r, "open", "wait") /\ UNCHANGED result
       \/ ~Allowed(r, "lock") /\ Goto(r, "open", "idle") /\ Ended(r, "failed")
    /\ UNCHANGED <<phase, holder, files, last, trouble>>

Acquire(r) ==
    /\ Goto(r, "wait", "notes")
    /\ holder = Nobody /\ holder' = r
    /\ last' = Nobody
    /\ UNCHANGED <<phase, files, result, trouble>>

\* (wrong) the run goes on without the lock
GiveUpGoesOn(r) ==
    /\ Goto(r, "wait", "notes")
    /\ holder # Nobody
    /\ UNCHANGED <<phase, holder, files, last, result, trouble>>

\* (wrong) exit 1
GiveUpFails(r) ==
    /\ Goto(r, "wait", "idle")
    /\ holder # Nobody
    /\ Ended(r, "failed")
    /\ UNCHANGED <<phase, holder, files, last, trouble>>

\* 30 seconds have gone by: exit 0.
GiveUp(r) ==
    /\ Goto(r, "wait", "idle")
    /\ holder # Nobody
    /\ Ended(r, "ok")
    /\ UNCHANGED <<phase, holder, files, last, trouble>>

-----------------------------------------------------------------------------
(* Under the lock.                                                         *)

quiet == <<phase, holder, last, result, trouble>>

\* What r may write of the sections is written, and no longer as described (or as
\* a temporary manifest that was left behind describes it).
Write(r, sections) ==
    LET done == {x \in sections : Allowed(r, x)}
    IN  /\ owner' = Created(r, done, owner)
        /\ described' = described \ done /\ drafted' = drafted \ done

\* write_readme, write_metadata
WriteNotes(r) ==
    /\ Goto(r, "notes", "collect")
    /\ Write(r, {"notes", "metadata"})
    /\ UNCHANGED quiet

\* collect_system_logs up to its chown, collect_user_logs
Collect(r) ==
    /\ IF r \in SystemRuns
         THEN Goto(r, "collect", "handOver") /\ Write(r, {"system"})
         ELSE Goto(r, "collect", "draft") /\ Write(r, {"session"})
    /\ UNCHANGED quiet

\* chown -R
EverythingToUser == owner' = [x \in Items |-> IF owner[x] = "root" THEN "user" ELSE owner[x]]

HandOver(r) ==
    /\ Goto(r, "handOver", "draft")
    /\ EverythingToUser
    /\ UNCHANGED <<drafted, described>> /\ UNCHANGED quiet

\* refresh_manifest: the temporary file is opened and emptied ...
Draft(r) ==
    /\ IF Allowed(r, "temporary")
         THEN /\ Goto(r, "draft", "fill")
              /\ owner' = Created(r, {"temporary"}, owner) /\ drafted' = {}
         ELSE Goto(r, "draft", "move") /\ UNCHANGED <<owner, drafted>>
    /\ UNCHANGED described /\ UNCHANGED quiet

\* ... filled with the checksums of what can be read ...
Fill(r) ==
    /\ Goto(r, "fill", "move")
    /\ drafted' = {x \in Sections : owner[x] # "none" /\ Allowed(r, x)}
    /\ UNCHANGED <<owner, described>> /\ UNCHANGED quiet

\* ... and moved into place, whatever has become of it (it is there: where a run
\* cannot open it, a killed system run has left it).
Move(r) ==
    /\ Goto(r, "move", "end")
    /\ owner' = [owner EXCEPT !["manifest"] = owner["temporary"], !["temporary"] = "none"]
    /\ described' = drafted /\ drafted' = {}
    /\ UNCHANGED quiet

\* (wrong) the chown of the collection is enough
EndAsIs(r) ==
    /\ Goto(r, "end", "idle")
    /\ holder' = Nobody /\ last' = r /\ Ended(r, "ok")
    /\ UNCHANGED <<phase, files, trouble>>

\* The last chown -R of a system run, and the end.
End(r) ==
    /\ Goto(r, "end", "idle")
    /\ holder' = Nobody /\ last' = r /\ Ended(r, "ok")
    /\ IF r \in SystemRuns THEN EverythingToUser ELSE UNCHANGED owner
    /\ UNCHANGED <<phase, drafted, described, trouble>>

-----------------------------------------------------------------------------
(* Around the runs.                                                        *)

\* oobe-finalize goes on to SDDM and the desktop.
LeaveSetup ==
    /\ phase = "setup" /\ pc[SetupRun] = "idle" /\ result[SetupRun] = "ok"
    /\ phase' = "desktop"
    /\ UNCHANGED <<pc, holder, files, last, result, trouble>>

\* (wrong) the lock outlives the run that held it
KilledLeavesLock(r) ==
    /\ pc[r] # "idle" /\ disturbances < MaxDisturbances
    /\ disturbances' = disturbances + 1
    /\ pc' = [pc EXCEPT ![r] = "idle"] /\ Ended(r, "killed")
    /\ UNCHANGED <<phase, holder, files, last, removed>>

\* A run is killed: its service is stopped, its session ends.  The lock goes
\* with the descriptor.
Killed(r) ==
    /\ pc[r] # "idle" /\ disturbances < MaxDisturbances
    /\ disturbances' = disturbances + 1
    /\ pc' = [pc EXCEPT ![r] = "idle"] /\ Ended(r, "killed")
    /\ holder' = IF holder = r THEN Nobody ELSE holder
    /\ UNCHANGED <<phase, files, last, removed>>

\* The user gives the folder away, as its README asks, and keeps none.  Not while
\* a run is under way: it would go on in a folder without a name.
GiveAway ==
    /\ phase = "desktop" /\ \A r \in Runs : pc[r] = "idle"
    /\ owner["folder"] = "user" /\ \A x \in Items : owner[x] # "root"
    /\ disturbances < MaxDisturbances
    /\ disturbances' = disturbances + 1
    /\ owner' = [x \in Items |-> "none"] /\ drafted' = {} /\ described' = {}
    /\ last' = Nobody /\ removed' = TRUE
    /\ UNCHANGED <<phase, pc, holder, result>>

\* Power is lost; the next boot has a directory of its own, and begins setup
\* again if it was not left.
PowerLoss ==
    /\ disturbances < MaxDisturbances
    /\ disturbances' = disturbances + 1
    /\ pc' = [r \in Runs |-> "idle"] /\ holder' = Nobody /\ last' = Nobody
    /\ LET past == {x \in OfThisBoot \union {"older"} : owner[x] # "none"}
           seal == IF past = {} THEN "none"
                   ELSE IF \E x \in past \union {"boot"} : owner[x] = "root" THEN "root"
                   ELSE "user"
           Carried(s) == (s \intersect {"notes"}) \union
                         (IF past # {} /\ past \subseteq s THEN {"older"} ELSE {})
       IN  /\ owner' = [x \in Items |-> IF x \in OfThisBoot \union {"boot"} THEN "none"
                                        ELSE IF x = "older" THEN seal ELSE owner[x]]
           /\ drafted' = Carried(drafted) /\ described' = Carried(described)
    /\ Ended(SetupRun, IF phase = "setup" THEN "killed" ELSE result[SetupRun])
    /\ UNCHANGED <<phase, removed>>

Step(r) ==
    \/ Create(r) \/ Own(r) \/ Open(r) \/ Acquire(r) \/ GiveUp(r)
    \/ WriteNotes(r) \/ Collect(r) \/ HandOver(r) \/ Draft(r) \/ Fill(r)
    \/ Move(r) \/ End(r)

Next ==
    \/ \E r \in Runs : Start(r) \/ Step(r) \/ Killed(r)
    \/ LeaveSetup \/ GiveAway \/ PowerLoss

\* A run that was started goes on: it is an ordinary process, and nothing it
\* calls is waited for without end.
Spec == Init /\ [][Next]_vars /\ \A r \in Runs : WF_vars(Step(r))

-----------------------------------------------------------------------------

\* Type invariant.
TypeOK ==
    /\ phase \in {"setup", "desktop"}
    /\ pc \in [Runs -> {"idle", "create", "own", "open", "wait", "notes", "collect",
                        "handOver", "draft", "fill", "move", "end"}]
    /\ holder \in Runs \union {Nobody} /\ last \in Runs \union {Nobody}
    /\ owner \in [Items -> {"none", "root", "user"}]
    /\ drafted \subseteq Sections
    /\ described \subseteq {x \in Sections : owner[x] # "none"}
    /\ result \in [Runs -> {"none", "ok", "failed", "killed"}]
    /\ disturbances \in 0 .. MaxDisturbances /\ removed \in BOOLEAN

Working(r) == pc[r] \in {"notes", "collect", "handOver", "draft", "fill", "move", "end"}

\* Two runs never write at the same time, whoever was killed holding the lock
\* and however long another one waited.
OneAtATime == \A r, s \in Runs : Working(r) /\ Working(s) => r = s

\* The folder can be handed over: all of it is the user's, and the manifest
\* describes every file there is.
Whole ==
    /\ \A x \in Items : owner[x] # "root"
    /\ \A x \in Sections : owner[x] # "none" => x \in described

\* Behind a system run that came to its end the folder is whole, whatever state
\* earlier runs had left it in, and stays so while others only wait or give up.
SystemRunLeavesWhole == last \in SystemRuns => Whole

\* The run that oobe-finalize waits for never fails, neither over what a killed
\* run left behind nor because the timer it has just enabled took the lock: setup
\* would stop there, with the account made and no desktop.  Any other run fails
\* only where the folder was removed, and a system run just makes it anew: after
\* what killed runs and losses of power leave, the chown in front of the lock
\* comes early enough for every run.
NoRunIsShutOut ==
    /\ result[SetupRun] # "failed"
    /\ \A r \in Runs : result[r] = "failed" => removed

\* If system runs get the lock again and again (which 30 seconds of waiting do
\* not ensure), the folder becomes whole again and again, however runs were killed
\* in between.
WholeAgain == []<>(holder \in SystemRuns) => []<>Whole
=============================================================================
