---------------------------- MODULE Installation ----------------------------
(***************************************************************************)
(* What an installation promises to the person in front of it, whatever    *)
(* commands it is made of: until the final confirmation the drive page may *)
(* change any disk; from then on only the disk that was confirmed, and     *)
(* only once every check has passed; and success is reported once, last,   *)
(* and only of a system that is on the disk as a whole and stays there.    *)
(* InstallRun implements this.                                             *)
(***************************************************************************)
EXTENDS Naturals

CONSTANTS Disks

VARIABLES
    phase,      \* "choosing", "checking", "installing", "complete", "reported" or "over"
    chosen,     \* the disk
    changes     \* [Disks -> Nat]: how often a disk's table was changed

vars == <<phase, chosen, changes>>

Init ==
    /\ phase = "choosing" /\ chosen \in Disks
    /\ changes = [d \in Disks |-> 0]

Step(from, to) == phase = from /\ phase' = to

OneChange == changes' = [changes EXCEPT ![chosen] = @ + 1]

\* The drive page: a disk is selected, or the selected one is changed.
Choose ==
    /\ phase = "choosing" /\ UNCHANGED phase
    /\ \/ chosen' \in Disks /\ UNCHANGED changes
       \/ OneChange /\ UNCHANGED chosen

Confirm == Step("choosing", "checking") /\ UNCHANGED <<chosen, changes>>

\* The checks are over; nothing is changed yet.
Start == Step("checking", "installing") /\ UNCHANGED <<chosen, changes>>

Change == phase = "installing" /\ UNCHANGED <<phase, chosen>> /\ OneChange

\* The whole new system has reached the disk.
Complete == Step("installing", "complete") /\ UNCHANGED <<chosen, changes>>

Report == Step("complete", "reported") /\ UNCHANGED <<chosen, changes>>

\* It ends without success; its last command may have changed the disk.
GiveUp ==
    \/ Step("checking", "over") /\ UNCHANGED <<chosen, changes>>
    \/ Step("complete", "over") /\ UNCHANGED <<chosen, changes>>
    \/ Step("installing", "over") /\ UNCHANGED chosen /\ (OneChange \/ UNCHANGED changes)

Next == Choose \/ Confirm \/ Start \/ Change \/ Complete \/ Report \/ GiveUp

Spec == Init /\ [][Next]_vars
=============================================================================
