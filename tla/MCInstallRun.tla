---------------------------- MODULE MCInstallRun ----------------------------
(* Packages with the relations the real ones have: one that replaces a     *)
(* package of the base system, one that replaces a requested package, one  *)
(* that is requested, embedded and needed by another, one that an embedded *)
(* package provides whose file name starts with its name; and images that  *)
(* are whole or carry one fault each.                                      *)
EXTENDS InstallRun

MCNames == {"libplasma", "libplasma-git", "workspace", "devmgmt", "device-manager",
            "control", "control-panel", "cups", "programs", "programs-center"}

MCRequested == {"libplasma-git", "workspace", "devmgmt", "control-panel", "cups"}

MCPublished == MCNames \ {"device-manager", "programs", "programs-center", "control"}

None == [n \in MCNames |-> {}]

MCDepends == [None EXCEPT !["workspace"] = {"libplasma", "control-panel"},
                          !["control-panel"] = {"cups", "devmgmt"}]
MCProvides == [None EXCEPT !["libplasma-git"] = {"libplasma"},
                           !["device-manager"] = {"devmgmt"},
                           !["programs-center"] = {"programs"}]
MCConflicts == MCProvides
MCContinues == [None EXCEPT !["control"] = {"control-panel"},
                            !["programs"] = {"programs-center"}]

Embedded == {"device-manager", "control-panel"}

Online ==
    [variant |-> "online", required |-> Embedded, optional |-> {"programs-center"},
     files |-> Embedded \union {"programs-center"},
     listed |-> Embedded \union {"programs-center"}, damaged |-> {},
     bundle |-> {}, bundled |-> {}, spoilt |-> {}, database |-> FALSE]

Offline == [Online EXCEPT !.variant = "offline", !.bundle = MCRequested,
                          !.bundled = MCRequested, !.database = TRUE]

MCShares ==
    {Online, Offline,
     [Online EXCEPT !.required = {}, !.optional = {}, !.files = {}, !.listed = {}],
     [Online EXCEPT !.files = Embedded],
     [Online EXCEPT !.damaged = {"programs-center"}],
     [Online EXCEPT !.optional = Embedded],
     [Online EXCEPT !.required = Embedded \union {"control"}],
     [Online EXCEPT !.required = Embedded \union {"programs"}],
     [Offline EXCEPT !.damaged = {"control-panel"}],
     [Offline EXCEPT !.optional = {}],
     [Offline EXCEPT !.spoilt = {"cups"}],
     [Offline EXCEPT !.bundle = MCRequested \ {"cups"}],
     [Offline EXCEPT !.database = FALSE]}

Whole == {Online, Offline}
Spoilt == {[Offline EXCEPT !.spoilt = {"cups"}]}

CONSTANTS d1, d2, usb,         \* two disks and the stick Setup was started from
          part, mapped, stick    \* a partition of d1, a device in it, one of usb

OnStick == [m \in MountPoints |-> IF m = "/run/archiso/bootmnt" THEN stick ELSE Unmounted]

\* The stick may be listed: some hardware reports it as not removable.
FromStick ==
    [parent |-> [d \in Devices |-> CASE d = part -> d1 [] d = mapped -> part
                                     [] d = stick -> usb [] OTHER -> d],
     fit |-> Disks, sources |-> OnStick]

\* Copied to memory; and started from an image inside a partition of d1.
FromMemory == [FromStick EXCEPT !.fit = {d1, usb},
                               !.sources = [m \in MountPoints |-> Unmounted]]
FromPartition == [FromStick EXCEPT !.sources["/run/archiso/bootmnt"] = mapped]

MCStations ==
    {<<s, FromStick>> : s \in Shares} \union
    (Shares \intersect {Online}) \X {FromMemory, FromPartition}
=============================================================================
