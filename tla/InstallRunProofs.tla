-------------------------- MODULE InstallRunProofs --------------------------
(***************************************************************************)
(* Proofs about InstallRun for any number of disks, packages and images:   *)
(* the package adapter installs what was asked for and nothing the image   *)
(* does not vouch for, only idle disks change, the checks come before the  *)
(* first change, a reported installation is complete and lasting, and the  *)
(* run implements module Installation.                                     *)
(***************************************************************************)
EXTENDS InstallRun, FiniteSetTheorems, TLAPS

-----------------------------------------------------------------------------
(* Recursive functions over 0 .. n.  A least counterexample stands for     *)
(* induction.                                                              *)

\* A nonempty set of naturals has a least element.
LEMMA LeastNat ==
    ASSUME NEW T, T \subseteq Nat, T # {}
    PROVE  \E x \in T : \A y \in T : ~(y < x)
<1>1. \E x \in T : \A y \in T : <<y, x>> \notin OpToRel(<, Nat)
  BY NatLessThanWellFounded, WFMin
<1>2. \A x, y \in Nat : y < x => <<y, x>> \in OpToRel(<, Nat)
  BY DEF OpToRel
<1> QED
  BY <1>1, <1>2

\* What a transaction brings along are packages that exist: the recursion in
\* WithDependencies never leaves Names.
LEMMA DependenciesAreNames ==
    ASSUME NEW pool \in SUBSET Names, NEW targets \in SUBSET Names
    PROVE  WithDependencies(pool, targets) \in SUBSET Names
<1> DEFINE Missing(s) == {d \in UNION {Depends[p] : p \in s} : ~Satisfies(Present \union s, d)}
           Grown(s) == s \union (Missing(s) \intersect pool)
           n == Cardinality(Names)
           Grows(g, k) == g = [i \in 0 .. k |-> IF i = 0 THEN targets ELSE Grown(g[i - 1])]
           grow == CHOOSE g : Grows(g, n)
<1>n. n \in Nat
  BY AdapterAssumption, FS_CardinalityType
<1>s. \A s \in SUBSET Names : Grown(s) \in SUBSET Names
  OBVIOUS
<1> HIDE DEF Grown
<1>1. \A k \in Nat : \E g \in [0 .. k -> SUBSET Names] : Grows(g, k)
  <2> DEFINE Bad == {k \in Nat : ~\E g \in [0 .. k -> SUBSET Names] : Grows(g, k)}
  <2> SUFFICES ASSUME Bad # {} PROVE FALSE
    OBVIOUS
  <2>1. PICK k \in Bad : \A j \in Bad : ~(j < k)
    BY LeastNat
  <2>2. CASE k = 0
    <3> DEFINE h == [i \in 0 .. k |-> targets]
    <3>1. h \in [0 .. k -> SUBSET Names] /\ Grows(h, k)
      BY <2>2
    <3> QED
      BY <2>1, <3>1
  <2>3. CASE k # 0
    <3>1. k \in Nat /\ k - 1 \in Nat /\ k - 1 < k /\ k - 1 \notin Bad
      BY <2>1, <2>3
    <3>2. PICK g \in [0 .. (k - 1) -> SUBSET Names] : Grows(g, k - 1)
      BY <3>1
    <3> DEFINE h == [i \in 0 .. k |-> IF i = k THEN Grown(g[k - 1]) ELSE g[i]]
    <3>3. h \in [0 .. k -> SUBSET Names]
      <4>0. k - 1 \in 0 .. (k - 1)
        BY <3>1
      <4>1. g[k - 1] \in SUBSET Names
        BY <3>2, <4>0
      <4>2. Grown(g[k - 1]) \in SUBSET Names
        BY <4>1, <1>s
      <4>3. \A i \in 0 .. k : i # k => g[i] \in SUBSET Names
        BY <3>1, <3>2
      <4> QED
        BY <4>2, <4>3
    <3>4. \A i \in 0 .. k : h[i] = IF i = 0 THEN targets ELSE Grown(h[i - 1])
      <4> TAKE i \in 0 .. k
      <4>1. CASE i = k
        <5>1. h[i] = Grown(g[k - 1]) /\ h[i - 1] = g[k - 1] /\ i # 0
          BY <4>1, <3>1, <2>3
        <5> QED
          BY <5>1, <4>1
      <4>2. CASE i # k
        <5>1. i \in 0 .. (k - 1) /\ h[i] = g[i] /\ (i # 0 => h[i - 1] = g[i - 1])
          BY <4>2, <3>1
        <5>2. g[i] = IF i = 0 THEN targets ELSE Grown(g[i - 1])
          BY <3>2, <5>1
        <5> QED
          BY <5>1, <5>2
      <4> QED
        BY <4>1, <4>2
    <3>5. Grows(h, k)
      BY <3>4
    <3> QED
      BY <2>1, <3>3, <3>5
  <2> QED
    BY <2>2, <2>3
<1>2. Grows(grow, n)
  BY <1>1, <1>n
<1>3. \A i \in 0 .. n : grow[i] \in SUBSET Names
  <2> HIDE DEF grow
  <2> DEFINE Bad == {i \in 0 .. n : grow[i] \notin SUBSET Names}
  <2> SUFFICES ASSUME Bad # {} PROVE FALSE
    OBVIOUS
  <2>1. PICK i \in Bad : \A j \in Bad : ~(j < i)
    <3>1. Bad \subseteq Nat
      BY <1>n
    <3> QED
      BY <3>1, LeastNat
  <2>2. CASE i = 0
    <3>1. grow[i] = targets
      BY <1>2, <1>n, <2>2
    <3> QED
      BY <3>1, <2>1
  <2>3. CASE i # 0
    <3>1. i \in 0 .. n /\ i - 1 \in 0 .. n /\ i - 1 < i
      BY <1>n, <2>1, <2>3
    <3>2. grow[i - 1] \in SUBSET Names
      BY <3>1, <2>1
    <3>3. grow[i] = Grown(grow[i - 1])
      BY <1>2, <3>1, <2>3
    <3> QED
      BY <3>2, <3>3, <1>s, <2>1
  <2> QED
    BY <2>2, <2>3
<1>4. WithDependencies(pool, targets) = grow[n]
  BY DEF WithDependencies, Grown
<1> HIDE DEF grow
<1> QED
  BY <1>3, <1>4, <1>n

-----------------------------------------------------------------------------
(* The package adapter.                                                    *)

EmbeddedNow == {n \in Names : installed[n] = "embedded"}

Unverified == {"key", "keyring", "verify"}

\* What each check leaves behind for the steps after it.
ChecksPassed ==
    /\ step \notin Unverified => LocalSetFits /\ Requested # {}
    /\ step \notin Unverified \union {"bundle"} /\ share.variant = "offline" => BundleFits
    /\ step = "sync" => share.variant = "online"

\* The embedded packages come all at once, behind the published ones.
EmbeddedLast ==
    /\ step \in Unverified \union {"bundle"} => installed = StartingPackages
    /\ EmbeddedNow = IF step \in {"queryAll", "record", "done"} THEN RequiredFiles ELSE {}
    /\ kept # {} => kept = OptionalFiles /\ step \notin Unverified

\* What pacman -Q has confirmed, also where there is no embedded package and the
\* last query is left out.
AskedFor ==
    /\ step = "optional" /\ RequiredFiles = {} => Queried(Requested \union share.required)
    /\ step \in {"record", "done"} => Queried(Requested \union share.required)
    /\ step = "done" => recorded = Requested \union share.required

AdapterInv == PackagesOK /\ ChecksPassed /\ EmbeddedLast /\ AskedFor

\* A verified set without required files has no required names.
LEMMA NoFilesNoNames ==
    ASSUME PackagesOK, LocalSetFits, RequiredFiles = {}
    PROVE  share.required = {}
<1> SUFFICES ASSUME NEW n \in share.required PROVE FALSE
  OBVIOUS
<1>1. FilesOf(n) = {}
  BY DEF RequiredFiles, FilesOfAll
<1>2. Cardinality(FilesOf(n)) = 0
  BY <1>1, FS_EmptySet
<1>3. Cardinality(FilesOf(n)) = 1
  BY DEF LocalSetFits
<1> QED
  BY <1>2, <1>3

\* The files of a verified set are those of the manifest, and intact.
LEMMA FilesVouchedFor ==
    ASSUME PackagesOK, LocalSetFits
    PROVE  /\ RequiredFiles \subseteq share.files /\ OptionalFiles \subseteq share.files
           /\ share.files \subseteq Names
           /\ share.files = share.listed /\ share.files \intersect share.damaged = {}
<1>1. share \in ShareType
  BY AdapterAssumption DEF PackagesOK
<1>2. share.files \subseteq Names
  BY <1>1 DEF ShareType
<1> QED
  BY <1>2 DEF RequiredFiles, OptionalFiles, FilesOfAll, FilesOf, LocalSetFits

\* An optional file is installed only where a name without a file of its own
\* resolves to it.
LEMMA OptionalOnlyByName ==
    ASSUME PackagesOK, LocalSetFits, NEW f \in RequiredFiles, f \in share.optional
    PROVE  \E n \in share.required \ share.files : f \in Continues[n]
<1>1. PICK n \in share.required : f \in FilesOf(n)
  BY DEF RequiredFiles, FilesOfAll
<1>2. f \in share.files /\ (f = n \/ f \in Continues[n])
  BY <1>1 DEF FilesOf
<1>3. f # n
  BY <1>2 DEF LocalSetFits
<1>4. Cardinality(FilesOf(n)) = 1
  BY DEF LocalSetFits
<1>5. IsFiniteSet(FilesOf(n))
  BY FilesVouchedFor, AdapterAssumption, FS_Subset DEF FilesOf
<1>6. PICK x : FilesOf(n) = {x}
  BY <1>4, <1>5, FS_Singleton
<1>7. n \notin share.files
  BY <1>1, <1>3, <1>6 DEF FilesOf
<1> QED
  BY <1>2, <1>3, <1>7

\* A transaction that adds published packages adds no embedded one.
LEMMA SyncAddsPublished ==
    ASSUME PackagesOK, NEW pool \in SUBSET Names, NEW targets, SyncTransaction(pool, targets),
           EmbeddedNow = {}
    PROVE  installed' \in [Names -> Versions] /\ EmbeddedNow' = {}
<1>1. PICK new : installed' = [n \in Names |->
                    IF (IF n \in new THEN "published" ELSE "none") # "none"
                      THEN IF n \in new THEN "published" ELSE "none"
                      ELSE IF n \in Outcome(new) THEN installed[n] ELSE "none"]
  <2> DEFINE fresh == WithDependencies(pool, targets) \ Present
             versions == [n \in Names |-> IF n \in fresh THEN "published" ELSE "none"]
  <2>1. Install(fresh, versions)
    BY DEF SyncTransaction
  <2> HIDE DEF fresh
  <2> QED
    BY <2>1 DEF Install
<1>2. \A n \in Names : installed'[n] = "published" \/ installed'[n] = "none"
                          \/ installed'[n] = installed[n]
  BY <1>1
<1> QED
  BY <1>1, <1>2 DEF PackagesOK, Versions, EmbeddedNow

\* The last transaction puts the embedded packages over whatever was there.
LEMMA UpgradeEmbeds ==
    ASSUME PackagesOK, LocalSetFits, InstallLocal, EmbeddedNow = {}
    PROVE  installed' \in [Names -> Versions] /\ EmbeddedNow' = RequiredFiles
<1>1. PICK new : installed' = [n \in Names |->
                    IF (IF n \in RequiredFiles THEN "embedded"
                        ELSE IF n \in new THEN "published" ELSE "none") # "none"
                      THEN IF n \in RequiredFiles THEN "embedded"
                           ELSE IF n \in new THEN "published" ELSE "none"
                      ELSE IF n \in Outcome(new) THEN installed[n] ELSE "none"]
  <2> DEFINE pool == IF share.variant = "online" THEN Published ELSE {}
             fresh == WithDependencies(pool, RequiredFiles) \ (Present \ RequiredFiles)
             versions == [n \in Names |-> IF n \in RequiredFiles THEN "embedded"
                                          ELSE IF n \in fresh THEN "published" ELSE "none"]
  <2>1. Install(fresh, versions)
    BY DEF InstallLocal
  <2> HIDE DEF fresh
  <2> QED
    BY <2>1 DEF Install
<1>2. \A n \in Names : n \in RequiredFiles => installed'[n] = "embedded"
  BY <1>1
<1>3. \A n \in Names \ RequiredFiles :
          installed'[n] \in {"published", "none", installed[n]}
  BY <1>1
<1>4. RequiredFiles \subseteq Names
  BY FilesVouchedFor
<1> QED
  BY <1>1, <1>2, <1>3, <1>4 DEF PackagesOK, Versions, EmbeddedNow

LEMMA AdapterInitial == Init => AdapterInv
<1> SUFFICES ASSUME Init PROVE AdapterInv
  OBVIOUS
<1> USE DEF Init, AdapterInit
<1>1. PackagesOK
  BY AdapterAssumption DEF PackagesOK, StartingPackages, Versions
<1>2. EmbeddedNow = {}
  BY DEF EmbeddedNow, StartingPackages
<1> QED
  BY <1>1, <1>2 DEF AdapterInv, ChecksPassed, EmbeddedLast, AskedFor,
                    Unverified

\* What the invariant says depends on nothing but the adapter's variables.
LEMMA AdapterFrame == AdapterInv /\ UNCHANGED adapterVars => AdapterInv'
BY DEF AdapterInv, adapterVars, PackagesOK, ChecksPassed, LocalSetFits, BundleFits, FilesOfAll,
       FilesOf, EmbeddedLast, EmbeddedNow, RequiredFiles, OptionalFiles, AskedFor, Queried,
       Satisfies, Present

\* What is known of the image does not change, and with the same packages neither
\* does what pacman -Q says.
LEMMA ImageStays ==
    ASSUME share' = share
    PROVE  /\ LocalSetFits' = LocalSetFits /\ BundleFits' = BundleFits
           /\ RequiredFiles' = RequiredFiles /\ OptionalFiles' = OptionalFiles
BY DEF LocalSetFits, BundleFits, FilesOfAll, FilesOf, RequiredFiles, OptionalFiles

\* Steps that are no transaction leave the packages alone.
LEMMA PackagesStay ==
    ASSUME installed' = installed, NEW names
    PROVE  Queried(names)' = Queried(names) /\ EmbeddedNow' = EmbeddedNow
BY DEF Queried, Satisfies, Present, EmbeddedNow

\* Where nothing is installed, what remains to be shown of a step.
LEMMA QuietStep ==
    ASSUME AdapterInv, share' = share, installed' = installed,
           PackagesOK', ChecksPassed', AskedFor',
           step \in {"queryAll", "record", "done"} <=> step' \in {"queryAll", "record", "done"},
           step' \in Unverified \union {"bundle"} => step \in Unverified \union {"bundle"},
           kept' # {} => kept' = OptionalFiles /\ step' \notin Unverified
    PROVE  AdapterInv'
BY ImageStays, PackagesStay DEF AdapterInv, EmbeddedLast

LEMMA AdapterStepKeeps == AdapterInv /\ AdapterNext => AdapterInv'
<1> SUFFICES ASSUME AdapterInv, AdapterNext PROVE AdapterInv'
  OBVIOUS
<1>t. /\ share \in ShareType /\ Published \in SUBSET Names /\ share.bundle \in SUBSET Names
      /\ share.required \in SUBSET Names /\ Requested \in SUBSET Names
      /\ RepositoryPackages \in SUBSET Names
  BY AdapterAssumption DEF AdapterInv, PackagesOK, ShareType, RepositoryPackages
<1>n. LocalSetFits /\ RequiredFiles = {} => RepositoryPackages = Requested
                                             /\ Requested \union share.required = Requested
  BY NoFilesNoNames DEF AdapterInv, RepositoryPackages
<1>1. CASE AddRepository \/ TrustKey
  <2>1. PackagesOK' /\ ChecksPassed' /\ AskedFor'
    BY <1>1 DEF AddRepository, TrustKey, StepTo, packages, AdapterInv, PackagesOK,
                ChecksPassed, Unverified, AskedFor
  <2> QED
    BY <1>1, <2>1, QuietStep DEF AddRepository, TrustKey, StepTo, packages, AdapterInv,
                                 EmbeddedLast, Unverified
<1>2. CASE VerifyLocalSet
  <2> USE <1>2 DEF VerifyLocalSet, StepTo, packages, FirstSource
  <2>1. LocalSetFits' /\ Requested # {}
    BY ImageStays
  <2>2. RequiredFiles = {} => step' # "optional"
    BY <1>n
  <2>3. PackagesOK' /\ ChecksPassed' /\ AskedFor'
    BY <1>t, <2>1, <2>2, ImageStays DEF AdapterInv, PackagesOK, ChecksPassed, Unverified, AskedFor, ShareType
  <2> QED
    BY <2>3, QuietStep DEF AdapterInv, EmbeddedLast, Unverified
<1>3. CASE InstallPublished
  <2> USE <1>3 DEF InstallPublished, StepTo
  <2>1. EmbeddedNow = {} /\ LocalSetFits
    BY DEF AdapterInv, EmbeddedLast, ChecksPassed, Unverified
  <2>2. installed' \in [Names -> Versions] /\ EmbeddedNow' = {}
    BY <1>t, <2>1, SyncAddsPublished DEF AdapterInv
  <2>3. signed' \subseteq Names
    BY <1>t, DependenciesAreNames DEF AdapterInv, PackagesOK
  <2>4. PackagesOK'
    BY <2>2, <2>3 DEF AdapterInv, PackagesOK
  <2>5. ChecksPassed'
    BY ImageStays DEF AdapterInv, ChecksPassed, Unverified
  <2>6. EmbeddedLast'
    BY <2>2, ImageStays DEF AdapterInv, EmbeddedLast, Unverified
  <2> QED
    BY <2>4, <2>5, <2>6 DEF AdapterInv, AskedFor
<1>4. CASE CopyBundle
  <2> USE <1>4 DEF CopyBundle, StepTo, packages
  <2>1. LocalSetFits /\ Requested # {} /\ BundleFits'
    BY ImageStays DEF AdapterInv, ChecksPassed, Unverified
  <2>2. RequiredFiles = {} => step' # "optional"
    BY <1>n, <2>1
  <2>3. PackagesOK' /\ ChecksPassed' /\ AskedFor'
    BY <2>1, <2>2, ImageStays DEF AdapterInv, PackagesOK, ChecksPassed, Unverified, AskedFor
  <2> QED
    BY <2>3, QuietStep DEF AdapterInv, EmbeddedLast, Unverified
<1>5. CASE InstallBundled
  <2> USE <1>5 DEF InstallBundled, StepTo
  <2>1. EmbeddedNow = {} /\ LocalSetFits
    BY DEF AdapterInv, EmbeddedLast, ChecksPassed, Unverified
  <2>2. installed' \in [Names -> Versions] /\ EmbeddedNow' = {}
    BY <1>t, <2>1, SyncAddsPublished DEF AdapterInv
  <2>4. PackagesOK'
    BY <2>2 DEF AdapterInv, PackagesOK
  <2>5. ChecksPassed'
    BY ImageStays DEF AdapterInv, ChecksPassed, Unverified
  <2>6. EmbeddedLast'
    BY <2>2, ImageStays DEF AdapterInv, EmbeddedLast, Unverified
  <2> QED
    BY <2>4, <2>5, <2>6 DEF AdapterInv, AskedFor
<1>6. CASE QueryRepository
  <2> USE <1>6 DEF QueryRepository, StepTo, packages
  <2>1. RequiredFiles = {} => Queried(Requested \union share.required)
    BY <1>n DEF AdapterInv, ChecksPassed, Unverified
  <2>2. AskedFor'
    <3>1. RequiredFiles = {} => Queried(Requested \union share.required)'
      BY <2>1, PackagesStay
    <3> QED
      BY <3>1, ImageStays DEF AskedFor
  <2>3. PackagesOK' /\ ChecksPassed'
    BY ImageStays DEF AdapterInv, PackagesOK, ChecksPassed, Unverified
  <2> QED
    BY <2>2, <2>3, QuietStep DEF AdapterInv, EmbeddedLast, Unverified
<1>7. CASE CacheOptional
  <2> USE <1>7 DEF CacheOptional, StepTo
  <2>1. LocalSetFits
    BY DEF AdapterInv, ChecksPassed, Unverified
  <2>2. kept' = OptionalFiles /\ kept' \subseteq Names
    BY <2>1, FilesVouchedFor DEF AdapterInv
  <2>3. AskedFor'
    <3>1. RequiredFiles = {} => Queried(Requested \union share.required)'
      BY PackagesStay DEF AdapterInv, AskedFor
    <3> QED
      BY <3>1 DEF AskedFor
  <2>4. PackagesOK' /\ ChecksPassed'
    BY <2>2, ImageStays DEF AdapterInv, PackagesOK, ChecksPassed, Unverified
  <2>5. EmbeddedLast'
    BY <2>2, ImageStays, PackagesStay DEF AdapterInv, EmbeddedLast, Unverified
  <2> QED
    BY <2>3, <2>4, <2>5 DEF AdapterInv
<1>8. CASE CopyLocal
  <2> USE <1>8 DEF CopyLocal, StepTo
  <2>1. PackagesOK' /\ ChecksPassed' /\ AskedFor'
    BY ImageStays DEF AdapterInv, PackagesOK, ChecksPassed, Unverified, AskedFor
  <2> QED
    BY <2>1, QuietStep DEF AdapterInv, EmbeddedLast, Unverified
<1>9. CASE InstallLocal
  <2>1. EmbeddedNow = {} /\ LocalSetFits /\ step = "upgrade" /\ step' = "queryAll"
        /\ UNCHANGED <<share, signed, kept, recorded>>
    BY <1>9 DEF InstallLocal, StepTo, AdapterInv, EmbeddedLast, ChecksPassed, Unverified
  <2>2. installed' \in [Names -> Versions] /\ EmbeddedNow' = RequiredFiles
    BY <1>9, <2>1, UpgradeEmbeds DEF AdapterInv
  <2>3. PackagesOK' /\ ChecksPassed' /\ AskedFor'
    BY <2>1, <2>2, ImageStays DEF AdapterInv, PackagesOK, ChecksPassed, Unverified, AskedFor
  <2>4. EmbeddedLast'
    BY <2>1, <2>2, ImageStays DEF AdapterInv, EmbeddedLast, Unverified
  <2> QED
    BY <2>3, <2>4 DEF AdapterInv
<1>10. CASE QueryAll
  <2> USE <1>10 DEF QueryAll, StepTo, packages
  <2>1. AskedFor'
    <3>1. Queried(Requested \union share.required)'
      BY PackagesStay
    <3> QED
      BY <3>1 DEF AskedFor
  <2>2. PackagesOK' /\ ChecksPassed'
    BY ImageStays DEF AdapterInv, PackagesOK, ChecksPassed, Unverified
  <2> QED
    BY <2>1, <2>2, QuietStep DEF AdapterInv, EmbeddedLast, Unverified
<1>11. CASE RecordRequested
  <2> USE <1>11 DEF RecordRequested, StepTo
  <2>1. AskedFor'
    <3>1. Queried(Requested \union share.required)'
      BY PackagesStay DEF AdapterInv, AskedFor
    <3> QED
      BY <3>1 DEF AskedFor
  <2>2. PackagesOK' /\ ChecksPassed'
    BY <1>t, ImageStays DEF AdapterInv, PackagesOK, ChecksPassed, Unverified
  <2> QED
    BY <2>1, <2>2, QuietStep DEF AdapterInv, EmbeddedLast, Unverified
<1> QED
  BY <1>1, <1>2, <1>3, <1>4, <1>5, <1>6, <1>7, <1>8, <1>9, <1>10, <1>11 DEF AdapterNext

-----------------------------------------------------------------------------
(* The adapter within the run.                                             *)

\* Only configure_and_install touches what the adapter's invariant is about.
LEMMA AdapterAlone == [Next]_vars => AdapterNext \/ UNCHANGED adapterVars
<1> SUFFICES ASSUME [Next]_vars PROVE AdapterNext \/ UNCHANGED adapterVars
  OBVIOUS
<1>1. CASE Refresh \/ AtTheConsole \/ StorageAction \/ Select \/ Confirm
  BY <1>1 DEF Refresh, AtTheConsole, StorageAction, Select, Confirm, page, given
<1>2. CASE Validate \/ CheckSource \/ CheckTools \/ BackUp \/ Refuse
  BY <1>2 DEF Validate, CheckSource, CheckTools, BackUp, Refuse, quiet, given
<1>3. CASE Wipe \/ Partition \/ Prepare \/ DiskStageFails
  BY <1>3 DEF Wipe, Partition, Prepare, DiskStageFails, diskOnly, given
<1>4. CASE MountRoot \/ CopyTable \/ MountBoot \/ Sync \/ Preserve \/ PowerLoss
  BY <1>4 DEF MountRoot, CopyTable, MountBoot, Sync, Preserve, PowerLoss, still, given
<1>5. CASE StepFails \/ Unmount
  BY <1>5 DEF StepFails, Unmount, given
<1>6. CASE Pacstrap \/ Genfstab \/ ConfigureAndInstall \/ Bootctl \/ LoaderEntry \/ Settings
            \/ CopyPayload \/ ConfigurePlymouth \/ EnableUnits \/ InstallSource
  BY <1>6 DEF Pacstrap, Genfstab, ConfigureAndInstall, Bootctl, LoaderEntry, Settings,
              CopyPayload, ConfigurePlymouth, EnableUnits, InstallSource, Piece, still, given
<1>7. CASE AdapterStep
  BY <1>7 DEF AdapterStep
<1>8. CASE UNCHANGED vars
  BY <1>8 DEF vars, given
<1> QED
  BY <1>1, <1>2, <1>3, <1>4, <1>5, <1>6, <1>7, <1>8 DEF Next

LEMMA AdapterAlways == Spec => []AdapterInv
<1>1. AdapterInv /\ [Next]_vars => AdapterInv'
  BY AdapterAlone, AdapterFrame, AdapterStepKeeps
<1> QED
  BY AdapterInitial, <1>1, PTL DEF Spec

\* A package that was asked for is there, an embedded one in the embedded
\* version; no optional one but as the file of a required name; nothing of the
\* image that its manifest does not vouch for is installed or kept:
\* configure_and_install with verify_local_set and resolve_declared_local_packages.
THEOREM AdapterCompletes == Spec => []FeaturesComplete
<1>1. AdapterInv => FeaturesComplete
  <2> SUFFICES ASSUME AdapterInv PROVE FeaturesComplete
    OBVIOUS
  <2> USE DEF AdapterInv
  <2> DEFINE embedded == {n \in Names : installed[n] = "embedded"}
  <2>1. embedded = EmbeddedNow
    BY DEF EmbeddedNow
  <2>2. (embedded \union kept) \intersect share.damaged = {}
    <3>1. CASE step \in Unverified
      BY <2>1, <3>1 DEF EmbeddedLast, Unverified
    <3>2. CASE step \notin Unverified
      <4>1. LocalSetFits
        BY <3>2 DEF ChecksPassed
      <4>2. embedded \subseteq RequiredFiles /\ kept \subseteq OptionalFiles
        BY <2>1 DEF EmbeddedLast
      <4> QED
        BY <4>1, <4>2, FilesVouchedFor
    <3> QED
      BY <3>1, <3>2
  <2>3. ASSUME step = "done"
        PROVE  /\ \A n \in Requested \union share.required : Satisfies(Present, n)
               /\ share.required \intersect share.files \subseteq embedded
               /\ \A f \in embedded \intersect share.optional :
                      \E n \in share.required \ share.files : f \in Continues[n]
               /\ recorded = Requested \union share.required
    <3>1. LocalSetFits
      BY <2>3 DEF ChecksPassed, Unverified
    <3>2. embedded = RequiredFiles
      BY <2>1, <2>3 DEF EmbeddedLast
    <3>3. Queried(Requested \union share.required) /\ recorded = Requested \union share.required
      BY <2>3 DEF AskedFor
    <3>4. share.required \intersect share.files \subseteq RequiredFiles
      BY DEF RequiredFiles, FilesOfAll, FilesOf
    <3>5. \A f \in RequiredFiles \intersect share.optional :
              \E n \in share.required \ share.files : f \in Continues[n]
      BY <3>1, OptionalOnlyByName
    <3> QED
      BY <3>2, <3>3, <3>4, <3>5 DEF Queried
  <2> QED
    BY <2>2, <2>3 DEF FeaturesComplete
<1> QED
  BY AdapterAlways, <1>1, PTL

\* A declared name of a verified set stands for one of its files, and every file
\* for a name.
LEMMA DeclaredByName ==
    ASSUME PackagesOK, LocalSetFits
    PROVE  /\ \A n \in share.required \union (IF share.files = {} THEN {} ELSE share.optional) :
                  \E f \in share.files : FilesOf(n) = {f}
           /\ \A f \in share.files : \E n \in share.required \union share.optional : f \in FilesOf(n)
<1>1. CASE share.files = {} /\ share.required = {}
  BY <1>1
<1>2. CASE /\ \A n \in share.required \union share.optional : Cardinality(FilesOf(n)) = 1
           /\ FilesOfAll(share.required \union share.optional) = share.files
  <2>1. ASSUME NEW n \in share.required \union share.optional
        PROVE  \E f \in share.files : FilesOf(n) = {f}
    <3>1. IsFiniteSet(FilesOf(n)) /\ FilesOf(n) \subseteq share.files
      BY FilesVouchedFor, AdapterAssumption, FS_Subset DEF FilesOf
    <3>2. PICK f : FilesOf(n) = {f}
      BY <1>2, <3>1, FS_Singleton
    <3> QED
      BY <3>1, <3>2
  <2> QED
    BY <1>2, <2>1 DEF FilesOfAll
<1> QED
  BY <1>1, <1>2 DEF LocalSetFits

\* While a file of the image is missing, damaged or undeclared, or a declared name
\* does not stand for one file, no package of the new system has changed:
\* configure_and_install checks the embedded set and the offline bundle with its
\* database before the first pacman transaction.
THEOREM ImageIsChecked == Spec => []ImageChecksFirst
<1>1. AdapterInv => ImageChecksFirst
  <2> SUFFICES ASSUME AdapterInv, installed # StartingPackages PROVE ImageChecksFirst
    BY DEF ImageChecksFirst
  <2>1. step \notin Unverified \union {"bundle"}
    BY DEF AdapterInv, EmbeddedLast
  <2>2. PackagesOK /\ LocalSetFits /\ (share.variant = "offline" => BundleFits)
    BY <2>1 DEF AdapterInv, ChecksPassed
  <2> QED
    BY <2>2, FilesVouchedFor, DeclaredByName DEF BundleFits, ImageChecksFirst
<1> QED
  BY AdapterAlways, <1>1, PTL

-----------------------------------------------------------------------------
(* The run.                                                                *)

Checking == {"validate", "checkSource", "checkTools", "save"}
DiskStage == {"wipe", "partition", "prepare"}
\* "mountpoint" is written by the step mountBoot.
Building == {"mountRoot", "copy", "mountBoot", "sync"} \union (Pieces \ {"mountpoint"})
Leaving == {"preserve", "umount"}

\* The live system's devices stay mounted, and from the second look at the mounts
\* to the last change of the table nothing on the chosen disk is mounted.
DiskIsIdle ==
    /\ LiveMounts \subseteq mounted
    /\ pc \in (Checking \ {"validate"}) \union DiskStage =>
           \A e \in mounted : disk \notin Ancestry(e)

\* What each check and the saving of the table leave behind for the disk stage.
ChecksHold ==
    /\ pc # "drivePage" => layout \in {"whole", "advanced"}
    /\ pc \in Checking => table[disk] = before
    /\ pc \in {"checkTools", "save"} \union DiskStage => image.source
    /\ pc \in {"save"} \union DiskStage => image.tools
    /\ pc \in {"save", "prepare"} => layout = "advanced"
    /\ pc \in {"wipe", "partition"} => layout = "whole"
    /\ pc = "prepare" => saved = [disk |-> disk, table |-> before]

\* The pieces are written in their order; success means that all of them are
\* there and out of the page cache.
PiecesInOrder ==
    /\ pc \in {"drivePage", "mountRoot", "copy", "mountBoot"} \union Checking \union DiskStage =>
           written = {}
    /\ pc = "base" => written = {"mountpoint"}
    /\ pc = "fstab" => written = {"mountpoint", "base"}
    /\ pc = "features" => written = {"mountpoint", "base", "fstab"}
    /\ pc = "bootctl" => written = {"mountpoint", "base", "fstab", "features"}
    /\ pc = "entry" => written = {"mountpoint", "base", "fstab", "features", "bootctl"}
    /\ pc \in {"settings", "payload", "plymouth"} => "units" \notin written
    /\ pc = "settings" => Pieces \ {"settings", "payload", "plymouth", "units", "source"} = written
    /\ pc = "payload" => Pieces \ {"payload", "plymouth", "units", "source"} = written
    /\ pc = "plymouth" => Pieces \ {"plymouth", "units", "source"} = written
    /\ pc = "units" => Pieces \ {"units", "source"} = written
    /\ pc = "source" => written = Pieces \ {"source"}
    /\ pc = "sync" => written = Pieces /\ "source" \in dirty
    /\ pc # "off" => lost = {}
    /\ SetupStartsComplete

\* The way out: only a run that has come through sync leaves without an exception.
SuccessIsLast ==
    /\ pc \in {"drivePage"} \union Checking \union DiskStage \union Building => ~failed
    /\ pc \in Leaving /\ ~failed => written = Pieces /\ dirty = {}
    /\ reported => pc \in {"done", "off"} /\ written = Pieces /\ dirty = {}
    /\ pc = "done" => reported

\* The saved table of an advanced layout is this disk's from the moment it was
\* saved, and the one on the new system from the moment it was copied.
CopyIsOurs ==
    LET ours == [disk |-> disk, table |-> before]
    IN  layout = "advanced" =>
          /\ pc \in Building \union Leaving => saved = ours
          /\ pc \in Building \ {"mountRoot", "copy"} => copy = ours
          /\ pc \in Leaving /\ ~failed => copy = ours
          /\ reported => copy = ours

-----------------------------------------------------------------------------
(* Types.                                                                  *)

LEMMA TypeInitial == Init => TypeOK
<1> SUFFICES ASSUME Init PROVE TypeOK
  OBVIOUS
<1>1. PackagesOK
  BY AdapterInitial DEF AdapterInv
<1>2. ListingOK
  <2>1. machine \in MachineType
    BY DisksAssumption DEF Init
  <2> QED
    BY <2>1 DEF Init, ListingOK, MachineType, LiveMounts
<1> QED
  BY <1>1, <1>2 DEF Init, TypeOK, Copies, NoCopy, Pieces

LEMMA TypeStep == TypeOK /\ PackagesOK' /\ [Next]_vars => TypeOK'
<1> SUFFICES ASSUME TypeOK, PackagesOK', [Next]_vars PROVE TypeOK'
  OBVIOUS
<1> USE DEF TypeOK, ListingOK
<1>t. table[disk] \in Nat /\ [table EXCEPT ![disk] = @ + 1] \in [Disks -> Nat]
      /\ [disk |-> disk, table |-> table[disk]] \in Copies
  BY DEF Copies
<1>1. CASE Refresh \/ AtTheConsole
  BY <1>1 DEF Refresh, AtTheConsole, ListDisks, ChangeMounts, Devices, page, plan,
              target, outcome
<1>2. CASE StorageAction \/ Select \/ Confirm
  BY <1>t, <1>2 DEF StorageAction, SaveTable, Select, Confirm, Goto, given, listingVars, plan,
                    target, outcome
<1>3. CASE Validate \/ CheckSource \/ CheckTools \/ Refuse
  BY <1>3 DEF Validate, CheckSource, CheckTools, Refuse, Goto, FirstWrite, quiet, given,
              listingVars, plan, target, outcome
<1>4. CASE BackUp
  BY <1>t, <1>4 DEF BackUp, SaveTable, Goto, FirstWrite, given, listingVars, plan, target, outcome
<1>5. CASE Wipe \/ Partition \/ Prepare \/ DiskStageFails
  BY <1>t, <1>5 DEF Wipe, Partition, Prepare, DiskStageFails, ChangeTable, Goto, diskOnly, given,
                    listingVars, plan, target, outcome
<1>6. CASE MountRoot \/ CopyTable \/ MountBoot \/ Sync
  BY <1>6 DEF MountRoot, CopyTable, MountBoot, Sync, Write, Goto, Pieces, still, given,
              listingVars, plan, target, outcome
<1>7. CASE Preserve \/ Unmount \/ PowerLoss \/ StepFails
  BY <1>7 DEF Preserve, Unmount, PowerLoss, StepFails, Goto, still, given, listingVars, plan,
              target, outcome
<1>8. CASE Pacstrap \/ Genfstab \/ ConfigureAndInstall \/ Bootctl \/ LoaderEntry \/ Settings
            \/ CopyPayload \/ ConfigurePlymouth \/ EnableUnits \/ InstallSource
  BY <1>8 DEF Pacstrap, Genfstab, ConfigureAndInstall, Bootctl, LoaderEntry, Settings,
              CopyPayload, ConfigurePlymouth, EnableUnits, InstallSource, Piece, Write, Goto,
              Pieces, still, given, listingVars, plan, outcome
<1>9. CASE AdapterStep \/ UNCHANGED vars
  BY <1>9 DEF AdapterStep, vars, given, listingVars, plan, target, outcome
<1> QED
  BY <1>1, <1>2, <1>3, <1>4, <1>5, <1>6, <1>7, <1>8, <1>9 DEF Next

\* Every variable of the run keeps its type, those of the adapter and of the disk
\* listing included, and what a loss of power can take is part of what was written.
THEOREM RunTypeCorrect == Spec => []TypeOK
<1>1. AdapterInv' => PackagesOK'
  BY DEF AdapterInv
<1> QED
  BY TypeInitial, TypeStep, AdapterAlways, <1>1, PTL DEF Spec

-----------------------------------------------------------------------------
(* Idle disks.                                                             *)

\* A disk that passes the check has nothing mounted on it, however far below.
LEMMA AcceptableIsIdle ==
    ASSUME ListingOK, NEW d, Acceptable(d)
    PROVE  \A e \in mounted : d \notin Ancestry(e)
BY DEF ListingOK, Acceptable, HasMounts, Flattened

\* What is mounted, and below which disk, depends on these two variables.
LEMMA MountsStay ==
    ASSUME UNCHANGED <<machine, mounted>>
    PROVE  LiveMounts' = LiveMounts /\ \A e : Ancestry(e)' = Ancestry(e)
BY DEF LiveMounts, Ancestry

LEMMA IdleInitial == Init => DiskIsIdle
BY DEF Init, DiskIsIdle, Checking, DiskStage

LEMMA IdleStep == TypeOK /\ DiskIsIdle /\ [Next]_vars => DiskIsIdle'
<1> SUFFICES ASSUME TypeOK, DiskIsIdle, [Next]_vars PROVE DiskIsIdle'
  OBVIOUS
<1> DEFINE Looked == (Checking \ {"validate"}) \union DiskStage
<1>s. ASSUME UNCHANGED <<machine, mounted>>,
             pc' \in Looked => pc \in Looked /\ disk' = disk
      PROVE  DiskIsIdle'
  BY <1>s, MountsStay DEF DiskIsIdle
<1> USE DEF Checking, DiskStage
<1>1. CASE Refresh \/ StorageAction \/ Select \/ Confirm
  BY <1>1, <1>s DEF Refresh, ListDisks, StorageAction, Select, Confirm, Goto, page, given,
                    listingVars, plan
<1>2. CASE AtTheConsole
  <2>1. machine' = machine /\ mounted \intersect LiveMounts \subseteq mounted' /\ pc' = pc
        /\ pc \in {"drivePage", "validate"}
    BY <1>2 DEF AtTheConsole, ChangeMounts, page
  <2>2. LiveMounts' = LiveMounts
    BY <2>1 DEF LiveMounts
  <2> QED
    BY <2>1, <2>2 DEF DiskIsIdle
<1>3. CASE Validate
  <2>1. UNCHANGED <<machine, mounted>> /\ disk' = disk /\ ListingOK /\ Acceptable(disk)
    BY <1>3 DEF Validate, quiet, given, listingVars, plan, TypeOK
  <2> QED
    BY <2>1, AcceptableIsIdle, MountsStay DEF DiskIsIdle
<1>4. CASE CheckSource \/ CheckTools \/ BackUp \/ Refuse
  BY <1>4, <1>s DEF CheckSource, CheckTools, BackUp, Refuse, FirstWrite, Goto, quiet, given,
                    listingVars, plan
<1>5. CASE Wipe \/ Partition \/ Prepare \/ DiskStageFails
  BY <1>5, <1>s DEF Wipe, Partition, Prepare, DiskStageFails, Goto, diskOnly, given, listingVars,
                    plan
<1>6. CASE MountRoot \/ CopyTable \/ MountBoot \/ Sync \/ Preserve \/ PowerLoss
  BY <1>6, <1>s DEF MountRoot, CopyTable, MountBoot, Sync, Preserve, PowerLoss, Goto, still, given,
                    listingVars
<1>7. CASE Unmount \/ StepFails
  BY <1>7, <1>s DEF Unmount, StepFails, Goto, given, listingVars
<1>8. CASE Pacstrap \/ Genfstab \/ ConfigureAndInstall \/ Bootctl \/ LoaderEntry \/ Settings
            \/ CopyPayload \/ ConfigurePlymouth \/ EnableUnits \/ InstallSource
  BY <1>8, <1>s DEF Pacstrap, Genfstab, ConfigureAndInstall, Bootctl, LoaderEntry, Settings,
              CopyPayload, ConfigurePlymouth, EnableUnits, InstallSource, Piece, Goto, still,
              given, listingVars
<1>9. CASE AdapterStep \/ UNCHANGED vars
  BY <1>9, <1>s DEF AdapterStep, vars, given, listingVars, plan
<1> QED
  BY <1>1, <1>2, <1>3, <1>4, <1>5, <1>6, <1>7, <1>8, <1>9 DEF Next

\* A step changes the table of the chosen disk or none, and only a storage action
\* on the drive page or the disk stage does.
LEMMA TableSteps ==
    TypeOK /\ [Next]_vars =>
        \/ table' = table
        \/ /\ table' = [table EXCEPT ![disk] = @ + 1] /\ disk' = disk
           /\ machine' = machine /\ mounted' = mounted
           /\ \/ pc \in DiskStage
              \/ pc = "drivePage" /\ pc' = pc /\ Acceptable(disk)
<1> SUFFICES ASSUME TypeOK, [Next]_vars
             PROVE  \/ table' = table
                    \/ /\ table' = [table EXCEPT ![disk] = @ + 1] /\ disk' = disk
                       /\ machine' = machine /\ mounted' = mounted
                       /\ \/ pc \in DiskStage
                          \/ pc = "drivePage" /\ pc' = pc /\ Acceptable(disk)
  OBVIOUS
<1>1. CASE Refresh \/ AtTheConsole \/ Select \/ Confirm
  BY <1>1 DEF Refresh, AtTheConsole, Select, Confirm, page
<1>2. CASE StorageAction
  BY <1>2 DEF StorageAction, given, listingVars, plan
<1>3. CASE Validate \/ CheckSource \/ CheckTools \/ BackUp \/ Refuse
  BY <1>3 DEF Validate, CheckSource, CheckTools, BackUp, Refuse, quiet
<1>4. CASE Wipe \/ Partition \/ Prepare \/ DiskStageFails
  BY <1>4 DEF Wipe, Partition, Prepare, DiskStageFails, Goto, ChangeTable, DiskStage, diskOnly,
              given, listingVars, plan
<1>5. CASE MountRoot \/ CopyTable \/ MountBoot \/ Sync \/ Preserve \/ PowerLoss \/ Unmount
            \/ StepFails
  BY <1>5 DEF MountRoot, CopyTable, MountBoot, Sync, Preserve, PowerLoss, Unmount, StepFails, still
<1>6. CASE Pacstrap \/ Genfstab \/ ConfigureAndInstall \/ Bootctl \/ LoaderEntry \/ Settings
            \/ CopyPayload \/ ConfigurePlymouth \/ EnableUnits \/ InstallSource
  BY <1>6 DEF Pacstrap, Genfstab, ConfigureAndInstall, Bootctl, LoaderEntry, Settings,
              CopyPayload, ConfigurePlymouth, EnableUnits, InstallSource, Piece, still
<1>7. CASE AdapterStep \/ UNCHANGED vars
  BY <1>7 DEF AdapterStep, vars
<1> QED
  BY <1>1, <1>2, <1>3, <1>4, <1>5, <1>6, <1>7 DEF Next

\* A disk on which anything was mounted when it was last checked, or that carries
\* the live system, is never changed, by no storage action and by no run:
\* validate_storage_action and validate_plan ask lsblk and findmnt again.
THEOREM OnlyIdleDisksAreChanged == Spec => OnlyIdleDisksChange
<1>1. TypeOK /\ DiskIsIdle /\ [Next]_vars =>
          [\A d \in Disks : table'[d] # table[d] =>
              \A e \in mounted \union LiveMounts : d \notin Ancestry(e)]_vars
  <2> SUFFICES ASSUME TypeOK, DiskIsIdle, [Next]_vars, NEW d \in Disks, table'[d] # table[d]
               PROVE  \A e \in mounted \union LiveMounts : d \notin Ancestry(e)
    OBVIOUS
  <2>1. d = disk /\ (pc \in DiskStage \/ Acceptable(disk))
    BY TableSteps DEF TypeOK
  <2>2. \A e \in mounted : disk \notin Ancestry(e)
    BY <2>1, AcceptableIsIdle DEF TypeOK, DiskIsIdle
  <2> QED
    BY <2>1, <2>2 DEF DiskIsIdle
<1>2. Spec => []DiskIsIdle
  BY IdleInitial, IdleStep, RunTypeCorrect, PTL DEF Spec
<1> QED
  BY <1>1, <1>2, RunTypeCorrect, PTL DEF Spec, OnlyIdleDisksChange

-----------------------------------------------------------------------------
(* Checks in front of the first change.                                    *)

ChecksInv == ChecksHold /\ ChecksComeFirst

LEMMA ChecksInitial == Init => ChecksInv
BY DEF Init, ChecksInv, ChecksHold, ChecksComeFirst, Running, Checking, DiskStage

LEMMA ChecksStep == TypeOK /\ ChecksInv /\ [Next]_vars => ChecksInv'
<1> SUFFICES ASSUME TypeOK, ChecksInv, [Next]_vars PROVE ChecksInv'
  OBVIOUS
<1> USE DEF ChecksInv, ChecksHold, ChecksComeFirst, Running, Checking, DiskStage
\* Behind the disk stage nothing of all this changes any more.
<1>s. ASSUME UNCHANGED <<image, table, saved, disk, layout, before>>, pc # "drivePage",
             pc' \notin Checking \union DiskStage
      PROVE  ChecksInv'
  BY <1>s
<1>1. CASE Refresh \/ AtTheConsole \/ Select \/ StorageAction
  BY <1>1 DEF Refresh, AtTheConsole, Select, StorageAction, page, given, plan
<1>2. CASE Confirm
  BY <1>2 DEF Confirm, Goto
<1>3. CASE Validate \/ CheckSource \/ CheckTools \/ BackUp
  BY <1>3 DEF Validate, CheckSource, CheckTools, BackUp, SaveTable, FirstWrite, Goto, quiet, given,
              plan
<1>4. CASE Refuse
  BY <1>4 DEF Refuse, given, plan
<1>5. CASE Wipe \/ Partition \/ Prepare \/ DiskStageFails
  BY <1>5 DEF Wipe, Partition, Prepare, DiskStageFails, Goto, ChangeTable, diskOnly, given, plan
<1>6. CASE MountRoot \/ CopyTable \/ MountBoot \/ Sync \/ Preserve \/ PowerLoss
  BY <1>6, <1>s DEF MountRoot, CopyTable, MountBoot, Sync, Preserve, PowerLoss, Goto, still, given,
                    plan
<1>7. CASE Unmount \/ StepFails
  BY <1>7, <1>s DEF Unmount, StepFails, Goto, Pieces, given, plan
<1>8. CASE Pacstrap \/ Genfstab \/ ConfigureAndInstall \/ Bootctl \/ LoaderEntry \/ Settings
            \/ CopyPayload \/ ConfigurePlymouth \/ EnableUnits \/ InstallSource
  BY <1>8, <1>s DEF Pacstrap, Genfstab, ConfigureAndInstall, Bootctl, LoaderEntry, Settings,
              CopyPayload, ConfigurePlymouth, EnableUnits, InstallSource, Piece, Goto, still,
              given, plan
<1>9. CASE AdapterStep \/ UNCHANGED vars
  BY <1>9 DEF AdapterStep, vars, given, plan
<1> QED
  BY <1>1, <1>2, <1>3, <1>4, <1>5, <1>6, <1>7, <1>8, <1>9 DEF Next

\* No table is changed by a run whose image fails a check that comes first, and an
\* advanced layout only once this table of this disk is saved: the order of the
\* calls in install().
THEOREM ChecksAreFirst == Spec => []ChecksComeFirst
<1>1. Spec => []ChecksInv
  BY ChecksInitial, ChecksStep, RunTypeCorrect, PTL DEF Spec
<1>2. ChecksInv => ChecksComeFirst
  BY DEF ChecksInv
<1> QED
  BY <1>1, <1>2, PTL

-----------------------------------------------------------------------------
(* The pieces.                                                             *)

PiecesInv == PiecesInOrder /\ SuccessIsLast

LEMMA PiecesInitial == Init => PiecesInv
BY DEF Init, PiecesInv, PiecesInOrder, SetupStartsComplete, SuccessIsLast, Checking, DiskStage, Building, Leaving,
       Pieces

\* Steps that leave the pieces and the outcome alone, in front of the new system.
LEMMA BeforeTheSystem ==
    ASSUME PiecesInv, UNCHANGED <<written, dirty, failed, reported, lost>>,
           pc \in {"drivePage"} \union Checking \union DiskStage,
           pc' \in {"drivePage", "mountRoot"} \union Checking \union DiskStage
    PROVE  PiecesInv'
BY DEF PiecesInv, PiecesInOrder, SetupStartsComplete, SuccessIsLast, Checking, DiskStage,
       Building, Leaving, Pieces

\* A loss of power takes pieces away, but is told what it has taken.
LEMMA PiecesLost ==
    ASSUME TypeOK, PiecesInv, PowerLoss
    PROVE  PiecesInv'
<1>1. /\ dirty \subseteq written /\ lost' \subseteq dirty /\ written' = written \ lost'
      /\ pc' = "off" /\ dirty' = {} /\ pc # "off" /\ UNCHANGED <<failed, reported>>
  BY DEF TypeOK, PowerLoss
<1>2. lost = {} /\ SetupStartsComplete
  BY <1>1 DEF PiecesInv, PiecesInOrder
<1>3. written' \subseteq written /\ written' \union lost' = written
  BY <1>1
<1>4. SetupStartsComplete'
  <2>1. {"entry", "units"} \subseteq written => written \in {Pieces, Pieces \ {"source"}}
    BY <1>2 DEF SetupStartsComplete
  <2> QED
    BY <1>3, <2>1 DEF SetupStartsComplete
<1>5. PiecesInOrder'
  BY <1>1, <1>4 DEF PiecesInOrder, Checking, DiskStage
<1>6. SuccessIsLast'
  <2>1. reported => written = Pieces /\ dirty = {}
    BY DEF PiecesInv, SuccessIsLast
  <2> QED
    BY <1>1, <2>1 DEF SuccessIsLast, Checking, DiskStage, Building, Leaving, Pieces
<1> QED
  BY <1>5, <1>6 DEF PiecesInv

LEMMA PiecesStep == TypeOK /\ PiecesInv /\ [Next]_vars => PiecesInv'
<1> SUFFICES ASSUME TypeOK, PiecesInv, [Next]_vars PROVE PiecesInv'
  OBVIOUS
<1>1. CASE Refresh \/ AtTheConsole \/ Select \/ StorageAction \/ Confirm
  BY <1>1, BeforeTheSystem DEF Refresh, AtTheConsole, Select, StorageAction, Confirm, Goto, page,
                               target, outcome, Checking
<1>2. CASE Validate \/ CheckSource \/ CheckTools \/ BackUp
  BY <1>2, BeforeTheSystem DEF Validate, CheckSource, CheckTools, BackUp, FirstWrite, Goto, quiet,
                               target, outcome, Checking, DiskStage
<1>3. CASE Wipe \/ Partition \/ Prepare
  BY <1>3, BeforeTheSystem DEF Wipe, Partition, Prepare, Goto, diskOnly, target, outcome, DiskStage
<1> USE DEF PiecesInv, PiecesInOrder, SetupStartsComplete, SuccessIsLast, Checking, DiskStage,
            Building, Leaving, Pieces
<1>4. CASE Refuse \/ DiskStageFails
  BY <1>4 DEF Refuse, DiskStageFails, diskOnly, target
<1>5. CASE MountRoot \/ CopyTable
  BY <1>5 DEF MountRoot, CopyTable, Goto, still, target, outcome
<1>6. CASE MountBoot
  BY <1>6 DEF MountBoot, Write, Goto, still, outcome
<1>7. CASE Pacstrap
  BY <1>7 DEF Pacstrap, Piece, Write, Goto, still, outcome
<1>8. CASE Genfstab
  BY <1>8 DEF Genfstab, Piece, Write, Goto, still, outcome
<1>9. CASE ConfigureAndInstall
  BY <1>9 DEF ConfigureAndInstall, Piece, Write, Goto, still, outcome
<1>10. CASE Bootctl
  BY <1>10 DEF Bootctl, Piece, Write, Goto, still, outcome
<1>11. CASE LoaderEntry
  BY <1>11 DEF LoaderEntry, Piece, Write, Goto, still, outcome
<1>12. CASE Settings
  BY <1>12 DEF Settings, Piece, Write, Goto, still, outcome
<1>13. CASE CopyPayload
  BY <1>13 DEF CopyPayload, Piece, Write, Goto, still, outcome
<1>14. CASE ConfigurePlymouth
  BY <1>14 DEF ConfigurePlymouth, Piece, Write, Goto, still, outcome
<1>15. CASE EnableUnits
  BY <1>15 DEF EnableUnits, Piece, Write, Goto, still, outcome
<1>16. CASE InstallSource
  BY <1>16 DEF InstallSource, Piece, Write, Goto, still, outcome
<1>17. CASE Sync
  BY <1>17 DEF Sync, Goto, still, outcome
<1>18. CASE StepFails
  BY <1>18 DEF StepFails, target
<1>19. CASE Preserve
  BY <1>19 DEF Preserve, Goto, still, outcome
<1>20. CASE Unmount
  BY <1>20 DEF Unmount, Goto, TypeOK
<1>21. CASE PowerLoss
  BY <1>21, PiecesLost
<1>22. CASE AdapterStep \/ UNCHANGED vars
  BY <1>22 DEF AdapterStep, vars, target, outcome
<1> QED
  BY <1>1, <1>2, <1>3, <1>4, <1>5, <1>6, <1>7, <1>8, <1>9, <1>10, <1>11, <1>12, <1>13, <1>14,
     <1>15, <1>16, <1>17, <1>18, <1>19, <1>20, <1>21, <1>22 DEF Next

LEMMA PiecesAlways == Spec => []PiecesInv
BY PiecesInitial, PiecesStep, RunTypeCorrect, PTL DEF Spec

\* What was reported as installed is on the disk, all of it, even after a loss of
\* power and a umount that failed: sync comes in front of the report.
THEOREM ReportIsTrue == Spec => []ReportedSurvives
<1>1. PiecesInv => ReportedSurvives
  BY DEF PiecesInv, SuccessIsLast, ReportedSurvives
<1> QED
  BY <1>1, PiecesAlways, PTL

\* A disk that starts into first-boot setup has everything setup needs, however the
\* run ended, but for what a loss of power took from the page cache: the unit is
\* enabled behind all that it relies on.
THEOREM SetupFindsEverything == Spec => []SetupStartsComplete
<1>1. PiecesInv => SetupStartsComplete
  BY DEF PiecesInv, PiecesInOrder, SetupStartsComplete
<1> QED
  BY <1>1, PiecesAlways, PTL

-----------------------------------------------------------------------------
(* The saved table.                                                        *)

LEMMA CopyInitial == Init => CopyIsOurs
BY DEF Init, CopyIsOurs

LEMMA CopyStep == TypeOK /\ ChecksInv /\ PiecesInv /\ CopyIsOurs /\ [Next]_vars => CopyIsOurs'
<1> SUFFICES ASSUME TypeOK, ChecksInv, PiecesInv, CopyIsOurs, [Next]_vars PROVE CopyIsOurs'
  OBVIOUS
<1>r. reported => pc \in {"done", "off"}
  BY DEF PiecesInv, SuccessIsLast
<1>f. pc \in Building \union {"mountRoot", "copy"} => ~failed
  BY DEF PiecesInv, SuccessIsLast, Building
<1>l. pc \in Checking \union DiskStage \union {"drivePage"} => ~reported
  BY <1>r DEF Checking, DiskStage
<1> USE DEF CopyIsOurs, Building, Leaving, Pieces
<1>1. CASE Refresh \/ AtTheConsole \/ Select \/ StorageAction \/ Confirm
  BY <1>1, <1>l DEF Refresh, AtTheConsole, Select, StorageAction, Confirm, Goto, page, plan, target,
                    outcome
<1>2. CASE Validate \/ CheckSource \/ CheckTools \/ BackUp \/ Refuse
  BY <1>2, <1>l DEF Validate, CheckSource, CheckTools, BackUp, Refuse, FirstWrite, Goto, quiet, plan,
                    target, outcome, Checking
<1>3. CASE Wipe \/ Partition \/ DiskStageFails
  BY <1>3, <1>l DEF Wipe, Partition, DiskStageFails, Goto, diskOnly, plan, target, outcome, ChecksInv,
                    ChecksHold, DiskStage
<1>4. CASE Prepare
  BY <1>4, <1>l DEF Prepare, Goto, diskOnly, plan, target, outcome, ChecksInv, ChecksHold, DiskStage
<1>5. CASE MountRoot \/ MountBoot
  BY <1>5, <1>r DEF MountRoot, MountBoot, Goto, still, plan, target, outcome
<1>6. CASE CopyTable
  BY <1>6, <1>r DEF CopyTable, Goto, still, plan, outcome
<1>7. CASE Pacstrap \/ Genfstab \/ ConfigureAndInstall \/ Bootctl \/ LoaderEntry \/ Settings
            \/ CopyPayload \/ ConfigurePlymouth \/ EnableUnits \/ InstallSource
  BY <1>7, <1>r DEF Pacstrap, Genfstab, ConfigureAndInstall, Bootctl, LoaderEntry, Settings,
              CopyPayload, ConfigurePlymouth, EnableUnits, InstallSource, Piece, Goto, still,
              plan, outcome
<1>8. CASE Sync
  BY <1>8, <1>r DEF Sync, Goto, still, plan, outcome
<1>9. CASE StepFails
  BY <1>9, <1>r DEF StepFails, plan, target
<1>10. CASE Preserve
  BY <1>10, <1>r DEF Preserve, Goto, still, plan, outcome
<1>11. CASE Unmount
  BY <1>11 DEF Unmount, Goto, plan, TypeOK
<1>12. CASE PowerLoss
  BY <1>12 DEF PowerLoss, still, plan, outcome
<1>13. CASE AdapterStep \/ UNCHANGED vars
  BY <1>13 DEF AdapterStep, vars, plan, target, outcome
<1> QED
  BY <1>1, <1>2, <1>3, <1>4, <1>5, <1>6, <1>7, <1>8, <1>9, <1>10, <1>11, <1>12, <1>13 DEF Next

\* An advanced installation that succeeded carries the table of its own disk as it
\* was at the final confirmation, whatever an earlier storage action saved under
\* the same name: backup_partition_table comes after the last of them.
THEOREM CopyIsCurrent == Spec => []AdvancedCopyIsCurrent
<1>1. Spec => []ChecksInv
  BY ChecksInitial, ChecksStep, RunTypeCorrect, PTL DEF Spec
<1>2. Spec => []CopyIsOurs
  BY <1>1, CopyInitial, CopyStep, RunTypeCorrect, PiecesAlways, PTL DEF Spec
<1>3. CopyIsOurs => AdvancedCopyIsCurrent
  BY DEF CopyIsOurs, AdvancedCopyIsCurrent
<1> QED
  BY <1>2, <1>3, PTL

-----------------------------------------------------------------------------
(* The promise.                                                            *)

\* Where each step of the run stands in the promise.
PhaseOfStep ==
    /\ pc = "drivePage" => Phase = "choosing"
    /\ pc # "drivePage" /\ reported => Phase = "reported"
    /\ ~reported /\ pc \in {"stopped", "off", "done"} => Phase = "over"
    /\ pc \in Checking => Phase = "checking"
    /\ pc \in DiskStage \union Building => Phase = "installing"
    /\ pc \in Leaving /\ failed => Phase = "installing"
    /\ pc \in Leaving /\ ~failed => Phase = "complete"

\* With the invariants the step alone decides the phase.
LEMMA Phases == PiecesInv => PhaseOfStep
<1> SUFFICES ASSUME PiecesInv PROVE PhaseOfStep
  OBVIOUS
<1> USE DEF Phase, Checking, DiskStage, Building, Leaving, Pieces
<1>1. reported => pc \in {"done", "off"}
  BY DEF PiecesInv, SuccessIsLast
<1>2. pc \in DiskStage \union Building => ~(written = Pieces /\ dirty = {})
  BY DEF PiecesInv, PiecesInOrder
<1>3. pc \in Leaving /\ ~failed => written = Pieces /\ dirty = {}
  BY DEF PiecesInv, SuccessIsLast
<1>4. pc = "drivePage" => Phase = "choosing"
  OBVIOUS
<1>5. pc # "drivePage" /\ reported => Phase = "reported"
  OBVIOUS
<1>6. ~reported /\ pc \in {"stopped", "off", "done"} => Phase = "over"
  OBVIOUS
<1>7. pc \in Checking => Phase = "checking"
  BY <1>1
<1>8. pc \in DiskStage \union Building => Phase = "installing"
  BY <1>1, <1>2
<1>9. pc \in Leaving /\ failed => Phase = "installing"
  BY <1>1
<1>10. pc \in Leaving /\ ~failed => Phase = "complete"
  BY <1>1, <1>3
<1> QED
  BY <1>4, <1>5, <1>6, <1>7, <1>8, <1>9, <1>10 DEF PhaseOfStep

\* Every step of the run is one of the promise's, or none of its business.
LEMMA PromiseStep ==
    TypeOK /\ PiecesInv /\ PiecesInv' /\ [Next]_vars => [Promise!Next]_(Promise!vars)
<1>p. PiecesInv' => PhaseOfStep'
  BY Phases, PTL
<1> SUFFICES ASSUME TypeOK, PiecesInv, PiecesInv', [Next]_vars
             PROVE  Promise!Next \/ UNCHANGED <<Phase, disk, table>>
  BY DEF Promise!vars
<1>h. PhaseOfStep /\ PhaseOfStep'
  BY <1>p, Phases
<1> USE DEF PhaseOfStep, Checking, DiskStage, Building, Leaving, Pieces
<1>1. CASE Refresh \/ AtTheConsole
  BY <1>1, <1>h DEF Refresh, AtTheConsole, page, plan
<1>2. CASE StorageAction
  BY <1>2, <1>h DEF StorageAction, plan, TypeOK, Promise!Next, Promise!Choose, Promise!OneChange
<1>3. CASE Select
  BY <1>3, <1>h DEF Select, TypeOK, ListingOK, Promise!Next, Promise!Choose
<1>4. CASE Confirm
  BY <1>4, <1>h DEF Confirm, Goto, Promise!Next, Promise!Confirm, Promise!Step
<1>5. CASE Validate \/ CheckSource
  BY <1>5, <1>h DEF Validate, CheckSource, Goto, quiet, plan
<1>6. CASE CheckTools \/ BackUp
  BY <1>6, <1>h DEF CheckTools, BackUp, FirstWrite, Goto, quiet, plan, Promise!Next, Promise!Start,
                    Promise!Step
<1>r. pc # "done" /\ pc # "off" => ~reported
  BY DEF PiecesInv, SuccessIsLast
<1>7. CASE Refuse
  BY <1>7, <1>h, <1>r DEF Refuse, plan, Promise!Next, Promise!GiveUp, Promise!Step
<1>8. CASE Wipe \/ Partition \/ Prepare
  BY <1>8, <1>h DEF Wipe, Partition, Prepare, ChangeTable, Goto, diskOnly, plan, Promise!Next,
                    Promise!Change, Promise!OneChange
<1>9. CASE DiskStageFails
  BY <1>9, <1>h, <1>r DEF DiskStageFails, plan, Promise!Next, Promise!GiveUp, Promise!Step,
                          Promise!OneChange
<1>10. CASE MountRoot \/ CopyTable \/ MountBoot
  BY <1>10, <1>h DEF MountRoot, CopyTable, MountBoot, Goto, still, plan
<1>11. CASE Pacstrap \/ Genfstab \/ ConfigureAndInstall \/ Bootctl \/ LoaderEntry \/ Settings
             \/ CopyPayload \/ ConfigurePlymouth \/ EnableUnits \/ InstallSource
  BY <1>11, <1>h DEF Pacstrap, Genfstab, ConfigureAndInstall, Bootctl, LoaderEntry, Settings,
              CopyPayload, ConfigurePlymouth, EnableUnits, InstallSource, Piece, Goto, still, plan
<1>12. CASE Sync
  <2>1. ~failed'
    BY <1>12 DEF Sync, Goto, still, outcome, PiecesInv, SuccessIsLast
  <2> QED
    BY <1>12, <1>h, <2>1 DEF Sync, Goto, still, plan, Promise!Next, Promise!Complete, Promise!Step
<1>13. CASE StepFails
  BY <1>13, <1>h, <1>r DEF StepFails, plan, Promise!Next, Promise!GiveUp, Promise!Step
<1>14. CASE Preserve
  BY <1>14, <1>h DEF Preserve, Goto, still, plan, outcome
<1>15. CASE Unmount
  BY <1>15, <1>h DEF Unmount, Goto, plan, Promise!Next, Promise!Report, Promise!GiveUp, Promise!Step
<1>16. CASE PowerLoss
  <2>1. UNCHANGED <<disk, table, reported, failed>> /\ pc' = "off" /\ pc \notin {"drivePage", "off"}
    BY <1>16 DEF PowerLoss, still, plan, outcome
  <2>2. pc = "done" => reported
    BY DEF PiecesInv, SuccessIsLast
  <2>3. CASE reported
    BY <2>1, <2>3, <1>h
  <2>4. CASE ~reported
    <3>1. Phase' = "over"
      BY <2>1, <2>4, <1>h
    <3>2. pc = "stopped" \/ pc \in Checking \/ pc \in DiskStage \union Building
            \/ (pc \in Leaving /\ failed) \/ (pc \in Leaving /\ ~failed)
      BY <2>1, <2>2, <2>4 DEF TypeOK
    <3>3. Phase \in {"over", "checking", "installing", "complete"}
      BY <3>2, <2>4, <1>h
    <3> QED
      BY <2>1, <3>1, <3>3 DEF Promise!Next, Promise!GiveUp, Promise!Step
  <2> QED
    BY <2>3, <2>4
<1>17. CASE AdapterStep
  BY <1>17, <1>h DEF AdapterStep, plan
<1>18. CASE UNCHANGED vars
  BY <1>18 DEF vars, plan, target, outcome, Phase
<1> QED
  BY <1>1, <1>2, <1>3, <1>4, <1>5, <1>6, <1>7, <1>8, <1>9, <1>10, <1>11, <1>12, <1>13, <1>14,
     <1>15, <1>16, <1>17, <1>18 DEF Next

\* The run keeps the promise of module Installation: no disk but the confirmed one
\* changes after the confirmation, none before the checks are over, and success is
\* reported last, once, of a whole system.  install() with main() around it.
THEOREM RunKeepsPromise == Spec => KeepsPromise
<1>1. Init => Promise!Init
  BY DEF Init, Promise!Init, Phase
<1> QED
  BY <1>1, PromiseStep, RunTypeCorrect, PiecesAlways, PTL DEF Spec, KeepsPromise, Promise!Spec
=============================================================================
