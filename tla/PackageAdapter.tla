--------------------------- MODULE PackageAdapter ---------------------------
(***************************************************************************)
(* configure_and_install of backend/aero7_shell_adapter.py: the Aero7      *)
(* packages of the new system.  The repository is added and its key        *)
(* signed, the packages embedded in the image are verified, the others     *)
(* come from the public repository or, offline, from the embedded bundle,  *)
(* and one last transaction puts the embedded packages over them.          *)
(*                                                                         *)
(* pacman itself is external: a transaction takes its targets with what    *)
(* they depend on, removes what conflicts with them (the one question      *)
(* --ask=4 approves) and leaves every dependency satisfied, or it fails.   *)
(***************************************************************************)
EXTENDS Naturals, FiniteSets

CONSTANTS
    Names,        \* the packages there are
    Requested,    \* aero7-packages.txt
    Shares,       \* what the image may carry in /usr/share/aero7
    BasePackages, \* what pacstrap has installed
    Published,    \* what the public repositories hold
    Depends,      \* Depends[n]: the names package n needs
    Provides,     \* Provides[n]: the names it stands for besides its own
    Conflicts,    \* Conflicts[n]: the names it cannot be installed with
    Continues,    \* Continues[n]: the packages whose file names start with n-
    SameFile      \* the embedded packages whose published file has that name

\* An image: its variant, the lists of required and optional embedded packages,
\* the embedded files, those the manifest lists and those whose checksum is
\* wrong; and of the offline bundle the same, with its database.
ShareType ==
    [variant : {"online", "offline"},
     required : SUBSET Names, optional : SUBSET Names,
     files : SUBSET Names, listed : SUBSET Names, damaged : SUBSET Names,
     bundle : SUBSET Names, bundled : SUBSET Names, spoilt : SUBSET Names,
     database : BOOLEAN]

ASSUME AdapterAssumption ==
    /\ IsFiniteSet(Names) /\ Shares \subseteq ShareType
    /\ {Requested, BasePackages, Published, SameFile} \subseteq SUBSET Names
    /\ {Depends, Provides, Conflicts, Continues} \subseteq [Names -> SUBSET Names]

VARIABLES
    share,      \* the image
    step,       \* the next step of configure_and_install
    installed,  \* [Names -> version], "none" for a package that is not there
    signed,     \* packages whose file in pacman's cache has a detached signature
    kept,       \* the optional packages cached on the new system
    recorded    \* requested-aero7-packages.txt

adapterVars == <<share, step, installed, signed, kept, recorded>>

Versions == {"none", "published", "embedded"}

StartingPackages == [n \in Names |-> IF n \in BasePackages THEN "published" ELSE "none"]

AdapterInit ==
    /\ share \in Shares
    /\ step = "key"
    /\ installed = StartingPackages
    /\ signed = {} /\ kept = {} /\ recorded = {}

StepTo(from, to) == step = from /\ step' = to

-----------------------------------------------------------------------------
(* pacman (external).                                                      *)

Present == {n \in Names : installed[n] # "none"}

\* A name is satisfied by the package that bears it or by one that provides it.
Satisfies(packages, name) ==
    \E p \in packages : p = name \/ name \in Provides[p]

Clash(p, q) ==
    /\ p # q
    /\ \/ ({q} \union Provides[q]) \intersect Conflicts[p] # {}
       \/ ({p} \union Provides[p]) \intersect Conflicts[q] # {}

\* The targets and, as far as the pool has them, the dependencies they miss.
WithDependencies(pool, targets) ==
    LET Missing(s) == {d \in UNION {Depends[p] : p \in s} : ~Satisfies(Present \union s, d)}
        grow[i \in 0 .. Cardinality(Names)] ==
            IF i = 0 THEN targets ELSE grow[i - 1] \union (Missing(grow[i - 1]) \intersect pool)
    IN  grow[Cardinality(Names)]

\* What a transaction with these new packages takes away, and what it leaves.
Replaced(new) == {q \in Present \ new : \E p \in new : Clash(p, q)}

Outcome(new) == (Present \ Replaced(new)) \union new

Legal(new) ==
    /\ \A p, q \in new : ~Clash(p, q)
    /\ \A p \in Outcome(new) : \A d \in Depends[p] : Satisfies(Outcome(new), d)

Install(new, version) ==
    installed' = [n \in Names |-> IF version[n] # "none" THEN version[n]
                                  ELSE IF n \in Outcome(new) THEN installed[n] ELSE "none"]

\* pacman -S --needed --ask=4: what is there already stays as it is.
SyncTransaction(pool, targets) ==
    LET new == WithDependencies(pool, targets) \ Present
    IN  /\ targets \subseteq pool
        /\ Legal(new)
        /\ Install(new, [n \in Names |-> IF n \in new THEN "published" ELSE "none"])

\* pacman -Q
Queried(names) == \A n \in names : Satisfies(Present, n)

-----------------------------------------------------------------------------
(* The embedded packages and the offline bundle.                           *)

\* resolve_declared_local_packages: the files whose name starts with n-.
FilesOf(n) == {f \in share.files : f = n \/ f \in Continues[n]}

FilesOfAll(names) == UNION {FilesOf(n) : n \in names}

\* (wrong) the manifest is compared, the checksums are not
LocalSetListed ==
    \/ share.files = {} /\ share.required = {} /\ share.listed = {}
    \/ /\ share.files # {} /\ share.required # {}
       /\ share.required \intersect share.optional = {}
       /\ share.files = share.listed
       /\ \A n \in share.required \union share.optional : Cardinality(FilesOf(n)) = 1
       /\ FilesOfAll(share.required \union share.optional) = share.files

\* No embedded set at all, or a complete one: no package both required and
\* optional, the files the manifest lists and no others, every checksum right,
\* every declared name the start of exactly one file, no file undeclared.
LocalSetFits ==
    \/ share.files = {} /\ share.required = {} /\ share.listed = {}
    \/ /\ share.files # {} /\ share.required # {}
       /\ share.required \intersect share.optional = {}
       /\ share.files = share.listed /\ share.files \intersect share.damaged = {}
       /\ \A n \in share.required \union share.optional : Cardinality(FilesOf(n)) = 1
       /\ FilesOfAll(share.required \union share.optional) = share.files

\* (wrong) the signature of the database stands for the packages
BundleDatabaseFits == share.bundle # {} /\ share.database

BundleFits ==
    /\ share.bundle # {} /\ share.bundle = share.bundled
    /\ share.bundle \intersect share.spoilt = {}
    /\ share.database

RequiredFiles == FilesOfAll(share.required)

OptionalFiles == IF share.files = {} THEN {} ELSE FilesOfAll(share.optional)

\* What the first transaction asks for: what the image does not embed itself.
RepositoryPackages == Requested \ share.required

-----------------------------------------------------------------------------
(* The steps.                                                              *)

packages == <<share, installed, signed, kept, recorded>>

\* The pinned key is copied, and [aero7] added to pacman.conf.
AddRepository == StepTo("key", "keyring") /\ UNCHANGED packages

\* pacman-key --init, --populate, --add and --lsign-key
TrustKey == StepTo("keyring", "verify") /\ UNCHANGED packages

FirstSource ==
    IF share.variant = "offline" THEN "bundle"
    ELSE IF RepositoryPackages = {} THEN "optional" ELSE "sync"

VerifyLocalSet ==
    /\ StepTo("verify", FirstSource)
    /\ Requested # {} /\ LocalSetFits
    /\ UNCHANGED packages

\* pacman -Syy --needed; what it downloads stays in the cache with its signature.
InstallPublished ==
    /\ StepTo("sync", "querySync")
    /\ SyncTransaction(Published, RepositoryPackages)
    /\ signed' = signed \union
                 (WithDependencies(Published, RepositoryPackages) \ Present)
    /\ UNCHANGED <<share, kept, recorded>>

\* The bundle is verified and copied, without signatures, with its database.
CopyBundle ==
    /\ StepTo("bundle", IF RepositoryPackages = {} THEN "optional" ELSE "syncBundle")
    /\ BundleFits
    /\ UNCHANGED packages

InstallBundled ==
    /\ StepTo("syncBundle", "querySync")
    /\ SyncTransaction(share.bundle, RepositoryPackages)
    /\ UNCHANGED <<share, signed, kept, recorded>>

QueryRepository ==
    /\ StepTo("querySync", "optional")
    /\ Queried(RepositoryPackages)
    /\ UNCHANGED packages

\* The optional packages are put aside, each with its checksum.
CacheOptional ==
    /\ StepTo("optional", IF RequiredFiles = {} THEN "record" ELSE "copyLocal")
    /\ kept' = OptionalFiles
    /\ UNCHANGED <<share, installed, signed, recorded>>

\* The files go into pacman's cache; the signature of a published file that had
\* the same name goes away.
CopyLocal ==
    /\ StepTo("copyLocal", "upgrade")
    /\ signed' = signed \ (RequiredFiles \intersect SameFile)
    /\ UNCHANGED <<share, installed, kept, recorded>>

StaleSignatures == RequiredFiles \intersect SameFile \intersect signed

\* pacman -U of all of them at once.  Offline no database can add a dependency.
InstallLocal ==
    /\ StepTo("upgrade", "queryAll")
    /\ StaleSignatures = {}
    /\ LET pool == IF share.variant = "online" THEN Published ELSE {}
           new == WithDependencies(pool, RequiredFiles) \ (Present \ RequiredFiles)
       IN  /\ Legal(new)
           /\ Install(new, [n \in Names |-> IF n \in RequiredFiles THEN "embedded"
                                            ELSE IF n \in new THEN "published" ELSE "none"])
    /\ UNCHANGED <<share, signed, kept, recorded>>

\* (wrong) only the repository's packages are looked for again
QueryRepositoryAgain ==
    /\ StepTo("queryAll", "record")
    /\ Queried(RepositoryPackages)
    /\ UNCHANGED packages

QueryAll ==
    /\ StepTo("queryAll", "record")
    /\ Queried(Requested \union share.required)
    /\ UNCHANGED packages

RecordRequested ==
    /\ StepTo("record", "done")
    /\ recorded' = Requested \union share.required
    /\ UNCHANGED <<share, installed, signed, kept>>

\* Any step may raise, or its command may fail: the caller gives up.
AdapterNext ==
    \/ AddRepository \/ TrustKey \/ VerifyLocalSet
    \/ InstallPublished \/ CopyBundle \/ InstallBundled \/ QueryRepository
    \/ CacheOptional \/ CopyLocal \/ InstallLocal \/ QueryAll \/ RecordRequested

-----------------------------------------------------------------------------

\* Conjunct of the type invariant of the installation run.
PackagesOK ==
    /\ share \in Shares
    /\ step \in {"key", "keyring", "verify", "sync", "bundle", "syncBundle", "querySync",
                 "optional", "copyLocal", "upgrade", "queryAll", "record", "done"}
    /\ installed \in [Names -> Versions]
    /\ {signed, kept, recorded} \subseteq SUBSET Names

\* When the adapter is done every package that was asked for is there or stands
\* replaced by one that provides it, and of an embedded package the embedded
\* version, even where a dependency had pulled in the published one before.  An
\* optional one is not, unless a required name that has no file of its own
\* resolves to it.  An embedded package is installed, or kept for later, at any
\* time only with the checksum the image declares.
FeaturesComplete ==
    LET embedded == {n \in Names : installed[n] = "embedded"}
    IN  /\ (embedded \union kept) \intersect share.damaged = {}
        /\ step = "done" =>
            /\ \A n \in Requested \union share.required : Satisfies(Present, n)
            /\ share.required \intersect share.files \subseteq embedded
            /\ \A f \in embedded \intersect share.optional :
                   \E n \in share.required \ share.files : f \in Continues[n]
            /\ recorded = Requested \union share.required

\* "Resolve and verify ... before pacman contacts the public repository": while
\* one file of the image is missing, damaged or undeclared, or a declared name does
\* not stand for one file, no package of the new system has changed; offline that
\* holds of the bundle's files and of its database as well.
ImageChecksFirst ==
    installed # StartingPackages =>
        /\ share.files = share.listed /\ share.files \intersect share.damaged = {}
        /\ \A n \in share.required \union (IF share.files = {} THEN {} ELSE share.optional) :
               \E f \in share.files : FilesOf(n) = {f}
        /\ \A f \in share.files : \E n \in share.required \union share.optional : f \in FilesOf(n)
        /\ share.variant = "offline" =>
               /\ share.bundle = share.bundled /\ share.bundle \intersect share.spoilt = {}
               /\ share.database
=============================================================================
