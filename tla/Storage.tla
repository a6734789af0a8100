------------------------------ MODULE Storage ------------------------------
(* The drives of one computer: the drive bays, which lock a drive and tell *)
(* the case, the kernel's map of drives with the DevDevice that lists them *)
(* for the program, and the file system with its mounts and its cache.     *)
(*                                                                          *)
(* The file system calls of a program hold the game thread (FLuaSyncCall)   *)
(* and answer only while the kernel runs, so every call is one step.  Paths *)
(* are flat: none lies below another, and a device node lies one level      *)
(* below the path the DevDevice is mounted at.  Files are left out.         *)
EXTENDS Naturals

CONSTANTS Drives,    \* drives, each with its device and its own ID as name
          Holders,   \* drive bays
          Paths,     \* mount points
          Tmps,      \* temporary file systems the program makes
          TmpNames,  \* names it gives them, beside the IDs of the drives
          Dev,       \* the DevDevice, where it is mounted
          None

ASSUME Distinct ==
  /\ None \notin Drives \cup Tmps \cup {Dev}
  /\ Dev \notin Drives \cup Tmps
  /\ Drives \cap Tmps = {} /\ Drives \cap TmpNames = {}
  /\ "kernel" \notin Holders /\ "floppy" \notin Holders

VARIABLES
  built,        \* the bays in the case (DriveHolders, OnLockedUpdate bound)
  slot,         \* DriveInventory: the drive in each bay
  locked,       \* bLocked
  PrevFSState,  \* the drive at the last change of bLocked
  Floppy,       \* the drive in the case's own slot
  State,        \* of the kernel; a reset is SHUTOFF until the next tick
  drives,       \* Kernel->Drives, each mapped to its own device
  hasDev,       \* DevDevice.isValid()
  Devices,      \* the devices DevDevice lists, by name
  mounts,       \* FileSystem.mounts, weak references
  cache,        \* FileSystem.cache: device nodes, by path and name, strong
  loading,      \* what a load has still to replay
  ran, made,    \* history: paths mounted and file systems made in this run
  refused,      \* history: drives DevDevice had no place for
  sneaked       \* history: drives moved in or out of a locked bay

bays    == <<built, slot, locked, PrevFSState>>
files   == <<mounts, cache>>
listing == <<drives, Devices>>
history == <<ran, made, refused, sneaked>>
vars == <<bays, Floppy, State, listing, hasDev, files, loading, history>>

Names == Drives \cup TmpNames
NoMounts == [p \in Paths |-> None]
NoNodes == [p \in Paths |-> [n \in Names |-> None]]
Listing(ds) == [n \in Names |-> IF n \in ds THEN n ELSE None]

TypeOK ==
  /\ built \subseteq Holders
  /\ slot \in [Holders -> Drives \cup {None}]
  /\ locked \in [Holders -> BOOLEAN]
  /\ PrevFSState \in [Holders -> Drives \cup {None}]
  /\ Floppy \in Drives \cup {None}
  /\ State \in {"SHUTOFF", "RUNNING", "CRASHED"}
  /\ drives \in SUBSET Drives
  /\ hasDev \in BOOLEAN
  /\ Devices \in [Names -> Drives \cup Tmps \cup {None}]
  /\ mounts \in [Paths -> Drives \cup Tmps \cup {Dev, None}]
  /\ cache \in [Paths -> [Names -> Drives \cup Tmps \cup {None}]]
  /\ loading \in SUBSET (Holders \cup {"kernel", "floppy"})
  /\ ran \in SUBSET Paths
  /\ made \in SUBSET Tmps
  /\ refused \in SUBSET Drives
  /\ sneaked \in SUBSET Drives

Init ==
  /\ built = {} /\ slot = [h \in Holders |-> None]
  /\ locked = [h \in Holders |-> FALSE]
  /\ PrevFSState = [h \in Holders |-> None]
  /\ Floppy = None /\ State = "SHUTOFF"
  /\ drives = {} /\ hasDev = FALSE /\ Devices = Listing({})
  /\ mounts = NoMounts /\ cache = NoNodes
  /\ loading = {}
  /\ ran = {} /\ made = {} /\ refused = {} /\ sneaked = {}

----------------------------------------------------------------------------
(* File system                                                              *)

Listed(d) == \E n \in Names : Devices[n] = d
Cached(d) == \E p \in Paths, n \in Names : cache[p][n] = d

\* Mounts are weak.  The item keeps the device of a drive alive, a temporary
\* file system lives while it is listed or a cached node holds it.
Lives(d) == d \in Drives \cup {Dev} \/ Listed(d) \/ Cached(d)

\* A device that no mount, no list and no node knows any more.
Gone(t) == ~Listed(t) /\ ~Cached(t) /\ \A p \in Paths : mounts[p] # t

DevMounted == \E p \in Paths : mounts[p] = Dev

\* onMounted and onUnmounted forget the nodes below a path.  Erasing the first
\* node of the map steps the iterator back past its beginning: what is left
\* of the others is up to the build.
Forget(nodes, p) ==
  LET below == {n \in Names : nodes[p][n] # None}
  IN  \E kept \in SUBSET below :
        /\ below # {} => kept # below
        /\ cache' = [nodes EXCEPT ![p] =
                       [n \in Names |-> IF n \in kept THEN nodes[p][n]
                                        ELSE None]]

MountAt(d, p) ==
  /\ mounts[p] # d
  /\ mounts' = [mounts EXCEPT ![p] = d]
  /\ ran' = ran \cup {p}

UnmountAt(p) ==
  /\ mounts' = [mounts EXCEPT ![p] = None]
  /\ Forget(cache, p)

\* unmount(device): the first mount point found is unmounted, no other.
UnmountDevice(d) ==
  LET at == {p \in Paths : mounts[p] = d}
  IN  IF at = {} THEN UNCHANGED files ELSE \E p \in at : UnmountAt(p)

----------------------------------------------------------------------------
(* Kernel                                                                   *)

\* AddDrive with its look into Drives left out.
AddDrive_Again(d) ==
  IF hasDev /\ Devices[d] # None
  THEN /\ drives' = drives \ {d}
       /\ refused' = refused \cup {d}
       /\ UNCHANGED Devices
  ELSE /\ drives' = drives \cup {d}
       /\ refused' = refused \ {d}
       /\ Devices' = IF hasDev THEN [Devices EXCEPT ![d] = d] ELSE Devices

\* A drive is not taken when DevDevice has a device of its name already.
AddDrive(d) ==
  CASE d \in drives ->
         UNCHANGED <<listing, refused>>
    [] d \notin drives /\ hasDev /\ Devices[d] # None ->
         refused' = refused \cup {d} /\ UNCHANGED listing
    [] OTHER ->
         /\ drives' = drives \cup {d}
         /\ refused' = refused \ {d}
         /\ Devices' = IF hasDev THEN [Devices EXCEPT ![d] = d] ELSE Devices

RemoveDrive(d) ==
  IF d \notin drives \/ (hasDev /\ ~Listed(d))
  THEN UNCHANGED <<listing, files>>
  ELSE /\ drives' = drives \ {d}
       /\ Devices' = IF hasDev THEN [Devices EXCEPT ![d] = None] ELSE Devices
       /\ UnmountDevice(d)

NewDevDevice == hasDev' = TRUE /\ Devices' = Listing(drives)
NewFileSystem == mounts' = NoMounts /\ cache' = NoNodes

\* Start that relies on Stop having cleared the file system.
Start_StopCleared ==
  /\ State # "RUNNING" /\ loading = {}
  /\ State' = "RUNNING"
  /\ NewDevDevice
  /\ ran' = {} /\ made' = {}
  /\ UNCHANGED <<bays, Floppy, drives, files, loading, refused, sneaked>>

\* Toggle, startComputer and the tick after a reset; a crashed computer is
\* started without having been stopped.
Start ==
  /\ State # "RUNNING" /\ loading = {}
  /\ State' = "RUNNING"
  /\ NewFileSystem /\ NewDevDevice
  /\ ran' = {} /\ made' = {}
  /\ UNCHANGED <<bays, Floppy, drives, loading, refused, sneaked>>

\* Stop and Reset, of a crashed computer too: the file system goes, DevDevice
\* stays until the next start.
Stop ==
  /\ State # "SHUTOFF" /\ loading = {}
  /\ State' = "SHUTOFF"
  /\ NewFileSystem
  /\ UNCHANGED <<bays, Floppy, listing, hasDev, loading, history>>

\* Crash leaves the file system as it is.
Crash ==
  /\ State = "RUNNING" /\ loading = {}
  /\ State' = "CRASHED"
  /\ UNCHANGED <<bays, Floppy, listing, hasDev, files, loading, history>>

----------------------------------------------------------------------------
(* Drive bays and the case's floppy                                         *)

InHand(d) == d # Floppy /\ \A h \in Holders : slot[h] # d

Idle == loading = {} /\ UNCHANGED <<State, hasDev, loading>>

Build(h) ==
  /\ Idle /\ h \notin built
  /\ built' = built \cup {h}
  /\ UNCHANGED <<slot, locked, PrevFSState, Floppy, listing, files, history>>

\* OnDriveInventoryUpdate unlocks for an invalid item class only, which no
\* change of the inventory carries; the case does not listen to OnDriveUpdate.
Insert(h, d) ==
  /\ Idle /\ h \in built /\ slot[h] = None /\ InHand(d)
  /\ slot' = [slot EXCEPT ![h] = d]
  /\ sneaked' = IF locked[h] THEN sneaked \cup {d} ELSE sneaked
  /\ UNCHANGED <<built, locked, PrevFSState, Floppy, listing, files,
                 ran, made, refused>>

Take(h) ==
  /\ Idle /\ slot[h] # None
  /\ slot' = [slot EXCEPT ![h] = None]
  /\ sneaked' = IF locked[h] THEN sneaked \cup {slot[h]} ELSE sneaked
  /\ UNCHANGED <<built, locked, PrevFSState, Floppy, listing, files,
                 ran, made, refused>>

\* SetLocked(true) needs a drive; OnDriveUpdate of the case adds it.
Lock(h) ==
  /\ Idle /\ h \in built /\ ~locked[h] /\ slot[h] # None
  /\ locked' = [locked EXCEPT ![h] = TRUE]
  /\ PrevFSState' = [PrevFSState EXCEPT ![h] = slot[h]]
  /\ AddDrive(slot[h])
  /\ UNCHANGED <<built, slot, Floppy, files, ran, made, sneaked>>

\* SetLocked(false) tells of the drive that is there, else of the last one.
Told(h) == IF slot[h] # None THEN slot[h] ELSE PrevFSState[h]

Unlock(h) ==
  /\ Idle /\ h \in built /\ locked[h]
  /\ locked' = [locked EXCEPT ![h] = FALSE]
  /\ PrevFSState' = [PrevFSState EXCEPT ![h] = slot[h]]
  /\ RemoveDrive(Told(h))
  /\ UNCHANGED <<built, slot, Floppy, history>>

\* EndPlay unlocks, then the panel has the case take the drive out: with a
\* drive in the bay the second call finds nothing left to do.
Dismantle(h) ==
  /\ Idle /\ h \in built
  /\ built' = built \ {h}
  /\ slot' = [slot EXCEPT ![h] = None]
  /\ locked' = [locked EXCEPT ![h] = FALSE]
  /\ PrevFSState' = [PrevFSState EXCEPT ![h] = None]
  /\ IF locked[h] \/ slot[h] # None THEN RemoveDrive(Told(h))
     ELSE UNCHANGED <<listing, files>>
  /\ UNCHANGED <<Floppy, history>>

InsertFloppy(d) ==
  /\ Idle /\ Floppy = None /\ InHand(d)
  /\ Floppy' = d
  /\ AddDrive(d)
  /\ UNCHANGED <<bays, files, ran, made, sneaked>>

TakeFloppy ==
  /\ Idle /\ Floppy # None
  /\ Floppy' = None
  /\ RemoveDrive(Floppy)
  /\ UNCHANGED <<bays, history>>

----------------------------------------------------------------------------
(* The program                                                              *)

Program == State = "RUNNING" /\ Idle /\ UNCHANGED <<bays, Floppy, drives>>

initFileSystem(p) ==
  /\ Program /\ ~DevMounted
  /\ MountAt(Dev, p) /\ Forget(cache, p)
  /\ UNCHANGED <<Devices, made, refused, sneaked>>

\* Both reach DevDevice through its mount.
makeFileSystem(t, n) ==
  /\ Program /\ DevMounted /\ Gone(t) /\ Devices[n] = None
  /\ Devices' = [Devices EXCEPT ![n] = t]
  /\ made' = made \cup {t}
  /\ UNCHANGED <<files, ran, refused, sneaked>>

removeFileSystem(n) ==
  /\ Program /\ DevMounted /\ Devices[n] \in Tmps
  /\ Devices' = [Devices EXCEPT ![n] = None]
  /\ UNCHANGED <<files, history>>

\* get: a cached node is returned whether or not its device is still listed.
Node(p, n) ==
  IF cache[p][n] # None THEN cache[p][n]
  ELSE IF mounts[p] = Dev THEN Devices[n] ELSE None

\* exists, isDir and the like cache the node they find.
Look(p, n) ==
  /\ Program /\ Node(p, n) # None
  /\ cache' = [cache EXCEPT ![p][n] = Node(p, n)]
  /\ UNCHANGED <<Devices, mounts, history>>

\* getDevice drops mounts whose device is gone; how many it drops at once is
\* up to the build, the iterator being stepped back as in Forget.
Sweep ==
  /\ Program
  /\ \E dead \in SUBSET {p \in Paths : mounts[p] # None /\ ~Lives(mounts[p])} :
       /\ dead # {}
       /\ mounts' = [p \in Paths |-> IF p \in dead THEN None ELSE mounts[p]]
  /\ UNCHANGED <<Devices, cache, history>>

\* The node is found, and so cached, before the nodes below q are forgotten.
mount(p, n, q) ==
  /\ Program /\ Node(p, n) # None
  /\ MountAt(Node(p, n), q)
  /\ Forget([cache EXCEPT ![p][n] = Node(p, n)], q)
  /\ UNCHANGED <<Devices, made, refused, sneaked>>

\* DevDevice is not unmounted, unless its path is spelled another way: only then
\* is the path made absolute before it is looked up.  (Unmounting a mount whose
\* device is gone uses a null reference and is left out.)
unmount(p) ==
  /\ Program /\ mounts[p] # None /\ Lives(mounts[p])
  /\ UnmountAt(p)
  /\ UNCHANGED <<Devices, history>>

----------------------------------------------------------------------------
(* A save, the end of the session and a load                                *)

\* The bays, the floppy and the kernel's state are saved; DevDeviceMountPoint
\* is saved but never set, so PostLoad restores no mount and no device.
SaveAndLoad ==
  /\ loading = {}
  /\ drives' = {} /\ hasDev' = FALSE /\ Devices' = Listing({})
  /\ NewFileSystem
  /\ ran' = {} /\ made' = {} /\ refused' = {}
  /\ loading' = built \cup {"kernel", "floppy"}
  /\ UNCHANGED <<bays, Floppy, State, sneaked>>

LoadKernel ==
  /\ "kernel" \in loading
  /\ loading' = loading \ {"kernel"}
  /\ IF State \in {"CRASHED", "RUNNING"} THEN NewDevDevice
     ELSE UNCHANGED <<hasDev, Devices>>
  /\ UNCHANGED <<bays, Floppy, State, drives, files, history>>

\* AddModules and AddDrive of the case when it did nothing but listen.
LoadHolder_Listens(h) ==
  /\ h \in loading \cap Holders
  /\ loading' = loading \ {h}
  /\ UNCHANGED <<bays, Floppy, State, listing, hasDev, files, history>>

\* AddModules: a drive is added whether its bay is locked or not.
LoadHolder(h) ==
  /\ h \in loading \cap Holders
  /\ loading' = loading \ {h}
  /\ IF slot[h] # None THEN AddDrive(slot[h])
     ELSE UNCHANGED <<listing, refused>>
  /\ UNCHANGED <<bays, Floppy, State, hasDev, files, ran, made, sneaked>>

LoadFloppy ==
  /\ "floppy" \in loading
  /\ loading' = loading \ {"floppy"}
  /\ IF Floppy # None THEN AddDrive(Floppy) ELSE UNCHANGED <<listing, refused>>
  /\ UNCHANGED <<bays, Floppy, State, hasDev, files, ran, made, sneaked>>

----------------------------------------------------------------------------
Player ==
  \/ \E h \in Holders : Build(h) \/ Take(h) \/ Lock(h) \/ Unlock(h)
                          \/ Dismantle(h)
  \/ \E h \in Holders, d \in Drives : Insert(h, d)
  \/ \E d \in Drives : InsertFloppy(d)
  \/ TakeFloppy

Kernel == Start \/ Stop \/ Crash

Calls ==
  \/ \E p \in Paths : initFileSystem(p) \/ unmount(p)
  \/ \E t \in Tmps, n \in Names : makeFileSystem(t, n)
  \/ \E n \in Names : removeFileSystem(n)
  \/ \E p \in Paths, n \in Names : Look(p, n)
  \/ \E p, q \in Paths, n \in Names : mount(p, n, q)
  \/ Sweep

Load ==
  \/ SaveAndLoad \/ LoadKernel \/ LoadFloppy
  \/ \E h \in Holders : LoadHolder(h)

Next == Player \/ Kernel \/ Calls \/ Load

Spec == Init /\ [][Next]_vars

----------------------------------------------------------------------------
(* Properties                                                               *)

\* What the program sees of the drives is what the kernel holds, whatever
\* names the program gave to its own file systems, in whatever order bays,
\* starts, stops, crashes and loads come: RemoveDrive gives up on a drive
\* that DevDevice does not list (FicsItKernel.cpp:186), so a difference
\* would keep a drive that was taken out for ever.
DrivesListed ==
  hasDev => \A d \in Drives : d \in drives <=> Devices[d] = d

\* A started program finds nothing of an earlier run: no mount, no temporary
\* file system, listed, mounted or kept alive by a cached node, although a
\* crashed computer is started without being stopped, and DevDevice outlives
\* a stop.
FreshRun ==
  State = "RUNNING" =>
    /\ \A p \in Paths : mounts[p] # None => p \in ran
    /\ \A t \in Tmps : Listed(t) \/ Cached(t) => t \in made

\* The drives in locked bays and the floppy.
InUse == {slot[h] : h \in {b \in built : locked[b]}} \cup {Floppy}

\* A locked drive or floppy can be used, and still after a crash, a reset or a
\* load, unless DevDevice had no place for it, or the drive went in or out of a
\* bay that was locked (SetLocked speaks of the drive that is there, or of
\* PrevFSState, and either may be another drive than the one it locked).
LockedIsUsable ==
  loading = {} => (InUse \cap Drives) \ (sneaked \cup refused) \subseteq drives

\* "Unmounts the given device from the filesystem" (FileSystem.h:23): a drive
\* that leaves the kernel, other than by a load, is mounted nowhere.
TakenIsUnmounted ==
  [][\A d \in Drives : d \in drives \ drives' /\ loading' = {} =>
       \A p \in Paths : mounts'[p] # d]_vars
============================================================================
