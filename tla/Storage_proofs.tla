---------------------------- MODULE Storage_proofs ----------------------------
(***************************************************************************)
(* Proofs about Storage, for any drives, bays, paths and file systems.     *)
(***************************************************************************)
EXTENDS Storage, TLAPS

\* A drive is in one place.
OnePlace ==
  /\ \A h, g \in Holders : slot[h] = slot[g] /\ slot[h] # None => h = g
  /\ \A h \in Holders : slot[h] # None => slot[h] # Floppy

\* PrevFSState of a locked bay is the drive in it, or was taken out of it
\* behind the back of the lock, and so is whatever was put in since.
LockedDrive ==
  \A h \in Holders :
    /\ slot[h] # None \/ locked[h] => h \in built
    /\ locked[h] =>
         /\ PrevFSState[h] \in Drives
         /\ \/ slot[h] = PrevFSState[h]
            \/ PrevFSState[h] \in sneaked /\ slot[h] \in sneaked \cup {None}

\* LockedIsUsable while a load is under way: what has been replayed is there.
Replayed ==
  /\ \A h \in Holders :
       locked[h] /\ slot[h] # None /\ h \notin loading =>
         slot[h] \in drives \cup sneaked \cup refused
  /\ Floppy # None /\ "floppy" \notin loading =>
       Floppy \in drives \cup sneaked \cup refused

UsableInv == OnePlace /\ LockedDrive /\ Replayed

StorageInv == TypeOK /\ DrivesListed /\ UsableInv /\ FreshRun

Device == Drives \cup Tmps \cup {None}

----------------------------------------------------------------------------
(* What the operations of the file system and the kernel do.               *)

LEMMA Forgetting ==
  ASSUME NEW nodes \in [Paths -> [Names -> Device]], NEW p \in Paths,
         Forget(nodes, p)
  PROVE  /\ cache' \in [Paths -> [Names -> Device]]
         /\ \A q \in Paths, n \in Names : cache'[q][n] \in {nodes[q][n], None}
<1>1. PICK kept \in SUBSET Names :
        cache' = [nodes EXCEPT ![p] =
                    [n \in Names |-> IF n \in kept THEN nodes[p][n] ELSE None]]
  BY DEF Forget
<1>2. [n \in Names |-> IF n \in kept THEN nodes[p][n] ELSE None]
        \in [Names -> Device]
  BY DEF Device
<1>3. QED
  BY <1>1, <1>2

LEMMA Adding ==
  ASSUME TypeOK, DrivesListed, NEW d \in Drives, AddDrive(d)
  PROVE  /\ drives' \in SUBSET Drives /\ refused' \in SUBSET Drives
         /\ Devices' \in [Names -> Device]
         /\ hasDev => \A e \in Drives : e \in drives' <=> Devices'[e] = e
         /\ drives \cup refused \cup {d} \subseteq drives' \cup refused'
         /\ \A n \in Names : Devices'[n] \in {Devices[n], d}
<1>1. d \in Names /\ d # None
  BY Distinct DEF Names
<1>2. CASE d \in drives
  BY <1>1, <1>2 DEF AddDrive, listing, TypeOK, DrivesListed, Device
<1>3. CASE d \notin drives /\ hasDev /\ Devices[d] # None
  BY <1>1, <1>3 DEF AddDrive, listing, TypeOK, DrivesListed, Device
<1>4. CASE d \notin drives /\ ~(hasDev /\ Devices[d] # None)
  <2>1. /\ drives' = drives \cup {d} /\ refused' = refused \ {d}
        /\ Devices' = IF hasDev THEN [Devices EXCEPT ![d] = d] ELSE Devices
    BY <1>4 DEF AddDrive
  <2>2. \A e \in Drives : e \in Names
    BY DEF Names
  <2>3. QED
    BY <1>1, <2>1, <2>2 DEF TypeOK, DrivesListed, Device
<1>5. QED
  BY <1>2, <1>3, <1>4

LEMMA Unmounting ==
  ASSUME TypeOK, NEW d \in Drives, UnmountDevice(d)
  PROVE  /\ mounts' \in [Paths -> Drives \cup Tmps \cup {Dev, None}]
         /\ cache' \in [Paths -> [Names -> Device]]
         /\ \A q \in Paths : mounts'[q] \in {mounts[q], None}
         /\ \A q \in Paths, n \in Names : cache'[q][n] \in {cache[q][n], None}
<1>1. /\ cache \in [Paths -> [Names -> Device]]
      /\ mounts \in [Paths -> Drives \cup Tmps \cup {Dev, None}]
  BY DEF TypeOK, Device
<1>2. CASE UNCHANGED files
  BY <1>1, <1>2 DEF files
<1>3. CASE \E p \in Paths : UnmountAt(p)
  <2>1. PICK p \in Paths : UnmountAt(p)
    BY <1>3
  <2>2. mounts' = [mounts EXCEPT ![p] = None] /\ Forget(cache, p)
    BY <2>1 DEF UnmountAt
  <2>3. QED
    BY <1>1, <2>2, Forgetting
<1>4. QED
  BY <1>2, <1>3 DEF UnmountDevice

LEMMA Removing ==
  ASSUME TypeOK, DrivesListed, NEW d \in Drives, RemoveDrive(d)
  PROVE  /\ drives' \in SUBSET Drives
         /\ Devices' \in [Names -> Device]
         /\ hasDev => \A e \in Drives : e \in drives' <=> Devices'[e] = e
         /\ drives \ {d} \subseteq drives'
         /\ \A n \in Names : Devices'[n] \in {Devices[n], None}
         /\ mounts' \in [Paths -> Drives \cup Tmps \cup {Dev, None}]
         /\ cache' \in [Paths -> [Names -> Device]]
         /\ \A q \in Paths : mounts'[q] \in {mounts[q], None}
         /\ \A q \in Paths, n \in Names : cache'[q][n] \in {cache[q][n], None}
<1>1. d \in Names /\ d # None
  BY Distinct DEF Names
<1>2. CASE d \notin drives \/ (hasDev /\ ~Listed(d))
  BY <1>1, <1>2 DEF RemoveDrive, listing, files, TypeOK, DrivesListed, Device
<1>3. CASE d \in drives /\ ~(hasDev /\ ~Listed(d))
  <2>1. /\ drives' = drives \ {d} /\ UnmountDevice(d)
        /\ Devices' = IF hasDev THEN [Devices EXCEPT ![d] = None] ELSE Devices
    BY <1>3 DEF RemoveDrive
  <2>2. \A e \in Drives : e \in Names
    BY DEF Names
  <2>3. QED
    BY <1>1, <2>1, <2>2, Unmounting DEF TypeOK, DrivesListed, Device
<1>4. QED
  BY <1>2, <1>3

LEMMA NewList ==
  ASSUME NEW ds \in SUBSET Drives
  PROVE  /\ Listing(ds) \in [Names -> Device]
         /\ \A d \in Drives : d \in ds <=> Listing(ds)[d] = d
         /\ \A n \in Names : Listing(ds)[n] \in Drives \cup {None}
BY Distinct DEF Listing, Names, Device

LEMMA NewFiles ==
  /\ NoMounts \in [Paths -> Drives \cup Tmps \cup {Dev, None}]
  /\ NoNodes \in [Paths -> [Names -> Device]]
  /\ \A p \in Paths : NoMounts[p] = None
  /\ \A p \in Paths, n \in Names : NoNodes[p][n] = None
BY DEF NoMounts, NoNodes, Device

LEMMA NodeIsDevice ==
  ASSUME TypeOK, NEW p \in Paths, NEW n \in Names
  PROVE  Node(p, n) \in Device
BY DEF Node, TypeOK, Device

LEMMA NodeIsKnown ==
  ASSUME TypeOK, FreshRun, State = "RUNNING", NEW p \in Paths,
         NEW n \in Names, NEW t \in Tmps, Node(p, n) = t
  PROVE  t \in made
<1>1. t # None
  BY Distinct
<1>2. CASE cache[p][n] = t
  BY <1>2 DEF FreshRun, Cached
<1>3. CASE Devices[n] = t
  BY <1>3 DEF FreshRun, Listed
<1>4. QED
  BY <1>1, <1>2, <1>3 DEF Node

----------------------------------------------------------------------------
(* Types, and the program sees the drives of the kernel.                   *)

LEMMA ListingKept ==
  ASSUME TypeOK, DrivesListed, LockedDrive, [Next]_vars
  PROVE  TypeOK' /\ DrivesListed'
<1> USE Distinct
<1> USE DEF bays, listing, files, history, TypeOK, DrivesListed, Device
<1>1. ASSUME Start
      PROVE  TypeOK' /\ DrivesListed'
  BY <1>1, NewList, NewFiles
     DEF Start, NewDevDevice, NewFileSystem
<1>2. ASSUME Stop
      PROVE  TypeOK' /\ DrivesListed'
  BY <1>2, NewFiles
     DEF Stop, NewFileSystem
<1>3. ASSUME Crash
      PROVE  TypeOK' /\ DrivesListed'
  BY <1>3
     DEF Crash
<1>4. ASSUME NEW h \in Holders, Build(h)
      PROVE  TypeOK' /\ DrivesListed'
  BY <1>4
     DEF Build, Idle
<1>5. ASSUME NEW h \in Holders, NEW d \in Drives, Insert(h, d)
      PROVE  TypeOK' /\ DrivesListed'
  BY <1>5
     DEF Insert, InHand, Idle
<1>6. ASSUME NEW h \in Holders, Take(h)
      PROVE  TypeOK' /\ DrivesListed'
  BY <1>6
     DEF Take, Idle
<1>7. ASSUME NEW h \in Holders, Lock(h)
      PROVE  TypeOK' /\ DrivesListed'
  BY <1>7, Adding
     DEF Lock, Idle
<1>8. ASSUME NEW h \in Holders, Unlock(h)
      PROVE  TypeOK' /\ DrivesListed'
  BY <1>8, Removing DEF Unlock, Told, Idle, LockedDrive
<1>9. ASSUME NEW h \in Holders, Dismantle(h)
      PROVE  TypeOK' /\ DrivesListed'
  BY <1>9, Removing DEF Dismantle, Told, Idle, LockedDrive
<1>10. ASSUME NEW d \in Drives, InsertFloppy(d)
      PROVE  TypeOK' /\ DrivesListed'
  BY <1>10, Adding
     DEF InsertFloppy, InHand, Idle
<1>11. ASSUME TakeFloppy
      PROVE  TypeOK' /\ DrivesListed'
  BY <1>11, Removing
     DEF TakeFloppy, Idle
<1>12. ASSUME NEW p \in Paths, initFileSystem(p)
      PROVE  TypeOK' /\ DrivesListed'
  BY <1>12, Forgetting
     DEF initFileSystem, Program, Idle, MountAt
<1>13. ASSUME NEW t \in Tmps, NEW n \in Names, makeFileSystem(t, n)
      PROVE  TypeOK' /\ DrivesListed'
  BY <1>13
     DEF makeFileSystem, Program, Idle
<1>14. ASSUME NEW n \in Names, removeFileSystem(n)
      PROVE  TypeOK' /\ DrivesListed'
  BY <1>14
     DEF removeFileSystem, Program, Idle
<1>15. ASSUME NEW p \in Paths, NEW n \in Names, Look(p, n)
      PROVE  TypeOK' /\ DrivesListed'
  BY <1>15, NodeIsDevice
     DEF Look, Program, Idle
<1>16. ASSUME Sweep
      PROVE  TypeOK' /\ DrivesListed'
  BY <1>16
     DEF Sweep, Program, Idle
<1>17. ASSUME NEW p \in Paths, NEW q \in Paths, NEW n \in Names,
                mount(p, n, q)
      PROVE  TypeOK' /\ DrivesListed'
  BY <1>17, Forgetting, NodeIsDevice
     DEF mount, Program, Idle, MountAt
<1>18. ASSUME NEW p \in Paths, unmount(p)
      PROVE  TypeOK' /\ DrivesListed'
  BY <1>18, Forgetting
     DEF unmount, Program, Idle, UnmountAt
<1>19. ASSUME SaveAndLoad
      PROVE  TypeOK' /\ DrivesListed'
  BY <1>19, NewList, NewFiles
     DEF SaveAndLoad, NewFileSystem
<1>20. ASSUME LoadKernel
      PROVE  TypeOK' /\ DrivesListed'
  <2>1. /\ UNCHANGED <<built, slot, locked, PrevFSState, Floppy, State>>
        /\ UNCHANGED <<drives, mounts, cache, ran, made, refused, sneaked>>
        /\ loading' \in SUBSET (Holders \cup {"kernel", "floppy"})
    BY <1>20 DEF LoadKernel
  <2>2. \/ hasDev' = TRUE /\ Devices' = Listing(drives)
        \/ hasDev' = hasDev /\ Devices' = Devices
    BY <1>20 DEF LoadKernel, NewDevDevice
  <2>3. /\ hasDev' \in BOOLEAN
        /\ Devices' \in [Names -> Device]
        /\ hasDev' => \A d \in Drives : d \in drives <=> Devices'[d] = d
    <3>1. /\ Listing(drives) \in [Names -> Device]
          /\ \A d \in Drives : d \in drives <=> Listing(drives)[d] = d
      BY NewList
    <3>2. CASE hasDev' = TRUE /\ Devices' = Listing(drives)
      BY <3>1, <3>2
    <3>3. CASE hasDev' = hasDev /\ Devices' = Devices
      BY <3>3
    <3>4. QED
      BY <2>2, <3>2, <3>3
  <2>4. QED
    BY <2>1, <2>3
<1>21. ASSUME NEW h \in Holders, LoadHolder(h)
      PROVE  TypeOK' /\ DrivesListed'
  BY <1>21, Adding
     DEF LoadHolder
<1>22. ASSUME LoadFloppy
      PROVE  TypeOK' /\ DrivesListed'
  BY <1>22, Adding
     DEF LoadFloppy
<1>23. CASE UNCHANGED vars
  BY <1>23 DEF vars
<1>24. QED
  BY <1>1, <1>2, <1>3, <1>4, <1>5, <1>6, <1>7, <1>8, <1>9, <1>10, <1>11,
     <1>12, <1>13, <1>14, <1>15, <1>16, <1>17, <1>18, <1>19, <1>20, <1>21,
     <1>22, <1>23
     DEF Next, Player, Kernel, Calls, Load

----------------------------------------------------------------------------
(* What is locked can be used.                                             *)

LEMMA UsableKept ==
  ASSUME TypeOK, DrivesListed, UsableInv, [Next]_vars
  PROVE  UsableInv'
<1> USE Distinct
<1> USE DEF bays, listing, files, history, TypeOK,
            UsableInv, OnePlace, LockedDrive, Replayed
<1>1. ASSUME Start
      PROVE  UsableInv'
  BY <1>1
     DEF Start, NewDevDevice, NewFileSystem
<1>2. ASSUME Stop
      PROVE  UsableInv'
  BY <1>2
     DEF Stop, NewFileSystem
<1>3. ASSUME Crash
      PROVE  UsableInv'
  BY <1>3
     DEF Crash
<1>4. ASSUME NEW h \in Holders, Build(h)
      PROVE  UsableInv'
  BY <1>4
     DEF Build, Idle
<1>5. ASSUME NEW h \in Holders, NEW d \in Drives, Insert(h, d)
      PROVE  UsableInv'
  BY <1>5
     DEF Insert, InHand, Idle
<1>6. ASSUME NEW h \in Holders, Take(h)
      PROVE  UsableInv'
  BY <1>6
     DEF Take, Idle
<1>7. ASSUME NEW h \in Holders, Lock(h)
      PROVE  UsableInv'
  BY <1>7, Adding
     DEF Lock, Idle
<1>8. ASSUME NEW h \in Holders, Unlock(h)
      PROVE  UsableInv'
  BY <1>8, Removing
     DEF Unlock, Told, Idle
<1>9. ASSUME NEW h \in Holders, Dismantle(h)
      PROVE  UsableInv'
  BY <1>9, Removing
     DEF Dismantle, Told, Idle
<1>10. ASSUME NEW d \in Drives, InsertFloppy(d)
      PROVE  UsableInv'
  BY <1>10, Adding
     DEF InsertFloppy, InHand, Idle
<1>11. ASSUME TakeFloppy
      PROVE  UsableInv'
  BY <1>11, Removing
     DEF TakeFloppy, Idle
<1>12. ASSUME NEW p \in Paths, initFileSystem(p)
      PROVE  UsableInv'
  BY <1>12
     DEF initFileSystem, Program, Idle, MountAt
<1>13. ASSUME NEW t \in Tmps, NEW n \in Names, makeFileSystem(t, n)
      PROVE  UsableInv'
  BY <1>13
     DEF makeFileSystem, Program, Idle
<1>14. ASSUME NEW n \in Names, removeFileSystem(n)
      PROVE  UsableInv'
  BY <1>14
     DEF removeFileSystem, Program, Idle
<1>15. ASSUME NEW p \in Paths, NEW n \in Names, Look(p, n)
      PROVE  UsableInv'
  BY <1>15
     DEF Look, Program, Idle
<1>16. ASSUME Sweep
      PROVE  UsableInv'
  BY <1>16
     DEF Sweep, Program, Idle
<1>17. ASSUME NEW p \in Paths, NEW q \in Paths, NEW n \in Names,
                mount(p, n, q)
      PROVE  UsableInv'
  BY <1>17
     DEF mount, Program, Idle, MountAt
<1>18. ASSUME NEW p \in Paths, unmount(p)
      PROVE  UsableInv'
  BY <1>18
     DEF unmount, Program, Idle, UnmountAt
<1>19. ASSUME SaveAndLoad
      PROVE  UsableInv'
  BY <1>19
     DEF SaveAndLoad, NewFileSystem
<1>20. ASSUME LoadKernel
      PROVE  UsableInv'
  BY <1>20
     DEF LoadKernel, NewDevDevice
<1>21. ASSUME NEW h \in Holders, LoadHolder(h)
      PROVE  UsableInv'
  BY <1>21, Adding
     DEF LoadHolder
<1>22. ASSUME LoadFloppy
      PROVE  UsableInv'
  BY <1>22, Adding
     DEF LoadFloppy
<1>23. CASE UNCHANGED vars
  BY <1>23 DEF vars
<1>24. QED
  BY <1>1, <1>2, <1>3, <1>4, <1>5, <1>6, <1>7, <1>8, <1>9, <1>10, <1>11,
     <1>12, <1>13, <1>14, <1>15, <1>16, <1>17, <1>18, <1>19, <1>20, <1>21,
     <1>22, <1>23
     DEF Next, Player, Kernel, Calls, Load

----------------------------------------------------------------------------
(* A run finds nothing of an earlier one.                                  *)

LEMMA FreshKept ==
  ASSUME TypeOK, DrivesListed, LockedDrive, FreshRun, [Next]_vars
  PROVE  FreshRun'
<1> USE Distinct
<1> USE DEF bays, listing, files, history, TypeOK, FreshRun, Listed, Cached,
            Device
<1>1. ASSUME Start
      PROVE  FreshRun'
  BY <1>1, NewList, NewFiles
     DEF Start, NewDevDevice, NewFileSystem
<1>2. ASSUME Stop
      PROVE  FreshRun'
  BY <1>2, NewFiles
     DEF Stop, NewFileSystem
<1>3. ASSUME Crash
      PROVE  FreshRun'
  BY <1>3
     DEF Crash
<1>4. ASSUME NEW h \in Holders, Build(h)
      PROVE  FreshRun'
  BY <1>4
     DEF Build, Idle
<1>5. ASSUME NEW h \in Holders, NEW d \in Drives, Insert(h, d)
      PROVE  FreshRun'
  BY <1>5
     DEF Insert, InHand, Idle
<1>6. ASSUME NEW h \in Holders, Take(h)
      PROVE  FreshRun'
  BY <1>6
     DEF Take, Idle
<1>7. ASSUME NEW h \in Holders, Lock(h)
      PROVE  FreshRun'
  BY <1>7, Adding
     DEF Lock, Idle
<1>8. ASSUME NEW h \in Holders, Unlock(h)
      PROVE  FreshRun'
  BY <1>8, Removing DEF Unlock, Told, Idle, LockedDrive
<1>9. ASSUME NEW h \in Holders, Dismantle(h)
      PROVE  FreshRun'
  BY <1>9, Removing DEF Dismantle, Told, Idle, LockedDrive
<1>10. ASSUME NEW d \in Drives, InsertFloppy(d)
      PROVE  FreshRun'
  BY <1>10, Adding
     DEF InsertFloppy, InHand, Idle
<1>11. ASSUME TakeFloppy
      PROVE  FreshRun'
  BY <1>11, Removing
     DEF TakeFloppy, Idle
<1>12. ASSUME NEW p \in Paths, initFileSystem(p)
      PROVE  FreshRun'
  BY <1>12, Forgetting
     DEF initFileSystem, Program, Idle, MountAt
<1>13. ASSUME NEW t \in Tmps, NEW n \in Names, makeFileSystem(t, n)
      PROVE  FreshRun'
  BY <1>13
     DEF makeFileSystem, Program, Idle
<1>14. ASSUME NEW n \in Names, removeFileSystem(n)
      PROVE  FreshRun'
  BY <1>14
     DEF removeFileSystem, Program, Idle
<1>15. ASSUME NEW p \in Paths, NEW n \in Names, Look(p, n)
      PROVE  FreshRun'
  <2>1. State = "RUNNING" /\ UNCHANGED <<Devices, mounts, ran, made>>
    BY <1>15 DEF Look, Program, Idle
  <2>2. cache' = [cache EXCEPT ![p][n] = Node(p, n)]
    BY <1>15 DEF Look
  <2>3. \A q \in Paths, m \in Names : cache'[q][m] \in {cache[q][m], Node(p, n)}
    BY <2>2
  <2>4. \A t \in Tmps : Node(p, n) = t => t \in made
    BY <2>1, NodeIsKnown
  <2>5. QED
    BY <2>1, <2>3, <2>4
<1>16. ASSUME Sweep
      PROVE  FreshRun'
  BY <1>16
     DEF Sweep, Program, Idle
<1>17. ASSUME NEW p \in Paths, NEW q \in Paths, NEW n \in Names,
             mount(p, n, q)
      PROVE  FreshRun'
  <2> DEFINE nodes == [cache EXCEPT ![p][n] = Node(p, n)]
  <2>1. /\ State = "RUNNING" /\ UNCHANGED <<Devices, made>>
        /\ mounts' = [mounts EXCEPT ![q] = Node(p, n)]
        /\ ran' = ran \cup {q} /\ Forget(nodes, q)
    BY <1>17 DEF mount, Program, Idle, MountAt
  <2>2. /\ nodes \in [Paths -> [Names -> Device]]
        /\ \A r \in Paths, m \in Names :
             nodes[r][m] \in {cache[r][m], Node(p, n)}
    BY NodeIsDevice
  <2> HIDE DEF nodes
  <2>3. \A r \in Paths, m \in Names : cache'[r][m] \in {nodes[r][m], None}
    BY <2>1, <2>2, Forgetting
  <2>4. \A t \in Tmps : Node(p, n) = t => t \in made
    BY <2>1, NodeIsKnown
  <2>5. \A r \in Paths : mounts'[r] # None => r \in ran'
    BY <2>1
  <2>6. \A t \in Tmps : Listed(t)' \/ Cached(t)' => t \in made'
    <3> SUFFICES ASSUME NEW t \in Tmps, Listed(t)' \/ Cached(t)'
                 PROVE  t \in made
      BY <2>1
    <3>1. CASE Listed(t)'
      BY <2>1, <3>1
    <3>2. CASE Cached(t)'
      <4>1. PICK r \in Paths, m \in Names : cache'[r][m] = t
        BY <3>2
      <4>2. t # None
        BY DEF FreshRun
      <4>3. cache[r][m] = t \/ Node(p, n) = t
        BY <4>1, <4>2, <2>2, <2>3
      <4>4. QED
        BY <4>3, <2>1, <2>4
    <3>3. QED
      BY <3>1, <3>2
  <2>7. QED
    BY <2>5, <2>6
<1>18. ASSUME NEW p \in Paths, unmount(p)
      PROVE  FreshRun'
  BY <1>18, Forgetting
     DEF unmount, Program, Idle, UnmountAt
<1>19. ASSUME SaveAndLoad
      PROVE  FreshRun'
  BY <1>19, NewList, NewFiles
     DEF SaveAndLoad, NewFileSystem
<1>20. ASSUME LoadKernel
      PROVE  FreshRun'
  BY <1>20, NewList
     DEF LoadKernel, NewDevDevice
<1>21. ASSUME NEW h \in Holders, LoadHolder(h)
      PROVE  FreshRun'
  BY <1>21, Adding
     DEF LoadHolder
<1>22. ASSUME LoadFloppy
      PROVE  FreshRun'
  BY <1>22, Adding
     DEF LoadFloppy
<1>23. CASE UNCHANGED vars
  BY <1>23 DEF vars
<1>24. QED
  BY <1>1, <1>2, <1>3, <1>4, <1>5, <1>6, <1>7, <1>8, <1>9, <1>10, <1>11,
     <1>12, <1>13, <1>14, <1>15, <1>16, <1>17, <1>18, <1>19, <1>20, <1>21,
     <1>22, <1>23
     DEF Next, Player, Kernel, Calls, Load

----------------------------------------------------------------------------
(* The theorems.                                                           *)

LEMMA StorageInductive == Spec => []StorageInv
<1>1. Init => StorageInv
  <2> SUFFICES ASSUME Init PROVE StorageInv
    OBVIOUS
  <2>1. TypeOK /\ DrivesListed
    BY NewList, NewFiles DEF Init, TypeOK, DrivesListed, Device
  <2>2. UsableInv
    BY DEF Init, UsableInv, OnePlace, LockedDrive, Replayed
  <2>3. FreshRun
    BY DEF Init, FreshRun
  <2>4. QED
    BY <2>1, <2>2, <2>3 DEF StorageInv
<1>2. StorageInv /\ [Next]_vars => StorageInv'
  BY ListingKept, UsableKept, FreshKept DEF StorageInv, UsableInv
<1>3. QED
  BY <1>1, <1>2, PTL DEF Spec

\* The state always has its types: no drive, device or mount is out of place.
THEOREM TypeCorrect == Spec => []TypeOK
<1>1. StorageInv => TypeOK
  BY DEF StorageInv
<1>2. QED
  BY <1>1, StorageInductive, PTL

\* DevDevice lists the drives the kernel holds (FicsItKernel.cpp:167-195).
THEOREM ListsTheDrives == Spec => []DrivesListed
<1>1. StorageInv => DrivesListed
  BY DEF StorageInv
<1>2. QED
  BY <1>1, StorageInductive, PTL

\* A start leaves nothing of an earlier run (FicsItKernel.cpp:230-267).
THEOREM StartsFresh == Spec => []FreshRun
<1>1. StorageInv => FreshRun
  BY DEF StorageInv
<1>2. QED
  BY <1>1, StorageInductive, PTL

\* Locked drives and floppies can be used (FINComputerDriveHolder.cpp:46-57).
THEOREM LockedUsable == Spec => []LockedIsUsable
<1>1. StorageInv => LockedIsUsable
  <2> SUFFICES ASSUME StorageInv, loading = {}, NEW d \in Drives, d \in InUse,
                      d \notin sneaked \cup refused
               PROVE  d \in drives
    BY DEF LockedIsUsable
  <2>1. d # None
    BY Distinct
  <2>2. built \subseteq Holders /\ Replayed
    BY DEF StorageInv, TypeOK, UsableInv
  <2>3. CASE d = Floppy
    BY <2>1, <2>2, <2>3 DEF Replayed
  <2>4. CASE \E h \in built : locked[h] /\ d = slot[h]
    BY <2>1, <2>2, <2>4 DEF Replayed
  <2>5. QED
    BY <2>3, <2>4 DEF InUse
<1>2. QED
  BY <1>1, StorageInductive, PTL
=============================================================================
