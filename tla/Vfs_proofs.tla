----------------------------- MODULE Vfs_proofs -----------------------------
(***************************************************************************)
(* The mount array and the pointers in it, for any number of mount points  *)
(* and any paths: types, pointers to written strings, and, as long as the  *)
(* last mount is unmounted first, the mount table of MountTable.           *)
(***************************************************************************)
EXTENDS Vfs, FiniteSetTheorems, SequenceTheorems, TLAPS

(* What every entry keeps: its pointer is at or above its place, and every *)
(* buffer up to the one it points to has held a string.  The buffers below *)
(* matter because unmount_fs moves them under the pointers.                *)
EntryOK(i) ==
  /\ mount_points[i] \in [path : Indices, ops : Filesystems]
  /\ mount_points[i].path >= i
  /\ \A k \in 0 .. mount_points[i].path : path_buffers[k] # NULL

VfsIInv ==
  /\ VfsTypeOK
  /\ \A i \in Mounts : EntryOK(i)

(* As long as callers unmount in the reverse order of mounting, entries    *)
(* point to the buffers of their own places, and those hold paths that     *)
(* differ.                                                                 *)
LifoOK ==
  lifo =>
    \A i \in Mounts :
      /\ mount_points[i].path = i
      /\ \A j \in Mounts : path_buffers[i] = path_buffers[j] => i = j

-----------------------------------------------------------------------------
(* The empty table of init_vfs satisfies the invariant.                    *)
LEMMA VfsInitOK == Init => VfsIInv
<1> SUFFICES ASSUME Init PROVE VfsIInv
  OBVIOUS
<1>1. Mounts = {}
  BY DEF Init, Mounts
<1>2. <<>> \in Paths
  <2>1. <<>> \in [1 .. 0 -> Names]
    OBVIOUS
  <2>2. QED
    BY <2>1, MaxDepthAssumption DEF Paths
<1>3. VfsTypeOK
  BY <1>2, MaxMountsAssumption DEF Init, VfsTypeOK, MountPoints, Indices
<1>4. QED
  BY <1>1, <1>3 DEF VfsIInv

(* With a table that is not empty, every buffer below num_mount_points has *)
(* held a string: the last entry's pointer is at or above it.              *)
LEMMA BuffersWritten ==
  ASSUME VfsIInv
  PROVE  \A k \in Mounts : path_buffers[k] # NULL
<1> SUFFICES ASSUME NEW k \in Mounts PROVE path_buffers[k] # NULL
  OBVIOUS
<1> DEFINE last == num_mount_points - 1
<1>1. last \in Mounts /\ k <= last /\ k \in Nat
  BY DEF VfsIInv, VfsTypeOK, Mounts
<1>2. EntryOK(last)
  BY <1>1 DEF VfsIInv
<1>3. mount_points[last].path \in Int
  BY <1>2, MaxMountsAssumption DEF EntryOK, Indices
<1>4. k \in 0 .. mount_points[last].path
  BY <1>1, <1>2, <1>3 DEF EntryOK, Mounts
<1>5. QED
  BY <1>2, <1>4 DEF EntryOK

(* mount_fs: the new entry points to its own buffer, the first one not     *)
(* counted yet, and those below have held strings.                         *)
LEMMA MountFsOK ==
  ASSUME VfsIInv, NEW p \in Paths, NEW f \in Filesystems, MountFs(p, f)
  PROVE  VfsIInv'
<1> DEFINE n == num_mount_points
<1> USE MaxMountsAssumption
<1>1. n \in Indices /\ n \in Nat /\ num_mount_points' = n + 1
  BY DEF VfsIInv, VfsTypeOK, MountFs, AddEntry, Indices
<1>2. /\ path_buffers' = [path_buffers EXCEPT ![n] = p]
      /\ mount_points' = [mount_points EXCEPT ![n] = [path |-> n, ops |-> f]]
      /\ UNCHANGED <<reached, lifo>>
  BY DEF MountFs, AddEntry
<1>3. VfsTypeOK'
  BY <1>1, <1>2 DEF VfsIInv, VfsTypeOK, MountPoints, Indices
<1>4. ASSUME NEW i \in Mounts' PROVE EntryOK(i)'
  <2>1. \A k \in Indices : path_buffers[k] # NULL => path_buffers'[k] # NULL
    BY <1>1, <1>2, VfsNullAssumption DEF VfsIInv, VfsTypeOK
  <2>2. CASE i = n
    <3>1. mount_points'[i] = [path |-> n, ops |-> f]
      BY <1>1, <1>2, <2>2 DEF VfsIInv, VfsTypeOK
    <3>2. \A k \in 0 .. n : path_buffers'[k] # NULL
      <4>1. path_buffers'[n] = p /\ p # NULL
        BY <1>1, <1>2, VfsNullAssumption DEF VfsIInv, VfsTypeOK
      <4>2. \A k \in Mounts : path_buffers'[k] # NULL
        BY <1>1, <2>1, BuffersWritten DEF Mounts, Indices
      <4>3. QED
        BY <1>1, <4>1, <4>2 DEF Mounts
    <3>3. QED
      BY <1>1, <2>2, <3>1, <3>2 DEF EntryOK
  <2>3. CASE i # n
    <3>1. i \in Mounts
      BY <1>1, <2>3 DEF Mounts
    <3>2. mount_points'[i] = mount_points[i]
      BY <1>1, <1>2, <2>3 DEF VfsIInv, VfsTypeOK
    <3>3. EntryOK(i)
      BY <3>1 DEF VfsIInv
    <3>4. 0 .. mount_points[i].path \subseteq Indices
      BY <3>3 DEF EntryOK, Indices
    <3>5. QED
      BY <2>1, <3>2, <3>3, <3>4 DEF EntryOK
  <2>4. QED
    BY <2>2, <2>3
<1>5. QED
  BY <1>3, <1>4 DEF VfsIInv

(* unmount_fs: a moved entry keeps its pointer and comes to a lower place; *)
(* a buffer that is moved over gets a string from a counted buffer.        *)
LEMMA UnmountFsOK ==
  ASSUME VfsIInv, NEW p \in Paths, UnmountFs(p)
  PROVE  VfsIInv'
<1> USE MaxMountsAssumption
<1> DEFINE n == num_mount_points
<1>1. PICK e \in Mounts :
        /\ mount_points' = [j \in Indices |->
             IF j \in e .. n - 2 THEN mount_points[j + 1] ELSE mount_points[j]]
        /\ path_buffers' = [j \in Indices |->
             IF j \in e .. n - 2 THEN path_buffers[j + 1] ELSE path_buffers[j]]
        /\ num_mount_points' = n - 1
        /\ lifo' = (lifo /\ e = n - 1)
        /\ UNCHANGED reached
  BY DEF UnmountFs
<1>2. n \in 1 .. MaxMounts /\ e \in Nat /\ Mounts' = 0 .. n - 2
  BY <1>1 DEF VfsIInv, VfsTypeOK, Mounts
<1>3. \A j \in e .. n - 2 : j + 1 \in Indices /\ j + 1 \in Mounts
  BY <1>2 DEF Indices, Mounts
<1>4. VfsTypeOK'
  <2>1. mount_points' \in [Indices -> MountPoints]
    BY <1>1, <1>3 DEF VfsIInv, VfsTypeOK
  <2>2. path_buffers' \in [Indices -> Paths \union {NULL}]
    BY <1>1, <1>3 DEF VfsIInv, VfsTypeOK
  <2>3. QED
    BY <1>1, <1>2, <2>1, <2>2 DEF VfsIInv, VfsTypeOK
<1>5. \A k \in Indices : path_buffers[k] # NULL => path_buffers'[k] # NULL
  <2> SUFFICES ASSUME NEW k \in Indices, path_buffers[k] # NULL
               PROVE path_buffers'[k] # NULL
    OBVIOUS
  <2>1. \/ path_buffers'[k] = path_buffers[k]
        \/ k \in e .. n - 2 /\ path_buffers'[k] = path_buffers[k + 1]
    BY <1>1
  <2>2. QED
    BY <2>1, <1>3, BuffersWritten
<1>6. ASSUME NEW i \in Mounts' PROVE EntryOK(i)'
  <2>1. PICK s \in Mounts : s >= i /\ mount_points'[i] = mount_points[s]
    <3>1. i \in Indices /\ i \in Mounts
      <4>1. i \in 0 .. n - 2
        BY <1>2
      <4>2. QED
        BY <1>2, <4>1 DEF Indices, Mounts
    <3>2. CASE i \in e .. n - 2
      BY <1>1, <1>3, <3>1, <3>2 DEF Mounts
    <3>3. CASE i \notin e .. n - 2
      BY <1>1, <3>1, <3>3 DEF Mounts
    <3>4. QED
      BY <3>2, <3>3
  <2>2. EntryOK(s)
    BY DEF VfsIInv
  <2>3. mount_points[s].path \in Indices /\ s \in Int /\ i \in Int
    BY <2>2, <1>2 DEF EntryOK, Mounts
  <2>4. 0 .. mount_points[s].path \subseteq Indices
    BY <2>3 DEF Indices
  <2>5. mount_points'[i].path >= i
    BY <2>1, <2>2, <2>3 DEF EntryOK, Indices
  <2>6. QED
    BY <1>5, <2>1, <2>2, <2>4, <2>5 DEF EntryOK
<1>7. QED
  BY <1>4, <1>6 DEF VfsIInv

(* The calls by path leave the array alone and pass the call to the file   *)
(* system of an entry, or to none.                                         *)
LEMMA PathCallOK ==
  ASSUME VfsIInv, NEW p \in Paths, PathCall(p)
  PROVE  VfsIInv'
<1>1. FindMountPoint(p) \in Filesystems \union {NULL}
  <2>1. CASE \E i \in Mounts : BestMatch(p, i)
    <3>1. PICK i \in Mounts : FindMountPoint(p) = mount_points[i].ops
      BY <2>1 DEF FindMountPoint
    <3>2. QED
      BY <3>1 DEF VfsIInv, EntryOK
  <2>2. CASE ~ \E i \in Mounts : BestMatch(p, i)
    BY <2>2 DEF FindMountPoint
  <2>3. QED
    BY <2>1, <2>2
<1>2. VfsTypeOK'
  BY <1>1 DEF PathCall, mountVars, VfsIInv, VfsTypeOK
<1>3. \A i \in Mounts' : EntryOK(i)'
  BY DEF PathCall, mountVars, VfsIInv, EntryOK, Mounts
<1>4. QED
  BY <1>2, <1>3 DEF VfsIInv

-----------------------------------------------------------------------------
(* The invariant is kept by every step.                                    *)
LEMMA VfsNextOK == VfsIInv /\ [Next]_vfsVars => VfsIInv'
<1> SUFFICES ASSUME VfsIInv, [Next]_vfsVars PROVE VfsIInv'
  OBVIOUS
<1>1. ASSUME NEW p \in Paths, NEW f \in Filesystems, MountFs(p, f) PROVE VfsIInv'
  BY <1>1, MountFsOK
<1>2. ASSUME NEW p \in Paths, UnmountFs(p) PROVE VfsIInv'
  BY <1>2, UnmountFsOK
<1>3. ASSUME NEW p \in Paths, PathCall(p) PROVE VfsIInv'
  BY <1>3, PathCallOK
<1>4. CASE UNCHANGED vfsVars
  BY <1>4 DEF vfsVars, mountVars, VfsIInv, VfsTypeOK, EntryOK, Mounts
<1>5. QED
  BY <1>1, <1>2, <1>3, <1>4 DEF Next

(* Types are kept: the count of mount points never passes the size of the  *)
(* array, whatever mount_fs and unmount_fs are called with.                *)
THEOREM VfsTypeCorrect == Spec => []VfsTypeOK
<1>1. VfsIInv => VfsTypeOK
  BY DEF VfsIInv
<1>2. QED
  BY <1>1, VfsInitOK, VfsNextOK, PTL DEF Spec

(* find_mount_point, mount_fs and unmount_fs compare with strings some     *)
(* mount_fs copied, whatever was unmounted before: the path pointers that  *)
(* unmount_fs leaves behind their strings still name written buffers.      *)
THEOREM EntriesAreNamed == Spec => []EntriesNamed
<1>1. VfsIInv => EntriesNamed
  <2> SUFFICES ASSUME VfsIInv, NEW i \in Mounts
               PROVE mount_points[i].path >= i /\ PathOf(i) # NULL
    BY DEF EntriesNamed
  <2>1. EntryOK(i)
    BY DEF VfsIInv
  <2>2. mount_points[i].path \in 0 .. mount_points[i].path
    BY <2>1, MaxMountsAssumption DEF EntryOK, Indices
  <2>3. QED
    BY <2>1, <2>2 DEF EntryOK, PathOf
<1>2. QED
  BY <1>1, VfsInitOK, VfsNextOK, PTL DEF Spec

-----------------------------------------------------------------------------
(***************************************************************************)
(* The array is the mount table.                                           *)
(***************************************************************************)

(* Paths are sequences.                                                    *)
LEMMA PathsAreSequences ==
  ASSUME NEW p \in Paths
  PROVE  p \in Seq(Names) /\ Len(p) \in Nat
<1>1. PICK d \in 0 .. MaxDepth : p \in [1 .. d -> Names]
  BY DEF Paths
<1>2. d \in Nat
  BY MaxDepthAssumption
<1>3. p \in Seq(Names)
  BY <1>1, <1>2, SeqDef
<1>4. QED
  BY <1>3, LenProperties

(* Two paths of one length that a path lies below are the same path.       *)
LEMMA PrefixesEqual ==
  ASSUME NEW p \in Paths, NEW m \in Paths, NEW q \in Paths,
         IsPrefix(m, p), IsPrefix(q, p), Len(m) = Len(q)
  PROVE  m = q
<1>1. m \in Seq(Names) /\ q \in Seq(Names)
  BY PathsAreSequences
<1>2. SubSeq(m, 1, Len(m)) = m /\ SubSeq(q, 1, Len(q)) = q
  BY <1>1, SubSeqFull
<1>3. QED
  BY <1>2 DEF IsPrefix

(* An entry's path is the string in its buffer, and there is one entry for *)
(* each path of the table.                                                 *)
LEMMA TableForm ==
  ASSUME VfsIInv, LifoOK, lifo
  PROVE  /\ \A i \in Mounts : PathOf(i) = path_buffers[i] /\ path_buffers[i] \in Paths
         /\ Table = [q \in {path_buffers[i] : i \in Mounts} |-> Table[q]]
         /\ DOMAIN Table = {path_buffers[i] : i \in Mounts}
         /\ \A i \in Mounts : Table[path_buffers[i]] = mount_points[i].ops
<1>1. ASSUME NEW i \in Mounts PROVE PathOf(i) = path_buffers[i] /\ path_buffers[i] \in Paths
  <2>1. mount_points[i].path = i /\ i \in Indices
    BY MaxMountsAssumption DEF LifoOK, VfsIInv, VfsTypeOK, Mounts, Indices
  <2>2. path_buffers[i] # NULL
    BY BuffersWritten
  <2>3. QED
    BY <2>1, <2>2 DEF PathOf, VfsIInv, VfsTypeOK
<1>2. {PathOf(i) : i \in Mounts} = {path_buffers[i] : i \in Mounts}
  BY <1>1
<1>3. ASSUME NEW i \in Mounts
      PROVE  (CHOOSE j \in Mounts : FirstAt(path_buffers[i], j)) = i
  <2>1. \A j \in Mounts : FirstAt(path_buffers[i], j) => j = i
    BY <1>1 DEF FirstAt, LifoOK
  <2>2. FirstAt(path_buffers[i], i)
    <3>1. \A j \in 0 .. i - 1 : j \in Mounts /\ j # i
      BY DEF VfsIInv, VfsTypeOK, Mounts
    <3>2. QED
      BY <1>1, <3>1 DEF FirstAt, LifoOK
  <2>3. QED
    BY <2>1, <2>2
<1>4. QED
  BY <1>1, <1>2, <1>3 DEF Table


(* The same after a step.                                                  *)
LEMMA TableFormNext ==
  ASSUME VfsIInv', LifoOK', lifo'
  PROVE  /\ Table' = [q \in {path_buffers'[i] : i \in Mounts'} |-> Table'[q]]
         /\ \A i \in Mounts' : Table'[path_buffers'[i]] = mount_points'[i].ops
<1>1. (VfsIInv /\ LifoOK /\ lifo =>
         /\ Table = [q \in {path_buffers[i] : i \in Mounts} |-> Table[q]]
         /\ \A i \in Mounts : Table[path_buffers[i]] = mount_points[i].ops)'
  BY TableForm, PTL
<1>2. QED
  BY <1>1

(* MountTable means the same by prefixes and sizes as the array does.      *)
LEMMA SameOperators ==
  /\ \A m, p : Abstract!IsPrefix(m, p) <=> IsPrefix(m, p)
  /\ \A S : Abstract!Cardinality(S) = Cardinality(S)
<1>1. \A m, p : Abstract!IsPrefix(m, p) <=> IsPrefix(m, p)
  BY DEF Abstract!IsPrefix, IsPrefix
<1>2. \A S : Abstract!Cardinality(S) = Cardinality(S)
  BY DEF Abstract!Cardinality, Cardinality
<1>3. QED
  BY <1>1, <1>2

(* mount_fs of a path not mounted, in reverse order so far, adds it to the *)
(* table.                                                                  *)
LEMMA MountFsMounts ==
  ASSUME VfsIInv, VfsIInv', LifoOK, lifo, NEW p \in Paths, NEW f \in Filesystems, MountFs(p, f)
  PROVE  LifoOK' /\ Abstract!Mount(p, f)
<1> DEFINE n == num_mount_points
<1> USE MaxMountsAssumption
<1>1. /\ n \in Nat /\ n < MaxMounts /\ n \in Indices /\ Mounts' = Mounts \union {n}
      /\ Mounts = 0 .. n - 1 /\ n \notin Mounts /\ Mounts \subseteq Indices
  BY DEF VfsIInv, VfsTypeOK, MountFs, AddEntry, Indices, Mounts
<1>2. /\ path_buffers' = [path_buffers EXCEPT ![n] = p]
      /\ mount_points' = [mount_points EXCEPT ![n] = [path |-> n, ops |-> f]]
      /\ UNCHANGED <<reached, lifo>>
  BY DEF MountFs, AddEntry
<1>3. \A i \in Mounts : path_buffers[i] # p
  BY TableForm DEF MountFs
<1>4. /\ path_buffers'[n] = p /\ mount_points'[n] = [path |-> n, ops |-> f]
      /\ \A i \in Mounts :
           path_buffers'[i] = path_buffers[i] /\ mount_points'[i] = mount_points[i]
  BY <1>1, <1>2 DEF VfsIInv, VfsTypeOK
<1>5. LifoOK'
  BY <1>1, <1>3, <1>4 DEF LifoOK
<1>6. /\ Table' = [q \in {path_buffers'[i] : i \in Mounts'} |-> Table'[q]]
      /\ \A i \in Mounts' : Table'[path_buffers'[i]] = mount_points'[i].ops
  BY <1>2, <1>5, TableFormNext
<1>7. {path_buffers'[i] : i \in Mounts'} = {path_buffers[i] : i \in Mounts} \union {p}
  BY <1>1, <1>4
<1>8. \A i \in Mounts : Table'[path_buffers[i]] = Table[path_buffers[i]]
  BY <1>1, <1>4, <1>6, TableForm
<1>9. Table'[p] = f
  BY <1>1, <1>4, <1>6
<1>10. Table' = [q \in DOMAIN Table \union {p} |-> IF q = p THEN f ELSE Table[q]]
  <2>1. Table' = [q \in DOMAIN Table \union {p} |-> Table'[q]]
    BY <1>6, <1>7, TableForm
  <2>2. \A q \in DOMAIN Table \union {p} : Table'[q] = IF q = p THEN f ELSE Table[q]
    BY <1>3, <1>8, <1>9, TableForm
  <2>3. QED
    BY <2>1, <2>2
<1>11. p \notin DOMAIN Table
  BY <1>3, TableForm
<1>12. Cardinality(DOMAIN Table) < MaxMounts
  <2>1. IsFiniteSet(Mounts) /\ Cardinality(Mounts) = n
    BY <1>1, FS_Interval
  <2>2. [i \in Mounts |-> path_buffers[i]] \in Surjection(Mounts, DOMAIN Table)
    BY TableForm DEF Surjection
  <2>3. Cardinality(DOMAIN Table) <= n /\ IsFiniteSet(DOMAIN Table)
    BY <2>1, <2>2, FS_Surjection
  <2>4. Cardinality(DOMAIN Table) \in Nat
    BY <2>3, FS_CardinalityType
  <2>5. QED
    BY <1>1, <2>3, <2>4
<1>13. QED
  BY <1>2, <1>5, <1>10, <1>11, <1>12, SameOperators DEF Abstract!Mount, Abstract!Mounted

(* unmount_fs of the last entry takes its path out of the table.           *)
LEMMA UnmountFsUnmounts ==
  ASSUME VfsIInv, VfsIInv', LifoOK, NEW p \in Paths, UnmountFs(p), lifo'
  PROVE  LifoOK' /\ Abstract!Unmount(p)
<1> DEFINE n == num_mount_points
<1> USE MaxMountsAssumption
<1>1. PICK e \in Mounts :
        /\ FirstAt(p, e)
        /\ mount_points' = [j \in Indices |->
             IF j \in e .. n - 2 THEN mount_points[j + 1] ELSE mount_points[j]]
        /\ path_buffers' = [j \in Indices |->
             IF j \in e .. n - 2 THEN path_buffers[j + 1] ELSE path_buffers[j]]
        /\ num_mount_points' = n - 1
        /\ lifo' = (lifo /\ e = n - 1)
        /\ UNCHANGED reached
  BY DEF UnmountFs
<1>2. lifo /\ e = n - 1
  BY <1>1
<1>3. n \in 1 .. MaxMounts /\ Mounts' = Mounts \ {e} /\ Mounts \subseteq Indices /\ e .. n - 2 = {}
  BY <1>1, <1>2 DEF VfsIInv, VfsTypeOK, Mounts, Indices
<1>4. \A i \in Mounts :
        path_buffers'[i] = path_buffers[i] /\ mount_points'[i] = mount_points[i]
  BY <1>1, <1>3
<1>5. path_buffers[e] = p
  BY <1>1, <1>2, TableForm DEF FirstAt
<1>6. LifoOK'
  BY <1>2, <1>3, <1>4 DEF LifoOK
<1>7. /\ Table' = [q \in {path_buffers'[i] : i \in Mounts'} |-> Table'[q]]
      /\ \A i \in Mounts' : Table'[path_buffers'[i]] = mount_points'[i].ops
  BY <1>6, TableFormNext
<1>8. {path_buffers'[i] : i \in Mounts'} = {path_buffers[i] : i \in Mounts} \ {p}
  BY <1>2, <1>3, <1>4, <1>5 DEF LifoOK
<1>9. Table' = [q \in DOMAIN Table \ {p} |-> Table[q]]
  <2>1. Table' = [q \in DOMAIN Table \ {p} |-> Table'[q]]
    BY <1>2, <1>7, <1>8, TableForm
  <2>2. \A i \in Mounts' : Table'[path_buffers[i]] = Table[path_buffers[i]]
    BY <1>2, <1>3, <1>4, <1>7, TableForm
  <2>3. \A q \in DOMAIN Table \ {p} : Table'[q] = Table[q]
    BY <1>2, <1>3, <1>5, <2>2, TableForm
  <2>4. QED
    BY <2>1, <2>3
<1>10. p \in DOMAIN Table
  BY <1>2, <1>5, TableForm
<1>11. QED
  BY <1>1, <1>6, <1>9, <1>10 DEF Abstract!Unmount, Abstract!Mounted

(* find_mount_point finds the file system mounted nearest above the path.  *)
LEMMA PathCallCalls ==
  ASSUME VfsIInv, LifoOK, lifo, NEW p \in Paths, PathCall(p)
  PROVE  LifoOK' /\ Abstract!Call(p)
<1>1. LifoOK' /\ Table' = Table
  BY DEF PathCall, mountVars, LifoOK, Mounts, Table, PathOf, FirstAt
<1>2. \A i \in Mounts : PathOf(i) = path_buffers[i] /\ PathOf(i) \in Paths /\ Len(PathOf(i)) \in Nat
  BY TableForm, PathsAreSequences
<1>3. ASSUME NEW i \in Mounts, BestMatch(p, i)
      PROVE  Abstract!Nearest(p, PathOf(i)) /\ Table[PathOf(i)] = mount_points[i].ops
  <2>1. \A j \in Mounts : IsPrefix(PathOf(j), p) => Len(PathOf(j)) <= Len(PathOf(i))
    BY <1>2, <1>3 DEF BestMatch
  <2>2. QED
    BY <1>2, <1>3, <2>1, TableForm, SameOperators DEF BestMatch, Abstract!Nearest, Abstract!Mounted
<1>4. ASSUME NEW m \in Paths, Abstract!Nearest(p, m) PROVE \E i \in Mounts : BestMatch(p, i)
  <2>1. PICK i \in Mounts : m = PathOf(i)
    BY <1>2, <1>4, TableForm DEF Abstract!Nearest, Abstract!Mounted
  <2>2. ASSUME NEW j \in Mounts, IsPrefix(PathOf(j), p)
        PROVE  Len(PathOf(j)) < Len(PathOf(i)) \/ (Len(PathOf(j)) = Len(PathOf(i)) /\ i = j)
    <3>1. Len(PathOf(j)) <= Len(PathOf(i)) /\ IsPrefix(PathOf(i), p)
      BY <1>2, <1>4, <2>1, <2>2, TableForm, SameOperators DEF Abstract!Nearest, Abstract!Mounted
    <3>2. Len(PathOf(j)) = Len(PathOf(i)) => i = j
      BY <1>2, <2>2, <3>1, PrefixesEqual DEF LifoOK
    <3>3. QED
      BY <1>2, <3>1, <3>2
  <2>3. IsPrefix(PathOf(i), p) /\ i \in Int
    BY <1>4, <2>1, SameOperators DEF Abstract!Nearest, VfsIInv, VfsTypeOK, Mounts
  <2>4. QED
    BY <2>2, <2>3 DEF BestMatch
<1>5. reached' = [path |-> p, ops |-> FindMountPoint(p)]
  BY DEF PathCall
<1>6. CASE \E i \in Mounts : BestMatch(p, i)
  <2>1. PICK i \in Mounts : BestMatch(p, i) /\ FindMountPoint(p) = mount_points[i].ops
    BY <1>6 DEF FindMountPoint
  <2>2. Abstract!Nearest(p, PathOf(i)) /\ FindMountPoint(p) = Table[PathOf(i)] /\ PathOf(i) \in Paths
    BY <1>2, <1>3, <2>1
  <2>3. QED
    BY <1>1, <1>5, <2>2 DEF Abstract!Call
<1>7. CASE ~ \E i \in Mounts : BestMatch(p, i)
  <2>1. FindMountPoint(p) = NULL
    BY <1>7 DEF FindMountPoint
  <2>2. ~ \E m \in Paths : Abstract!Nearest(p, m)
    BY <1>4, <1>7
  <2>3. QED
    BY <1>1, <1>5, <2>1, <2>2 DEF Abstract!Call
<1>8. QED
  BY <1>6, <1>7

(* As long as callers unmount in the reverse order of mounting, the array  *)
(* with its buffers is the mount table, and calls by path go to the file   *)
(* system mounted nearest above.                                           *)
THEOREM MountsAsPromised == Spec => ImplementsMountTable
<1>1. Init => LifoOK /\ Abstract!Init
  <2> SUFFICES ASSUME Init PROVE LifoOK /\ Abstract!Init
    OBVIOUS
  <2>1. Mounts = {}
    BY DEF Init, Mounts
  <2>2. Table = [q \in {} |-> NULL]
    BY <2>1 DEF Table
  <2>3. QED
    BY <2>1, <2>2 DEF Init, LifoOK, Abstract!Init
<1>2. VfsIInv /\ VfsIInv' /\ LifoOK /\ [Next]_vfsVars =>
        LifoOK' /\ [lifo' => [Abstract!Next]_(Abstract!tableVars)]_vfsVars
  <2> SUFFICES ASSUME VfsIInv, VfsIInv', LifoOK, [Next]_vfsVars
               PROVE  LifoOK' /\ (lifo' => Abstract!Next \/ UNCHANGED <<vfsVars, Table>>)
    BY DEF Abstract!tableVars, vfsVars
  <2>1. ASSUME NEW p \in Paths, NEW f \in Filesystems, MountFs(p, f)
        PROVE  LifoOK' /\ (lifo' => Abstract!Next)
    <3>1. lifo' = lifo
      BY <2>1 DEF MountFs, AddEntry
    <3>2. QED
      BY <2>1, <3>1, MountFsMounts DEF LifoOK, Abstract!Next
  <2>2. ASSUME NEW p \in Paths, UnmountFs(p)
        PROVE  LifoOK' /\ (lifo' => Abstract!Next)
    BY <2>2, UnmountFsUnmounts DEF LifoOK, Abstract!Next
  <2>3. ASSUME NEW p \in Paths, PathCall(p)
        PROVE  LifoOK' /\ (lifo' => Abstract!Next)
    <3>1. lifo' = lifo
      BY <2>3 DEF PathCall
    <3>2. QED
      BY <2>3, <3>1, PathCallCalls DEF LifoOK, Abstract!Next
  <2>4. CASE UNCHANGED vfsVars
    BY <2>4 DEF vfsVars, mountVars, LifoOK, Mounts, Table, PathOf, FirstAt
  <2>5. QED
    BY <2>1, <2>2, <2>3, <2>4 DEF Next
<1>3. QED
  BY <1>1, <1>2, VfsInitOK, VfsNextOK, PTL DEF Spec, ImplementsMountTable


=============================================================================
