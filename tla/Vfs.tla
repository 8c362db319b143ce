-------------------------------- MODULE Vfs --------------------------------
(***************************************************************************)
(* The virtual file system (fs/vfs.c): the array of mount points, the      *)
(* buffers their path pointers point into, and the lookups that choose the *)
(* file system a call is passed to.                                        *)
(*                                                                         *)
(* A path is the sequence of its components, "/" the empty one; the file   *)
(* system stands for ops and private_data.  The device strings live and    *)
(* move exactly like the path strings but are only logged; they are left   *)
(* out.  Calls on a descriptor change nothing here: Boot makes them, to    *)
(* the mount FindMountPointByInode gives.  All ops tables of the           *)
(* repository fill every operation, so the "does not support" replies do   *)
(* not occur.                                                              *)
(***************************************************************************)
EXTENDS Integers, FiniteSets, SequencesExt

CONSTANTS
  MaxMounts,     (* MAX_MOUNT_POINTS                                       *)
  Names,         (* bound: the names paths are made of                     *)
  MaxDepth,      (* bound: the longest path                                *)
  Filesystems,
  NULL           (* the null pointer                                       *)

ASSUME MaxMountsAssumption == MaxMounts \in Nat \ {0}
ASSUME MaxDepthAssumption == MaxDepth \in Nat

Paths == UNION {[1 .. d -> Names] : d \in 0 .. MaxDepth}

ASSUME VfsNullAssumption == NULL \notin Filesystems \union Paths

Indices == 0 .. MaxMounts - 1

VARIABLES
  num_mount_points,
  mount_points,   (* [path |-> index of the buffer pointed to, ops |-> ..] *)
  path_buffers,   (* the path strings, NULL where none was ever copied     *)
  reached,        (* the last call by path: its path, and the file system  *)
                  (* it was passed to, NULL for none                       *)
  lifo            (* history: each unmount was of the last entry           *)

mountVars == <<num_mount_points, mount_points, path_buffers>>
vfsVars   == <<mountVars, reached, lifo>>

MountPoints == [path : Indices, ops : Filesystems] \union {NULL}

VfsTypeOK ==
  /\ num_mount_points \in 0 .. MaxMounts
  /\ mount_points \in [Indices -> MountPoints]
  /\ path_buffers \in [Indices -> Paths \union {NULL}]
  /\ reached \in [path : Paths, ops : Filesystems \union {NULL}]
  /\ lifo \in BOOLEAN

(* init_vfs *)
Init ==
  /\ num_mount_points = 0
  /\ mount_points = [i \in Indices |-> NULL]
  /\ path_buffers = [i \in Indices |-> NULL]
  /\ reached = [path |-> <<>>, ops |-> NULL]
  /\ lifo = TRUE

Mounts == 0 .. num_mount_points - 1

(* The string mount_points[i].path points to.                              *)
PathOf(i) == path_buffers[mount_points[i].path]

-----------------------------------------------------------------------------
(* Entry num_mount_points becomes f at p, the string copied to buffer b.   *)
AddEntry(p, f, b) ==
  /\ path_buffers' = [path_buffers EXCEPT ![b] = p]
  /\ mount_points' = [mount_points EXCEPT ![num_mount_points] =
                        [path |-> num_mount_points, ops |-> f]]
  /\ num_mount_points' = num_mount_points + 1
  /\ UNCHANGED <<reached, lifo>>

(* Mutant: the string of the new entry is copied past its buffer.          *)
MountFs_NextBuffer(p, f) ==
  /\ num_mount_points < MaxMounts
  /\ \A i \in Mounts : PathOf(i) # p
  /\ AddEntry(p, f, (num_mount_points + 1) % MaxMounts)

(* Mutant: a full table is not noticed.                                    *)
MountFs_Full(p, f) ==
  /\ \A i \in Mounts : PathOf(i) # p
  /\ AddEntry(p, f, num_mount_points)

(* Mutant: a path may be mounted again.                                    *)
MountFs_Again(p, f) ==
  /\ num_mount_points < MaxMounts
  /\ AddEntry(p, f, num_mount_points)

(* mount_fs.  With a full table or a path found in it, it returns -1 and   *)
(* changes nothing.                                                        *)
MountFs(p, f) ==
  /\ num_mount_points < MaxMounts
  /\ \A i \in Mounts : PathOf(i) # p
  /\ AddEntry(p, f, num_mount_points)

(* The entry unmount_fs finds for p.                                       *)
FirstAt(p, i) ==
  /\ i \in Mounts
  /\ PathOf(i) = p
  /\ \A j \in 0 .. i - 1 : PathOf(j) # p

(* unmount_fs.  The entries above are moved down one place with the        *)
(* pointers they hold, and so are the strings of the same places: the      *)
(* moved pointers still name the buffers the strings were moved out of.    *)
UnmountFs(p) ==
  \E i \in Mounts :
    LET Moved == i .. num_mount_points - 2
    IN  /\ FirstAt(p, i)
        /\ mount_points' =
             [j \in Indices |-> IF j \in Moved THEN mount_points[j + 1] ELSE mount_points[j]]
        /\ path_buffers' =
             [j \in Indices |-> IF j \in Moved THEN path_buffers[j + 1] ELSE path_buffers[j]]
        /\ num_mount_points' = num_mount_points - 1
        /\ lifo' = (lifo /\ i = num_mount_points - 1)
        /\ UNCHANGED reached

(* Mutant: the first entry above the path is taken.                        *)
BestMatch_First(p, i) ==
  /\ i \in Mounts
  /\ IsPrefix(PathOf(i), p)
  /\ \A j \in 0 .. i - 1 : ~IsPrefix(PathOf(j), p)

(* find_mount_point chooses entry i: the longest path that p is or lies    *)
(* below, the first of them should there be several.                       *)
BestMatch(p, i) ==
  /\ i \in Mounts
  /\ IsPrefix(PathOf(i), p)
  /\ \A j \in Mounts :
       IsPrefix(PathOf(j), p) =>
         \/ Len(PathOf(j)) < Len(PathOf(i))
         \/ Len(PathOf(j)) = Len(PathOf(i)) /\ i <= j

FindMountPoint(p) ==
  IF \E i \in Mounts : BestMatch(p, i)
  THEN mount_points[CHOOSE i \in Mounts : BestMatch(p, i)].ops
  ELSE NULL

(* Mutant: the last mount is not counted.                                  *)
FindMountPointByInode_Short == IF num_mount_points > 1 THEN mount_points[0].ops ELSE NULL

(* find_mount_point_by_inode, for calls on any descriptor.                 *)
FindMountPointByInode == IF num_mount_points > 0 THEN mount_points[0].ops ELSE NULL

(* open_file, create_directory, remove_directory, create_file and          *)
(* delete_file pass the call on; with no mount above the path they return  *)
(* -1.                                                                     *)
PathCall(p) ==
  /\ reached' = [path |-> p, ops |-> FindMountPoint(p)]
  /\ UNCHANGED <<mountVars, lifo>>

-----------------------------------------------------------------------------
Next ==
  \/ \E p \in Paths, f \in Filesystems : MountFs(p, f)
  \/ \E p \in Paths : UnmountFs(p)
  \/ \E p \in Paths : PathCall(p)

Spec == Init /\ [][Next]_vfsVars

-----------------------------------------------------------------------------
(* Whatever was unmounted before, each path pointer names a buffer at or   *)
(* above the place of its entry, and a string some mount_fs copied: no     *)
(* lookup compares with a buffer that was never written.                   *)
EntriesNamed ==
  \A i \in Mounts :
    /\ mount_points[i].path >= i
    /\ PathOf(i) # NULL

(* The mount table the array stands for.                                   *)
Table ==
  [p \in {PathOf(i) : i \in Mounts} |-> mount_points[CHOOSE i \in Mounts : FirstAt(p, i)].ops]

Abstract == INSTANCE MountTable WITH table <- Table

(* As long as callers unmount in the reverse order of mounting, the array  *)
(* with its buffers is the mount table: a path is mounted once, and calls  *)
(* go to the file system mounted nearest above.                            *)
ImplementsMountTable ==
  Abstract!Init /\ [][lifo' => [Abstract!Next]_(Abstract!tableVars)]_vfsVars

(* vfs.c:28, "Path %s is already mounted": no path is mounted twice.       *)
PathsDistinct ==
  \A i, j \in Mounts : PathOf(i) = PathOf(j) => i = j

=============================================================================
