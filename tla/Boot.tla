-------------------------------- MODULE Boot --------------------------------
(***************************************************************************)
(* kmain (kmain.c) from the multiboot information to schedule(): the loop  *)
(* over the boot modules, of which the first becomes a process and the     *)
(* others initial ram disks, and the tests it makes of the file system,    *)
(* through the calls of fs/vfs.c (Vfs) on those of fs/initrd.c (Initrd).   *)
(*                                                                         *)
(* Interrupts are disabled until the loop has ended, so a step is a call.  *)
(* What matters here of the process of module 0 is what Process and        *)
(* AddressSpace say; it is created before any disk is looked at.           *)
(***************************************************************************)
EXTENDS Integers, Sequences, SequencesExt

CONSTANTS
  Modules,       (* images, as in Initrd                                   *)
  MaxDisks,      (* bound: the boot modules after the first                *)
  BufferSize,    (* sizeof(buffer) in test_read_file                       *)
  NULL

ASSUME BufferAssumption == BufferSize \in Nat \ {0} /\ MaxDisks \in Nat

(* As in Initrd: inputs are sequences, and files have a size.              *)
ASSUME ImagesAssumption ==
  \A module \in Modules :
    /\ DOMAIN module.inputs = 1 .. Len(module.inputs)
    /\ Len(module.inputs) \in Nat
    /\ \A k \in DOMAIN module.inputs : module.inputs[k].size \in Nat

VARIABLES
  num_mount_points, mount_points, path_buffers, reached, lifo,  (* Vfs     *)
  initrd_header, initrd_data, current_file, fd, delivered,      (* Initrd  *)
  round, given,
  mods_count,   (* 0 as well if the boot loader gives no list of modules   *)
  modules,      (* modules 1, 2, ...: [image, cmdline], the latter whether *)
                (* the boot loader gave it a command line                  *)
  pc,           (* the call kmain is at                                    *)
  i,            (* the index of its loop                                   *)
  test,         (* the call of test_read_file it is at                     *)
  shown         (* names listed and file contents logged, in order         *)

(* The files kmain reads, in the root directory.                           *)
Tests == <<"hello.txt", "test.txt", "README.txt">>

Disk == INSTANCE Initrd WITH Descriptors <- {"fd"}, MaxRead <- BufferSize

FileNames == Disk!Names \union Range(Tests)

V == INSTANCE Vfs WITH MaxMounts <- 8, Names <- FileNames, MaxDepth <- 1, Filesystems <- {"initrd"}

(* The temporary image is in no module.                                    *)
ASSUME TempAssumption == Disk!Temp \notin Modules

(* NULL is the inode of no file, no descriptor, image or driver, and       *)
(* points to no data.                                                      *)
ASSUME BootNullAssumption ==
  /\ NULL \notin Nat
  /\ NULL \notin [inode : Nat \union {NULL}, position : Nat, type : {"file", "directory"}]
  /\ NULL \notin Modules \union {Disk!Temp} /\ NULL # "initrd"
  /\ \A module \in Modules \union {Disk!Temp} : NULL # Disk!Data(module.inputs)

vfsVars    == <<num_mount_points, mount_points, path_buffers, reached, lifo>>
initrdVars == <<initrd_header, initrd_data, current_file, fd, delivered, round, given>>
kmainVars  == <<mods_count, modules, pc, i, test, shown>>
bootVars   == <<vfsVars, initrdVars, kmainVars>>

Points == {"module", "mount", "root", "list", "open", "read", "schedule", "halted"}

TypeOK ==
  /\ mods_count \in 0 .. MaxDisks + 1
  /\ pc \in Points
  /\ i \in 0 .. mods_count
  /\ test \in DOMAIN Tests
  /\ pc = "read" => Disk!ValidInode("fd")
  /\ pc \in {"mount", "root", "list", "open", "read"} => i \in DOMAIN modules

(* init_vfs was called; the flags and the counts come from the boot loader.*)
Init ==
  /\ V!Init
  /\ Disk!Init
  /\ \E n \in 0 .. MaxDisks :
       /\ mods_count \in {0, n + 1}
       /\ modules \in [1 .. n -> [image : Modules, cmdline : BOOLEAN]]
  /\ pc = "module"
  /\ i = 0
  /\ test = 1
  /\ shown = <<>>

Goto(point) == pc' = point

Show(item) == shown' = Append(shown, item)

-----------------------------------------------------------------------------
(***************************************************************************)
(* The loop over the modules.                                              *)
(***************************************************************************)
NextModule == Goto("module") /\ i' = i + 1

(* create_process for module 0; when it fails the loop goes on.            *)
CreateFirst ==
  /\ pc = "module" /\ i = 0 /\ mods_count > 0
  /\ NextModule
  /\ UNCHANGED <<vfsVars, initrdVars, mods_count, modules, test, shown>>

(* init_initrd for a later module.                                         *)
InitDisk ==
  /\ pc = "module" /\ i > 0 /\ i < mods_count
  /\ modules[i].cmdline
  /\ Disk!InitInitrd(modules[i].image)
  /\ Goto("mount")
  /\ UNCHANGED <<vfsVars, mods_count, modules, i, test, shown>>

SkipModule ==
  /\ pc = "module" /\ i > 0 /\ i < mods_count
  /\ ~modules[i].cmdline
  /\ NextModule
  /\ UNCHANGED <<vfsVars, initrdVars, mods_count, modules, test, shown>>

MountDisk ==
  /\ pc = "mount"
  /\ V!MountFs(<<>>, "initrd")
  /\ Goto("root")
  /\ UNCHANGED <<initrdVars, mods_count, modules, i, test, shown>>

(* "/" is mounted already, with the driver that now has another image.     *)
MountRefused ==
  /\ pc = "mount"
  /\ \E j \in V!Mounts : V!PathOf(j) = <<>>
  /\ NextModule
  /\ UNCHANGED <<vfsVars, initrdVars, mods_count, modules, test, shown>>

(* Interrupts are enabled and schedule() is called: see Process.           *)
KmainSchedules ==
  /\ pc = "module" /\ i >= mods_count
  /\ Goto("schedule")
  /\ UNCHANGED <<vfsVars, initrdVars, mods_count, modules, i, test, shown>>

-----------------------------------------------------------------------------
(***************************************************************************)
(* test_list_directory.                                                    *)
(***************************************************************************)
OpenRoot ==
  /\ pc = "root"
  /\ V!PathCall(<<>>)
  /\ IF V!FindMountPoint(<<>>) = NULL
     THEN Goto("open") /\ UNCHANGED initrdVars
     ELSE Goto("list") /\ Disk!OpenRoot("fd")
  /\ UNCHANGED <<mods_count, modules, i, test, shown>>

(* read_directory, until it returns 0.  The -1 it returns without a mount  *)
(* counts as a name.                                                       *)
ReadDirectory ==
  /\ pc = "list"
  /\ IF V!FindMountPointByInode = NULL THEN UNCHANGED <<pc, shown, initrdVars>>
     ELSE \/ /\ Disk!ReaddirNext("fd")
             /\ Show([name |-> Disk!files[current_file + 1].name])
             /\ UNCHANGED pc
          \/ /\ Disk!ReaddirEnd("fd")
             /\ Goto("open")
             /\ UNCHANGED shown
  /\ UNCHANGED <<vfsVars, mods_count, modules, i, test>>

-----------------------------------------------------------------------------
(***************************************************************************)
(* test_read_file, for one file after the other.                           *)
(***************************************************************************)
(* Mutant: the next disk's tests do not begin with the first.              *)
NextTest_NoReset ==
  IF test < Len(Tests) THEN Goto("open") /\ test' = test + 1 /\ UNCHANGED i
  ELSE NextModule /\ test' = test + 1

NextTest ==
  IF test < Len(Tests) THEN Goto("open") /\ test' = test + 1 /\ UNCHANGED i
  ELSE NextModule /\ test' = 1

(* fd.size                                                                 *)
Size == Disk!FileOf("fd").size

(* Mutant: no room is left for the end of the string.                      *)
Fits_Exactly == Size <= BufferSize

Fits == Size < BufferSize

OpenTest ==
  /\ pc = "open"
  /\ V!PathCall(<<Tests[test]>>)
  /\ V!FindMountPoint(<<Tests[test]>>) # NULL
  /\ Disk!OpenFile("fd", Tests[test])
  /\ IF Fits' THEN Goto("read") /\ UNCHANGED <<i, test>> ELSE NextTest
  /\ UNCHANGED <<mods_count, modules, shown>>

OpenFails ==
  /\ pc = "open"
  /\ V!PathCall(<<Tests[test]>>)
  /\ \/ V!FindMountPoint(<<Tests[test]>>) = NULL
     \/ \A k \in DOMAIN Disk!files : Disk!files[k].name # Tests[test]
  /\ NextTest
  /\ UNCHANGED <<initrdVars, mods_count, modules, shown>>

(* After a magic that was wrong initrd_data is the null pointer.           *)
NoData == initrd_data = NULL /\ Disk!ToRead("fd", Size) > 0

ReadTest ==
  /\ pc = "read"
  /\ ~NoData
  /\ IF V!FindMountPointByInode = NULL THEN UNCHANGED <<shown, initrdVars>>
     ELSE Disk!Read("fd", Size) /\ Show([text |-> delivered'])
  /\ NextTest
  /\ UNCHANGED <<vfsVars, mods_count, modules>>

(* A page fault with no current process halts.                             *)
ReadFaults ==
  /\ pc = "read"
  /\ NoData
  /\ V!FindMountPointByInode # NULL
  /\ Goto("halted")
  /\ UNCHANGED <<vfsVars, initrdVars, mods_count, modules, i, test, shown>>

Next ==
  \/ CreateFirst \/ InitDisk \/ SkipModule \/ MountDisk \/ MountRefused \/ KmainSchedules
  \/ OpenRoot \/ ReadDirectory
  \/ OpenTest \/ OpenFails \/ ReadTest \/ ReadFaults

(* The CPU executes kmain, and nothing in it waits.                        *)
Spec == Init /\ [][Next]_bootVars /\ WF_bootVars(Next)

-----------------------------------------------------------------------------
(* What a user expects of the first disk, from what the image tool was     *)
(* given: the names in order, and the files the buffer holds.              *)
Disks == {k \in 1 .. mods_count - 1 : modules[k].cmdline}

FirstImage ==
  LET image == modules[CHOOSE k \in Disks : \A l \in Disks : k <= l].image
  IN  IF image.signature \/ image.magic THEN image ELSE Disk!Temp

Listing(inputs) == [k \in DOMAIN inputs |-> [name |-> inputs[k].name]]

Contents(inputs, name) ==
  LET Named == {k \in DOMAIN inputs : inputs[k].name = name}
      file  == inputs[CHOOSE k \in Named : \A l \in Named : k <= l]
  IN  IF Named # {} /\ file.size < BufferSize THEN <<[text |-> Disk!Bytes(file)]>> ELSE <<>>

Promised ==
  IF Disks = {} THEN <<>>
  ELSE Listing(FirstImage.inputs)
         \o FlattenSeq([t \in DOMAIN Tests |-> Contents(FirstImage.inputs, Tests[t])])

(* What kmain logs through mount table, driver and image is the first      *)
(* disk, in whole and nothing else, also when later modules replace the    *)
(* image under the mount or are damaged, and none of it is logged twice.   *)
(* Only an image with a bad magic halts the machine in between.            *)
ShowsFirstDisk ==
  /\ IsPrefix(shown, Promised)
  /\ pc = "schedule" => shown = Promised
  /\ pc = "halted" => ~FirstImage.magic

(* test_read_file's buffer holds what was read and the end of the string.  *)
BufferFits == Len(delivered) < BufferSize

(* However many modules there are and whatever is in them, kmain comes to  *)
(* call schedule() or the machine halts: no listing goes on for ever.      *)
KmainFinishes == <>(pc \in {"schedule", "halted"})

=============================================================================
