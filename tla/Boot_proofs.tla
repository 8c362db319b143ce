----------------------------- MODULE Boot_proofs -----------------------------
(***************************************************************************)
(* kmain's loop over the boot modules, for any number of modules with any  *)
(* files: where it is, that what it reads fits its buffer, and that what   *)
(* it logs is the first disk.                                              *)
(***************************************************************************)
EXTENDS Boot, InitrdImage_proofs

(* The loop stays within the list the boot loader made.                    *)
ListOK ==
  \E n \in 0 .. MaxDisks :
    /\ mods_count \in {0, n + 1}
    /\ modules \in [1 .. n -> [image : Modules, cmdline : BOOLEAN]]

(* A file about to be read was opened in the image in use, was found to    *)
(* leave room in the buffer, and has not been read from.                   *)
Opened ==
  /\ Disk!ValidInode("fd")
  /\ fd["fd"].inode \in Nat
  /\ fd["fd"].position = 0
  /\ Fits

BootIInv ==
  /\ TypeOK
  /\ ListOK
  /\ initrd_header \in Modules \union {Disk!Temp, NULL}
  /\ fd = [d \in {"fd"} |-> fd[d]]
  /\ pc = "read" => Opened
  /\ BufferFits

-----------------------------------------------------------------------------
(* A list written place by place has the length it was written to.         *)
LEMMA LengthOf ==
  ASSUME NEW n \in Nat, NEW s, s = [k \in 1 .. n |-> s[k]]
  PROVE  Len(s) = n
PROOF
<1> DEFINE S == {s[k] : k \in 1 .. n}
<1>1. s \in [1 .. n -> S]
  OBVIOUS
<1>2. s \in Seq(S)
  BY <1>1, IsASeq
<1>3. DOMAIN s = 1 .. n /\ DOMAIN s = 1 .. Len(s) /\ Len(s) \in Nat
  BY <1>1, <1>2, LenProperties
<1> QED BY <1>3

(* A file that is listed has a size.                                       *)
LEMMA SizeOK ==
  ASSUME initrd_header \in Modules \union {Disk!Temp, NULL}, Disk!ValidInode("fd"),
         fd["fd"].inode \in Nat
  PROVE  Size \in Nat
PROOF
<1>1. PICK k \in Nat : k = fd["fd"].inode + 1
  OBVIOUS
<1>2. initrd_header # NULL /\ k \in 1 .. Len(initrd_header.inputs)
  BY <1>1 DEF Disk!ValidInode, Disk!Ready, Disk!num_files
<1>3. DOMAIN initrd_header.inputs = 1 .. Len(initrd_header.inputs)
  BY <1>2, ImagesAssumption DEF Disk!Temp
<1>4. initrd_header.inputs[k].size \in Nat
  BY <1>2, <1>3, ImagesAssumption DEF Disk!Temp
<1>5. Disk!files[k].size = initrd_header.inputs[k].size
  BY <1>2, <1>3 DEF Disk!files, Disk!Files
<1> QED BY <1>1, <1>4, <1>5 DEF Size, Disk!FileOf

(* kmain begins with nothing mounted and nothing read.                     *)
LEMMA BootInitOK == Init => BootIInv
PROOF
<1> SUFFICES ASSUME Init PROVE BootIInv
  OBVIOUS
<1>1. fd = [d \in {"fd"} |-> fd[d]] /\ initrd_header = NULL /\ delivered = <<>>
  BY DEF Init, Disk!Init
<1>2. BufferFits
  BY <1>1, BufferAssumption DEF BufferFits
<1>3. ListOK
  BY DEF Init, ListOK
<1>4. pc = "module" /\ i = 0 /\ test = 1
  BY DEF Init
<1>5. mods_count \in 0 .. MaxDisks + 1
  BY <1>3, BufferAssumption DEF ListOK
<1>6. TypeOK
  BY <1>4, <1>5 DEF TypeOK, Points, Tests
<1> QED BY <1>1, <1>2, <1>3, <1>4, <1>6 DEF BootIInv
-----------------------------------------------------------------------------
(***************************************************************************)
(* The steps of kmain.                                                     *)
(***************************************************************************)

(* What the descriptor, the image and the buffer are does not depend on    *)
(* steps that leave them alone.                                            *)
LEMMA FileKept ==
  ASSUME UNCHANGED <<initrd_header, fd, delivered>>, BootIInv
  PROVE  /\ initrd_header' \in Modules \union {Disk!Temp, NULL}
         /\ fd' = [d \in {"fd"} |-> fd'[d]]
         /\ BufferFits'
         /\ Opened => Opened'
PROOF
<1>1. Disk!ValidInode("fd") => Disk!ValidInode("fd")'
  BY DEF Disk!ValidInode, Disk!Ready, Disk!num_files
<1>2. Fits => Fits'
  BY DEF Fits, Size, Disk!FileOf, Disk!files, Disk!num_files
<1> QED BY <1>1, <1>2 DEF BootIInv, BufferFits, Opened

(* A step that gives kmain another place, of those with or without a       *)
(* module.                                                                 *)
LEMMA Goes ==
  ASSUME BootIInv, UNCHANGED <<mods_count, modules>>,
         pc' \in Points, i' \in 0 .. mods_count, test' \in DOMAIN Tests,
         pc' \in {"mount", "root", "list", "open", "read"} => i' \in DOMAIN modules,
         pc' = "read" => Opened',
         initrd_header' \in Modules \union {Disk!Temp, NULL},
         fd' = [d \in {"fd"} |-> fd'[d]], BufferFits'
  PROVE  BootIInv'
PROOF
<1>1. ListOK'
  BY DEF BootIInv, ListOK
<1>2. TypeOK'
  BY DEF BootIInv, TypeOK, Opened
<1> QED BY <1>1, <1>2 DEF BootIInv

(* A module of the list is one the loop has not passed.                    *)
LEMMA AtModule ==
  ASSUME BootIInv, i > 0, i < mods_count
  PROVE  i \in DOMAIN modules /\ modules[i].image \in Modules
PROOF
<1>1. PICK n \in 0 .. MaxDisks :
        mods_count \in {0, n + 1} /\ modules \in [1 .. n -> [image : Modules, cmdline : BOOLEAN]]
  BY DEF BootIInv, ListOK
<1>2. i \in Int /\ n \in Int
  BY BufferAssumption DEF BootIInv, TypeOK
<1>3. i \in 1 .. n
  BY <1>1, <1>2
<1> QED BY <1>1, <1>3

(* In a call for a module the index can be counted up.                     *)
LEMMA IndexGrows ==
  ASSUME BootIInv, i \in DOMAIN modules
  PROVE  i + 1 \in 0 .. mods_count
PROOF
<1>1. PICK n \in 0 .. MaxDisks :
        mods_count \in {0, n + 1} /\ modules \in [1 .. n -> [image : Modules, cmdline : BOOLEAN]]
  BY DEF BootIInv, ListOK
<1>2. i \in 1 .. n /\ n \in Int
  BY <1>1, BufferAssumption
<1>3. i \in 0 .. mods_count
  BY DEF BootIInv, TypeOK
<1> QED BY <1>1, <1>2, <1>3

(* The next test, or the next module.                                      *)
LEMMA NextTestOK ==
  ASSUME BootIInv, NextTest, i \in DOMAIN modules, UNCHANGED <<mods_count, modules>>,
         initrd_header' \in Modules \union {Disk!Temp, NULL},
         fd' = [d \in {"fd"} |-> fd'[d]], BufferFits'
  PROVE  BootIInv'
PROOF
<1>1. DOMAIN Tests = 1 .. 3 /\ Len(Tests) = 3 /\ test \in 1 .. 3
  BY DEF Tests, BootIInv, TypeOK
<1>2. CASE test < Len(Tests)
  <2>1. pc' = "open" /\ test' = test + 1 /\ i' = i
    BY <1>2 DEF NextTest, Goto
  <2>2. i \in 0 .. mods_count
    BY DEF BootIInv, TypeOK
  <2> QED BY <1>1, <1>2, <2>1, <2>2, Goes DEF Points
<1>3. CASE ~(test < Len(Tests))
  <2>1. pc' = "module" /\ test' = 1 /\ i' = i + 1
    BY <1>3 DEF NextTest, NextModule, Goto
  <2>2. i + 1 \in 0 .. mods_count
    BY IndexGrows
  <2> QED BY <1>1, <2>1, <2>2, Goes DEF Points
<1> QED BY <1>2, <1>3

(* init_initrd finds an image in the module, or keeps or makes one.        *)
LEMMA InitDiskOK ==
  ASSUME BootIInv, InitDisk
  PROVE  BootIInv'
PROOF
<1>1. i \in DOMAIN modules /\ modules[i].image \in Modules
  BY AtModule DEF InitDisk
<1>2. UNCHANGED <<fd, delivered>> /\ initrd_header' \in {modules[i].image, initrd_header, Disk!Temp}
  BY DEF InitDisk, Disk!InitInitrd
<1>3. initrd_header' \in Modules \union {Disk!Temp, NULL}
  BY <1>1, <1>2 DEF BootIInv
<1>4. fd' = [d \in {"fd"} |-> fd'[d]] /\ BufferFits'
  BY <1>2 DEF BootIInv, BufferFits
<1>5. pc' = "mount" /\ UNCHANGED <<mods_count, modules, i, test>>
  BY DEF InitDisk, Goto
<1>6. pc' \in Points /\ i' \in 0 .. mods_count /\ test' \in DOMAIN Tests
  BY <1>5 DEF BootIInv, TypeOK, Points
<1> QED BY <1>1, <1>3, <1>4, <1>5, <1>6, Goes

(* The steps of the loop that touch no file.                               *)
LEMMA LoopOK ==
  ASSUME BootIInv,
         CreateFirst \/ SkipModule \/ MountDisk \/ MountRefused \/ KmainSchedules
  PROVE  BootIInv'
PROOF
<1>1. UNCHANGED <<initrd_header, fd, delivered, mods_count, modules, test>>
  BY DEF CreateFirst, SkipModule, MountDisk, MountRefused, KmainSchedules, initrdVars
<1>2. /\ initrd_header' \in Modules \union {Disk!Temp, NULL}
      /\ fd' = [d \in {"fd"} |-> fd'[d]]
      /\ BufferFits'
  BY <1>1, FileKept
<1>3. \/ pc' \in {"module"} /\ i' = i + 1 /\ i + 1 \in 0 .. mods_count
      \/ pc' = "root" /\ i' = i /\ i \in DOMAIN modules
      \/ pc' = "schedule" /\ i' = i
  <2>1. i \in 0 .. mods_count /\ mods_count \in Nat
    BY BufferAssumption DEF BootIInv, TypeOK
  <2>2. CASE CreateFirst \/ SkipModule
    BY <2>1, <2>2 DEF CreateFirst, SkipModule, NextModule, Goto
  <2>3. CASE MountDisk
    BY <2>3 DEF MountDisk, Goto, BootIInv, TypeOK
  <2>4. CASE MountRefused
    <3>1. i \in DOMAIN modules
      BY <2>4 DEF MountRefused, BootIInv, TypeOK
    <3> QED BY <2>4, <3>1, IndexGrows DEF MountRefused, NextModule, Goto
  <2>5. CASE KmainSchedules
    BY <2>5 DEF KmainSchedules, Goto
  <2> QED BY <2>2, <2>3, <2>4, <2>5
<1>4. pc' \in Points /\ pc' # "read" /\ test' \in DOMAIN Tests /\ i \in 0 .. mods_count
  BY <1>1, <1>3 DEF Points, BootIInv, TypeOK
<1> QED BY <1>1, <1>2, <1>3, <1>4, Goes

(* Listing the root directory uses the descriptor and not the buffer.      *)
LEMMA ListingOK ==
  ASSUME BootIInv, OpenRoot \/ ReadDirectory
  PROVE  BootIInv'
PROOF
<1>1. i \in DOMAIN modules /\ i \in 0 .. mods_count /\ test \in DOMAIN Tests
  BY DEF OpenRoot, ReadDirectory, BootIInv, TypeOK
<1>2. /\ UNCHANGED <<initrd_header, delivered, mods_count, modules, i, test>>
      /\ pc' \in {"list", "open"}
      /\ \/ fd' = fd
         \/ fd' = [fd EXCEPT !["fd"] = [inode |-> NULL, position |-> 0, type |-> "directory"]]
  BY DEF OpenRoot, ReadDirectory, Goto, initrdVars, Disk!OpenRoot, Disk!headerVars,
       Disk!ReaddirNext, Disk!ReaddirEnd
<1>3. fd' = [d \in {"fd"} |-> fd'[d]]
  BY <1>2 DEF BootIInv
<1>4. initrd_header' \in Modules \union {Disk!Temp, NULL} /\ BufferFits'
  BY <1>2 DEF BootIInv, BufferFits
<1>5. pc' \in Points /\ pc' # "read"
  BY <1>2 DEF Points
<1> QED BY <1>1, <1>2, <1>3, <1>4, <1>5, Goes

(* A file that is found is one of the image, at its beginning.             *)
LEMMA OpenTestOK ==
  ASSUME BootIInv, OpenTest
  PROVE  BootIInv'
PROOF
<1>1. i \in DOMAIN modules /\ i \in 0 .. mods_count /\ test \in DOMAIN Tests
  BY DEF OpenTest, BootIInv, TypeOK
<1>2. Disk!Ready /\ UNCHANGED <<initrd_header, delivered, mods_count, modules>>
  BY DEF OpenTest, Disk!OpenFile, Disk!headerVars
<1>3. PICK k \in 1 .. Disk!num_files :
        fd' = [fd EXCEPT !["fd"] = [inode |-> k - 1, position |-> 0, type |-> "file"]]
  BY DEF OpenTest, Disk!OpenFile
<1>4. Len(initrd_header.inputs) \in Nat
  BY <1>2, ImagesAssumption DEF BootIInv, Disk!Ready, Disk!Temp
<1>5. k - 1 \in Nat /\ k - 1 < Len(initrd_header.inputs)
  BY <1>4 DEF Disk!num_files
<1>6. fd' = [d \in {"fd"} |-> fd'[d]] /\ fd'["fd"] = [inode |-> k - 1, position |-> 0, type |-> "file"]
  BY <1>3 DEF BootIInv
<1>7. fd'["fd"] # NULL /\ fd'["fd"].inode # NULL
  BY <1>5, <1>6, BootNullAssumption
<1>8. Disk!ValidInode("fd")'
  BY <1>2, <1>5, <1>6, <1>7 DEF Disk!ValidInode, Disk!Ready, Disk!num_files
<1>9. initrd_header' \in Modules \union {Disk!Temp, NULL} /\ BufferFits'
  BY <1>2 DEF BootIInv, BufferFits
<1>10. CASE Fits'
  <2>1. pc' = "read" /\ UNCHANGED <<i, test>>
    BY <1>10 DEF OpenTest, Goto
  <2>2. Opened'
    BY <1>5, <1>6, <1>8, <1>10 DEF Opened
  <2> QED BY <1>1, <1>2, <1>6, <1>9, <2>1, <2>2, Goes DEF Points
<1>11. CASE ~Fits'
  <2>1. NextTest
    BY <1>11 DEF OpenTest
  <2> QED BY <1>1, <1>2, <1>6, <1>9, <2>1, NextTestOK
<1> QED BY <1>10, <1>11

(* A file that is not found leaves descriptor and buffer alone.            *)
LEMMA OpenFailsOK ==
  ASSUME BootIInv, OpenFails
  PROVE  BootIInv'
PROOF
<1>1. i \in DOMAIN modules /\ NextTest
  BY DEF OpenFails, BootIInv, TypeOK
<1>2. UNCHANGED <<initrd_header, fd, delivered, mods_count, modules>>
  BY DEF OpenFails, initrdVars
<1> QED BY <1>1, <1>2, FileKept, NextTestOK

(* No more is read than the file has.                                      *)
LEMMA ReadTestOK ==
  ASSUME BootIInv, ReadTest
  PROVE  BootIInv'
PROOF
<1>1. i \in DOMAIN modules /\ NextTest /\ Opened /\ UNCHANGED <<mods_count, modules>>
  BY DEF ReadTest, BootIInv, TypeOK
<1>2. CASE UNCHANGED initrdVars
  <2>1. UNCHANGED <<initrd_header, fd, delivered>>
    BY <1>2 DEF initrdVars
  <2> QED BY <1>1, <2>1, FileKept, NextTestOK
<1>3. CASE Disk!Read("fd", Size)
  <2>1. Size \in Nat /\ Size < BufferSize
    BY <1>1, SizeOK DEF Opened, Fits, BootIInv
  <2>2. PICK n \in 0 .. Size : n = Disk!ToRead("fd", Size)
    <3>1. Disk!FileOf("fd").size = Size /\ fd["fd"].position = 0
      BY <1>1 DEF Size, Opened
    <3> QED BY <2>1, <3>1 DEF Disk!ToRead
  <2>3. /\ delivered' = [k \in 1 .. n |-> delivered'[k]]
        /\ fd' = [fd EXCEPT !["fd"].position = @ + n]
        /\ initrd_header' = initrd_header
    <3>1. delivered' = [k \in 1 .. n |->
                          Disk!At(initrd_data, Disk!FileOf("fd").offset + fd["fd"].position + k - 1)]
      BY <1>3, <2>2 DEF Disk!Read
    <3>2. fd' = [fd EXCEPT !["fd"].position = @ + n] /\ initrd_header' = initrd_header
      BY <1>3, <2>2 DEF Disk!Read, Disk!headerVars
    <3> QED BY <3>1, <3>2
  <2>4. Len(delivered') = n
    BY <2>3, LengthOf
  <2>5. BufferFits'
    BY <2>1, <2>2, <2>4, BufferAssumption DEF BufferFits
  <2>6. fd' = [d \in {"fd"} |-> fd'[d]] /\ initrd_header' \in Modules \union {Disk!Temp, NULL}
    BY <2>3 DEF BootIInv
  <2> QED BY <1>1, <2>5, <2>6, NextTestOK
<1> QED BY <1>2, <1>3 DEF ReadTest

(* The machine halts.                                                      *)
LEMMA ReadFaultsOK ==
  ASSUME BootIInv, ReadFaults
  PROVE  BootIInv'
PROOF
<1>1. UNCHANGED <<initrd_header, fd, delivered, mods_count, modules, i, test>> /\ pc' = "halted"
  BY DEF ReadFaults, initrdVars, Goto
<1>2. i \in 0 .. mods_count /\ test \in DOMAIN Tests
  BY DEF BootIInv, TypeOK
<1> QED BY <1>1, <1>2, FileKept, Goes DEF Points

(* Each step of kmain keeps the invariant.                                 *)
LEMMA BootNextOK == BootIInv /\ [Next]_bootVars => BootIInv'
PROOF
<1> SUFFICES ASSUME BootIInv, [Next]_bootVars PROVE BootIInv'
  OBVIOUS
<1>1. CASE Next
  BY <1>1, LoopOK, InitDiskOK, ListingOK, OpenTestOK, OpenFailsOK, ReadTestOK, ReadFaultsOK DEF Next
<1>2. CASE UNCHANGED bootVars
  <2>1. UNCHANGED <<initrd_header, fd, delivered, mods_count, modules, pc, i, test>>
    BY <1>2 DEF bootVars, initrdVars, kmainVars
  <2>2. /\ pc \in Points /\ i \in 0 .. mods_count /\ test \in DOMAIN Tests
        /\ pc \in {"mount", "root", "list", "open", "read"} => i \in DOMAIN modules
        /\ pc = "read" => Opened
    BY DEF BootIInv, TypeOK
  <2> QED BY <2>1, <2>2, FileKept, Goes
<1> QED BY <1>1, <1>2

-----------------------------------------------------------------------------
(* Where kmain is and what it has opened, throughout its loop.             *)
THEOREM BootInvariance == Spec => []BootIInv
PROOF BY BootInitOK, BootNextOK, PTL DEF Spec

(* Types of kmain's variables: it never looks at a module that is not in   *)
(* the list, and never reads from a descriptor that stands for no file.    *)
THEOREM BootTypeCorrect == Spec => []TypeOK
PROOF
<1>1. BootIInv => TypeOK
  BY DEF BootIInv
<1> QED BY <1>1, BootInvariance, PTL

(* test_read_file (kmain.c) has room for what it reads and for the end of  *)
(* the string, whatever files the images have.                             *)
THEOREM BufferSuffices == Spec => []BufferFits
PROOF
<1>1. BootIInv => BufferFits
  BY DEF BootIInv
<1> QED BY <1>1, BootInvariance, PTL

-----------------------------------------------------------------------------
(***************************************************************************)
(* What kmain has logged, phase by phase.                                  *)
(***************************************************************************)

(* Names and contents that can be logged of an image.                      *)
Items(inputs) ==
  {[name |-> inputs[k].name] : k \in DOMAIN inputs}
    \union {[text |-> Disk!Bytes(inputs[k])] : k \in DOMAIN inputs}

Text(inputs, t) == Contents(inputs, Tests[t])

(* What is logged of an image before test t, of the three there are.       *)
Logged(inputs, t) ==
  LET one   == Listing(inputs) \o Text(inputs, 1)
      two   == one \o Text(inputs, 2)
      three == two \o Text(inputs, 3)
  IN  IF t = 1 THEN Listing(inputs) ELSE IF t = 2 THEN one ELSE IF t = 3 THEN two ELSE three

(* A listing that has come to the k-th name.                               *)
ListedTo(inputs, k, s) ==
  /\ k \in 0 .. Len(inputs)
  /\ s \in Seq(Items(inputs))
  /\ Len(s) = k
  /\ \A l \in 1 .. k : s[l] = Listing(inputs)[l]

(* The file find_file finds.                                               *)
FirstNamed(inputs, name, k) ==
  /\ k \in DOMAIN inputs
  /\ inputs[k].name = name
  /\ \A l \in 1 .. k - 1 : inputs[l].name # name

FirstInUse ==
  /\ Disks # {}
  /\ FirstImage \in Modules \union {Disk!Temp}
  /\ initrd_header = FirstImage
  /\ initrd_data = IF FirstImage.magic THEN Disk!Data(FirstImage.inputs) ELSE NULL

Unmounted ==
  /\ num_mount_points = 0
  /\ mount_points = [m \in V!Indices |-> NULL]
  /\ path_buffers = [m \in V!Indices |-> NULL]

Mounted ==
  /\ num_mount_points = 1
  /\ mount_points[0] = [path |-> 0, ops |-> "initrd"]
  /\ path_buffers[0] = <<>>

NothingShown == current_file = 0 /\ shown = <<>> /\ test = 1

(* The modules passed so far were no disks.                                *)
Before ==
  /\ pc \in {"module", "schedule"}
  /\ Unmounted /\ NothingShown
  /\ initrd_header = NULL /\ initrd_data = NULL
  /\ \A k \in Disks : i <= k
  /\ pc = "schedule" => Disks = {}

(* init_initrd has been called for the first disk.                         *)
Provided == pc = "mount" /\ i \in Disks /\ Unmounted /\ NothingShown /\ FirstInUse

Showing ==
  /\ Mounted /\ FirstInUse
  /\ LET inputs == FirstImage.inputs
     IN  \/ pc = "root" /\ NothingShown
         \/ pc = "list" /\ test = 1 /\ ListedTo(inputs, current_file, shown)
         \/ /\ pc \in {"open", "read", "halted"}
            /\ shown = Logged(inputs, test)
            /\ pc = "read" => FirstNamed(inputs, Tests[test], fd["fd"].inode + 1)
            /\ pc = "halted" => ~FirstImage.magic

(* Later modules are refused the mount.                                    *)
After ==
  /\ pc \in {"module", "mount", "schedule"}
  /\ Disks # {} /\ Mounted /\ shown = Promised

ShowIInv == BootIInv /\ (Before \/ Provided \/ Showing \/ After)

(* What the image tool laid out is what the driver finds: Disk's notion of *)
(* an image is that of InitrdImage.                                        *)
LEMMA SameImage ==
  /\ \A input : Disk!Bytes(input) = Bytes(input)
  /\ \A inputs : Disk!Data(inputs) = Data(inputs)
  /\ \A inputs, k : Disk!Offset(inputs, k) = Offset(inputs, k)
PROOF
<1>1. \A input : Disk!Bytes(input) = Bytes(input)
  BY DEF Disk!Bytes, Bytes
<1>2. ASSUME NEW inputs PROVE Disk!Data(inputs) = Data(inputs)
  <2>1. [k \in DOMAIN inputs |-> Disk!Bytes(inputs[k])] = [k \in DOMAIN inputs |-> Bytes(inputs[k])]
    BY <1>1
  <2>2. \A seqs : Disk!FlattenSeq(seqs) = FlattenSeq(seqs)
    BY Zenon DEF Disk!FlattenSeq, FlattenSeq
  <2> QED BY <2>1, <2>2 DEF Disk!Data, Data
<1>3. \A inputs, k : Disk!Offset(inputs, k) = Offset(inputs, k)
  BY Zenon DEF Disk!Offset, Offset
<1> QED BY <1>1, <1>2, <1>3

(* Of some of the first n numbers one is the least.                        *)
LEMMA Least ==
  ASSUME NEW n \in Nat, NEW D, D \subseteq 1 .. n, D # {}
  PROVE  \E k \in D : \A l \in D : k <= l
PROOF
<1> SUFFICES ASSUME \A k \in D : \E l \in D : l < k PROVE FALSE
  OBVIOUS
<1> DEFINE S == {m \in 1 .. n : \A l \in 1 .. m : l \notin D}
<1>1. n # 0
  <2>1. PICK d \in D : d \in 1 .. n
    OBVIOUS
  <2> QED BY <2>1
<1>2. 1 \in S
  BY <1>1
<1>3. ASSUME NEW m \in 1 .. n - 1, m \in S PROVE m + 1 \in S
  <2>1. m + 1 \in 1 .. n /\ \A l \in 1 .. m : l \notin D
    BY <1>3
  <2>2. m + 1 \notin D
    BY <2>1
  <2> QED BY <2>1, <2>2
<1>4. n \in S
  <2> HIDE DEF S
  <2>1. n \in 1 .. n
    BY <1>1
  <2> QED BY <1>2, <1>3, <2>1, UpTo
<1> QED BY <1>4

(* If a file of an image has the name, one of them is the first.           *)
LEMMA SomeFirst ==
  ASSUME NEW inputs, IsInputs(inputs), NEW name,
         \E k \in DOMAIN inputs : inputs[k].name = name
  PROVE  \E k \in DOMAIN inputs : FirstNamed(inputs, name, k)
PROOF
<1> DEFINE Named == {k \in DOMAIN inputs : inputs[k].name = name}
<1>1. DOMAIN inputs = 1 .. Len(inputs) /\ Len(inputs) \in Nat
  BY DEF IsInputs
<1>2. PICK k \in Named : \A l \in Named : k <= l
  <2>1. Named \subseteq 1 .. Len(inputs) /\ Named # {}
    BY <1>1
  <2> HIDE DEF Named
  <2> QED BY <1>1, <2>1, Least
<1>3. ASSUME NEW l \in 1 .. k - 1 PROVE inputs[l].name # name
  BY <1>1, <1>2
<1> QED BY <1>2, <1>3 DEF FirstNamed

(* The names of an image, in order.                                        *)
LEMMA ListingIs ==
  ASSUME NEW inputs, IsInputs(inputs)
  PROVE  /\ Listing(inputs) \in Seq(Items(inputs))
         /\ Len(Listing(inputs)) = Len(inputs)
         /\ \A k \in 1 .. Len(inputs) : Listing(inputs)[k] = [name |-> inputs[k].name]
PROOF
<1> DEFINE n == Len(inputs)
<1>1. n \in Nat /\ DOMAIN inputs = 1 .. n
  BY DEF IsInputs
<1>2. Listing(inputs) = [k \in 1 .. n |-> [name |-> inputs[k].name]]
  BY <1>1 DEF Listing
<1>3. Listing(inputs) \in [1 .. n -> Items(inputs)]
  BY <1>1, <1>2 DEF Items
<1> HIDE DEF n
<1>4. Listing(inputs) \in Seq(Items(inputs))
  BY <1>1, <1>3, IsASeq
<1>5. Listing(inputs) = [k \in 1 .. n |-> Listing(inputs)[k]]
  BY <1>3
<1>6. Len(Listing(inputs)) = n
  BY <1>1, <1>5, LengthOf
<1> QED BY <1>2, <1>4, <1>6 DEF n

(* The contents a test logs are those of the first file with its name, if  *)
(* the buffer holds it.                                                    *)
LEMMA TextIs ==
  ASSUME NEW inputs, IsInputs(inputs), NEW t \in 1 .. 3
  PROVE  /\ \A k : FirstNamed(inputs, Tests[t], k) =>
              Text(inputs, t) = IF inputs[k].size < BufferSize
                                THEN <<[text |-> Disk!Bytes(inputs[k])]>> ELSE <<>>
         /\ (\A k \in DOMAIN inputs : inputs[k].name # Tests[t]) => Text(inputs, t) = <<>>
         /\ Text(inputs, t) \in Seq(Items(inputs))
PROOF
<1> PICK name : name = Tests[t]
  OBVIOUS
<1> DEFINE Named == {k \in DOMAIN inputs : inputs[k].name = name}
<1>1. DOMAIN inputs = 1 .. Len(inputs) /\ Len(inputs) \in Nat
  BY DEF IsInputs
<1>2. ASSUME NEW k, FirstNamed(inputs, name, k)
      PROVE  /\ k \in Named
             /\ (CHOOSE j \in Named : \A l \in Named : j <= l) = k
  <2>1. k \in Named /\ k \in Nat
    BY <1>1, <1>2 DEF FirstNamed
  <2>2. \A l \in Named : k <= l
    BY <1>1, <1>2 DEF FirstNamed
  <2>3. \A j \in Named : (\A l \in Named : j <= l) => j = k
    <3> SUFFICES ASSUME NEW j \in Named, \A l \in Named : j <= l PROVE j = k
      OBVIOUS
    <3>1. j <= k /\ k <= j /\ j \in Nat
      BY <1>1, <2>1, <2>2
    <3> QED BY <2>1, <3>1
  <2> HIDE DEF Named
  <2> QED BY <2>1, <2>2, <2>3
<1>3. ASSUME NEW k, FirstNamed(inputs, name, k)
      PROVE  Text(inputs, t) = IF inputs[k].size < BufferSize
                               THEN <<[text |-> Disk!Bytes(inputs[k])]>> ELSE <<>>
  <2>1. Named # {} /\ (CHOOSE j \in Named : \A l \in Named : j <= l) = k
    BY <1>2, <1>3
  <2>2. Text(inputs, t) =
          IF Named # {} /\ inputs[CHOOSE j \in Named : \A l \in Named : j <= l].size < BufferSize
          THEN <<[text |-> Disk!Bytes(inputs[CHOOSE j \in Named : \A l \in Named : j <= l])]>>
          ELSE <<>>
    BY DEF Text, Contents
  <2> HIDE DEF Named
  <2> QED BY <2>1, <2>2
<1>4. (\A k \in DOMAIN inputs : inputs[k].name # name) => Text(inputs, t) = <<>>
  <2> SUFFICES ASSUME \A k \in DOMAIN inputs : inputs[k].name # name PROVE Text(inputs, t) = <<>>
    OBVIOUS
  <2>1. Named = {}
    OBVIOUS
  <2> QED BY <2>1 DEF Text, Contents
<1>5. Text(inputs, t) \in Seq(Items(inputs))
  <2>1. CASE \A k \in DOMAIN inputs : inputs[k].name # name
    <3>1. Text(inputs, t) = <<>>
      BY <1>4, <2>1
    <3> QED BY <3>1, EmptySeq
  <2>2. CASE \E k \in DOMAIN inputs : inputs[k].name = name
    <3>1. PICK k \in DOMAIN inputs : FirstNamed(inputs, name, k)
      BY <2>2, SomeFirst
    <3>2. Text(inputs, t) \in {<<>>, <<[text |-> Disk!Bytes(inputs[k])]>>}
      BY <1>3, <3>1
    <3>3. [text |-> Disk!Bytes(inputs[k])] \in Items(inputs)
      BY DEF Items
    <3> PICK item : item = [text |-> Disk!Bytes(inputs[k])]
      OBVIOUS
    <3>4. <<item>> \in Seq(Items(inputs))
      BY <3>3
    <3> QED BY <3>2, <3>4, EmptySeq
  <2> QED BY <2>1, <2>2
<1> QED BY <1>3, <1>4, <1>5

(* Putting lists of items together gives one, whatever the grouping.       *)
LEMMA Joined == \A S : \A s, u \in Seq(S) : s \o u \in Seq(S)
PROOF BY ConcatProperties

(* The grouping makes no difference.                                       *)
LEMMA Regrouped ==
  \A S : \A s, u, v \in Seq(S) : (s \o u) \o v = s \o (u \o v)
PROOF
<1> SUFFICES ASSUME NEW S, NEW s \in Seq(S), NEW u \in Seq(S), NEW v \in Seq(S)
             PROVE  (s \o u) \o v = s \o (u \o v)
  OBVIOUS
<1> QED BY ConcatAssociative

(* What is logged before a test, and before the next.                      *)
LEMMA LoggedSteps ==
  ASSUME NEW inputs, IsInputs(inputs)
  PROVE  /\ Logged(inputs, 1) = Listing(inputs)
         /\ \A t \in 1 .. 3 : Logged(inputs, t + 1) = Logged(inputs, t) \o Text(inputs, t)
         /\ \A t \in 1 .. 4 : Logged(inputs, t) \in Seq(Items(inputs))
PROOF
<1> DEFINE L == Listing(inputs)
           T(t) == Text(inputs, t)
<1>1. Logged(inputs, 1) = L /\ Logged(inputs, 2) = L \o T(1)
  BY DEF Logged
<1>2. Logged(inputs, 3) = (L \o T(1)) \o T(2) /\ Logged(inputs, 4) = ((L \o T(1)) \o T(2)) \o T(3)
  BY DEF Logged
<1>3. L \in Seq(Items(inputs)) /\ \A t \in 1 .. 3 : T(t) \in Seq(Items(inputs))
  BY ListingIs, TextIs
<1> HIDE DEF L, T
<1>4. \A t \in 1 .. 3 : Logged(inputs, t + 1) = Logged(inputs, t) \o T(t)
  <2> SUFFICES ASSUME NEW t \in 1 .. 3 PROVE Logged(inputs, t + 1) = Logged(inputs, t) \o T(t)
    OBVIOUS
  <2>1. CASE t = 1
    <3>1. t + 1 = 2
      BY <2>1
    <3> QED BY <1>1, <2>1, <3>1, Zenon
  <2>2. CASE t = 2
    <3>1. t + 1 = 3
      BY <2>2
    <3> QED BY <1>1, <1>2, <2>2, <3>1, Zenon
  <2>3. CASE t = 3
    <3>1. t + 1 = 4
      BY <2>3
    <3> QED BY <1>2, <2>3, <3>1, Zenon
  <2> QED BY <2>1, <2>2, <2>3
<1> DEFINE S == Seq(Items(inputs))
<1>5. T(1) \in S /\ T(2) \in S /\ T(3) \in S
  BY <1>3
<1>6. \A s, u \in S : s \o u \in S
  BY Joined
<1> HIDE DEF S
<1>7. Logged(inputs, 1) \in S /\ Logged(inputs, 2) \in S
  BY <1>1, <1>3, <1>5, <1>6, Zenon DEF S
<1>8. Logged(inputs, 3) \in S
  BY <1>1, <1>2, <1>7, <1>5, <1>6, Zenon
<1>9. Logged(inputs, 4) \in S
  BY <1>1, <1>2, <1>8, <1>5, <1>6, Zenon
<1>10. \A t \in 1 .. 4 : t = 1 \/ t = 2 \/ t = 3 \/ t = 4
  OBVIOUS
<1> QED BY <1>1, <1>4, <1>7, <1>8, <1>9, <1>10 DEF L, T, S

(* In the end that is what is promised.                                    *)
LEMMA AllLogged ==
  ASSUME NEW inputs, IsInputs(inputs)
  PROVE  Logged(inputs, 4) =
           Listing(inputs) \o FlattenSeq([t \in DOMAIN Tests |-> Contents(inputs, Tests[t])])
PROOF
<1> DEFINE L == Listing(inputs)
           T(t) == Text(inputs, t)
           seqs == [t \in DOMAIN Tests |-> Contents(inputs, Tests[t])]
<1>1. DOMAIN Tests = 1 .. 3
  BY DEF Tests
<1>2. seqs = [t \in 1 .. 3 |-> seqs[t]] /\ \A t \in 1 .. 3 : seqs[t] = T(t)
  BY <1>1 DEF Text
<1>3. Logged(inputs, 4) = ((L \o T(1)) \o T(2)) \o T(3)
  BY DEF Logged
<1>4. L \in Seq(Items(inputs)) /\ \A t \in 1 .. 3 : T(t) \in Seq(Items(inputs))
  BY ListingIs, TextIs
<1> HIDE DEF L, T, seqs
<1>5. Len(seqs) = 3
  BY <1>2, LengthOf
<1>6. PICK f : /\ f[1] = seqs[1]
               /\ \A m \in 1 .. Len(seqs) - 1 : f[m + 1] = f[m] \o seqs[m + 1]
               /\ FlattenSeq(seqs) = f[Len(seqs)]
  <2>1. Len(seqs) \in Nat /\ Len(seqs) # 0
    BY <1>5
  <2> QED BY <2>1, FlattenSteps
<1>7. f[1] = T(1) /\ f[2] = f[1] \o T(2) /\ f[3] = f[2] \o T(3) /\ FlattenSeq(seqs) = f[3]
  <2>1. ASSUME NEW m \in 1 .. 2, NEW k, k = m + 1 PROVE f[k] = f[m] \o seqs[k]
    <3>1. m \in 1 .. Len(seqs) - 1
      BY <1>5
    <3> QED BY <1>6, <2>1, <3>1, Zenon
  <2>2. 1 \in 1 .. 2 /\ 2 \in 1 .. 2 /\ 2 = 1 + 1 /\ 3 = 2 + 1
    OBVIOUS
  <2>3. f[2] = f[1] \o seqs[2] /\ f[3] = f[2] \o seqs[3]
    BY <2>1, <2>2, Zenon
  <2>4. seqs[1] = T(1) /\ seqs[2] = T(2) /\ seqs[3] = T(3)
    BY <1>2
  <2> QED BY <1>5, <1>6, <2>3, <2>4, Zenon
<1> DEFINE X == Seq(Items(inputs))
<1>8. L \in X /\ T(1) \in X /\ T(2) \in X /\ T(3) \in X
  BY <1>4
<1>9. \A s, u \in X : s \o u \in X
  BY Joined
<1>10. \A s, u, v \in X : (s \o u) \o v = s \o (u \o v)
  BY Regrouped
<1> HIDE DEF X
<1> DEFINE both == T(1) \o T(2)
<1>11. (L \o T(1)) \o T(2) = L \o both
  BY <1>8, <1>10, Zenon
<1>12. both \in X
  BY <1>8, <1>9, Zenon
<1>13. FlattenSeq(seqs) = both \o T(3)
  BY <1>7, Zenon
<1> HIDE DEF both
<1>14. (L \o both) \o T(3) = L \o (both \o T(3))
  <2>1. \A s, v \in X : (s \o both) \o v = s \o (both \o v)
    BY <1>10, <1>12, Zenon
  <2> QED BY <1>8, <2>1, Zenon
<1>15. Logged(inputs, 4) = L \o FlattenSeq(seqs)
  BY <1>3, <1>11, <1>13, <1>14, Zenon
<1> QED BY <1>15 DEF L, seqs

(* Sequences that agree as far as the shorter one goes.                    *)
LEMMA PrefixIf ==
  ASSUME NEW S, NEW s \in Seq(S), NEW u \in Seq(S), Len(s) <= Len(u),
         \A k \in 1 .. Len(s) : s[k] = u[k]
  PROVE  IsPrefix(s, u)
PROOF
<1>1. Len(s) \in Nat /\ Len(u) \in Nat
  BY LenProperties
<1>2. PICK n \in Nat : n = Len(s)
  BY <1>1
<1>3. (\A k \in 1 .. n : s[k] \in S) /\ (\A k \in 1 .. n : u[k] \in S)
  BY <1>1, <1>2, ElementOfSeq
<1>4. SubSeq(s, 1, n) \in Seq(S) /\ Len(SubSeq(s, 1, n)) = (IF 1 <= n THEN n - 1 + 1 ELSE 0)
      /\ \A k \in 1 .. n - 1 + 1 : SubSeq(s, 1, n)[k] = s[1 + k - 1]
  BY <1>3, SubSeqProperties
<1>5. SubSeq(u, 1, n) \in Seq(S) /\ Len(SubSeq(u, 1, n)) = (IF 1 <= n THEN n - 1 + 1 ELSE 0)
      /\ \A k \in 1 .. n - 1 + 1 : SubSeq(u, 1, n)[k] = u[1 + k - 1]
  BY <1>3, SubSeqProperties
<1>6. (IF 1 <= n THEN n - 1 + 1 ELSE 0) = n /\ n - 1 + 1 = n /\ \A k \in 1 .. n : 1 + k - 1 = k
  OBVIOUS
<1>7. Len(SubSeq(s, 1, n)) = Len(SubSeq(u, 1, n))
      /\ \A k \in 1 .. Len(SubSeq(s, 1, n)) : SubSeq(s, 1, n)[k] = SubSeq(u, 1, n)[k]
  BY <1>2, <1>4, <1>5, <1>6
<1>8. SubSeq(s, 1, n) = SubSeq(u, 1, n)
  BY <1>4, <1>5, <1>7, SeqEqual
<1> QED BY <1>2, <1>8 DEF IsPrefix

(* What is logged first is a prefix of what is logged with more after it.  *)
LEMMA PrefixGrows ==
  ASSUME NEW S, NEW s \in Seq(S), NEW u \in Seq(S), NEW t \in Seq(S), IsPrefix(s, u)
  PROVE  IsPrefix(s, u \o t)
PROOF
<1>1. Len(s) \in Nat /\ Len(u) \in Nat /\ Len(t) \in Nat
  BY LenProperties
<1>2. Len(s) <= Len(u) /\ SubSeq(s, 1, Len(s)) = SubSeq(u, 1, Len(s))
  BY DEF IsPrefix
<1>3. PICK n \in Nat : n = Len(s)
  BY <1>1
<1>4. (\A k \in 1 .. n : s[k] \in S) /\ (\A k \in 1 .. n : u[k] \in S)
  BY <1>1, <1>2, <1>3, ElementOfSeq
<1>5. \A k \in 1 .. n - 1 + 1 : SubSeq(s, 1, n)[k] = s[1 + k - 1]
  BY <1>4, SubSeqProperties
<1>6. \A k \in 1 .. n - 1 + 1 : SubSeq(u, 1, n)[k] = u[1 + k - 1]
  BY <1>4, SubSeqProperties
<1>7. n - 1 + 1 = n /\ \A k \in 1 .. n : 1 + k - 1 = k
  OBVIOUS
<1>8. \A k \in 1 .. n : s[k] = u[k]
  BY <1>2, <1>3, <1>5, <1>6, <1>7
<1> PICK w : w = u \o t
  OBVIOUS
<1>9. w \in Seq(S) /\ Len(w) = Len(u) + Len(t)
  BY Appended
<1>10. \A k \in 1 .. Len(u) : w[k] = u[k]
  BY Appended
<1>11. Len(s) <= Len(w) /\ \A k \in 1 .. Len(s) : s[k] = w[k]
  BY <1>1, <1>2, <1>3, <1>8, <1>9, <1>10
<1> QED BY <1>9, <1>11, PrefixIf

(* Whatever is logged at some test, or while listing, is a beginning of    *)
(* all there is to log.                                                    *)
LEMMA Beginnings ==
  ASSUME NEW inputs, IsInputs(inputs)
  PROVE  /\ \A t \in 1 .. 4 : IsPrefix(Logged(inputs, t), Logged(inputs, 4))
         /\ \A k, s : ListedTo(inputs, k, s) => IsPrefix(s, Logged(inputs, 4))
PROOF
<1> DEFINE S == Items(inputs)
           G(t) == Logged(inputs, t)
           T(t) == Text(inputs, t)
<1>1. /\ \A t \in 1 .. 3 : G(t + 1) = G(t) \o T(t)
      /\ \A t \in 1 .. 4 : G(t) \in Seq(S)
      /\ \A t \in 1 .. 3 : T(t) \in Seq(S)
  BY LoggedSteps, TextIs
<1>2. G(1) = Listing(inputs) /\ Len(Listing(inputs)) = Len(inputs) /\ Len(inputs) \in Nat
  BY LoggedSteps, ListingIs DEF IsInputs
<1>3. \A k, s : ListedTo(inputs, k, s) =>
        s \in Seq(S) /\ Len(s) = k /\ k \in 0 .. Len(inputs) /\ \A l \in 1 .. k : s[l] = G(1)[l]
  BY <1>2 DEF ListedTo
<1> HIDE DEF S, G, T
<1>4. G(1) \in Seq(S) /\ G(2) \in Seq(S) /\ G(3) \in Seq(S) /\ G(4) \in Seq(S)
      /\ T(1) \in Seq(S) /\ T(2) \in Seq(S) /\ T(3) \in Seq(S)
  BY <1>1
<1>5. G(2) = G(1) \o T(1) /\ G(3) = G(2) \o T(2) /\ G(4) = G(3) \o T(3)
  <2>1. /\ 1 \in 1 .. 3 /\ 2 \in 1 .. 3 /\ 3 \in 1 .. 3
        /\ 2 = 1 + 1 /\ 3 = 2 + 1 /\ 4 = 3 + 1
    OBVIOUS
  <2> QED BY <1>1, <2>1, Zenon
<1>6. ASSUME NEW s \in Seq(S), NEW t \in 1 .. 4, IsPrefix(s, G(t)) PROVE IsPrefix(s, G(4))
  <2>1. t = 1 => IsPrefix(s, G(2))
    BY <1>4, <1>5, <1>6, PrefixGrows
  <2>2. t \in {1, 2} => IsPrefix(s, G(3))
    BY <1>4, <1>5, <1>6, <2>1, PrefixGrows
  <2>3. t \in {1, 2, 3} => IsPrefix(s, G(4))
    BY <1>4, <1>5, <1>6, <2>2, PrefixGrows
  <2> QED BY <1>6, <2>3
<1>7. ASSUME NEW t \in 1 .. 4 PROVE IsPrefix(G(t), G(4))
  <2>1. G(t) \in Seq(S)
    BY <1>1
  <2>2. Len(G(t)) \in Nat
    BY <2>1, LenProperties
  <2>3. IsPrefix(G(t), G(t))
    BY DEF IsPrefix
  <2> QED BY <1>6, <2>1, <2>3
<1>8. ASSUME NEW k, NEW s, ListedTo(inputs, k, s) PROVE IsPrefix(s, G(4))
  <2>1. s \in Seq(S) /\ Len(s) <= Len(G(1)) /\ \A l \in 1 .. Len(s) : s[l] = G(1)[l]
    BY <1>2, <1>3, <1>8
  <2>2. IsPrefix(s, G(1))
    BY <1>4, <2>1, PrefixIf
  <2> QED BY <1>6, <2>1, <2>2
<1> QED BY <1>7, <1>8 DEF G

-----------------------------------------------------------------------------
(***************************************************************************)
(* The steps of kmain, for what they log.                                  *)
(***************************************************************************)

(* The boot loader's list, and so what is promised, does not change.       *)
LEMMA Rigid ==
  ASSUME UNCHANGED <<mods_count, modules>>
  PROVE  UNCHANGED <<Disks, FirstImage, Promised>>
PROOF
<1>1. Disks' = Disks
  BY DEF Disks
<1>2. FirstImage' = FirstImage
  BY <1>1 DEF FirstImage
<1>3. Promised' = Promised
  BY <1>1, <1>2 DEF Promised, Listing, Contents
<1> QED BY <1>1, <1>2, <1>3

(* The disks are among the first modules of the list.                      *)
LEMMA DisksListed ==
  ASSUME BootIInv
  PROVE  /\ mods_count \in Nat
         /\ \A k \in Disks : /\ k \in Nat /\ 0 < k /\ k < mods_count
                             /\ k \in DOMAIN modules /\ modules[k].image \in Modules
PROOF
<1>1. PICK n \in 0 .. MaxDisks :
        mods_count \in {0, n + 1} /\ modules \in [1 .. n -> [image : Modules, cmdline : BOOLEAN]]
  BY DEF BootIInv, ListOK
<1>2. n \in Nat /\ mods_count \in Nat
  BY <1>1, BufferAssumption
<1>3. ASSUME NEW k \in Disks PROVE k \in Nat /\ 0 < k /\ k < mods_count /\ k \in 1 .. n
  BY <1>1, <1>2 DEF Disks
<1> QED BY <1>1, <1>2, <1>3

(* If the first of the disks is at index k, this is its image, and the     *)
(* temporary one if there is none to be found in it.                       *)
LEMMA FirstAt ==
  ASSUME BootIInv, NEW k \in Disks, \A l \in Disks : k <= l
  PROVE  FirstImage = IF modules[k].image.signature \/ modules[k].image.magic
                      THEN modules[k].image ELSE Disk!Temp
PROOF
<1>1. \A j \in Disks : (\A l \in Disks : j <= l) => j = k
  <2> SUFFICES ASSUME NEW j \in Disks, \A l \in Disks : j <= l PROVE j = k
    OBVIOUS
  <2>1. j \in Nat /\ k \in Nat /\ j <= k /\ k <= j
    BY DisksListed
  <2> QED BY <2>1
<1>2. (CHOOSE j \in Disks : \A l \in Disks : j <= l) = k
  BY <1>1
<1> QED BY <1>2 DEF FirstImage

(* What is promised, if there is a disk at all.                            *)
LEMMA PromisedIs ==
  ASSUME BootIInv, Disks # {}
  PROVE  /\ FirstImage \in Modules \union {Disk!Temp}
         /\ IsInputs(FirstImage.inputs)
         /\ Promised = Logged(FirstImage.inputs, 4)
PROOF
<1>1. PICK k \in Disks : \A l \in Disks : k <= l
  <2>1. mods_count \in Nat /\ Disks \subseteq 1 .. mods_count
    BY DisksListed
  <2> QED BY <2>1, Least
<1>2. FirstImage \in Modules \union {Disk!Temp}
  BY <1>1, FirstAt, DisksListed
<1>3. IsInputs(FirstImage.inputs)
  BY <1>2, ImagesAssumption DEF Disk!Temp, IsInputs
<1>4. Promised = Logged(FirstImage.inputs, 4)
  BY <1>3, AllLogged DEF Promised
<1> QED BY <1>2, <1>3, <1>4

(* What files[] says of a file of the first disk.                          *)
LEMMA FilesOfFirst ==
  ASSUME BootIInv, FirstInUse, NEW inputs, inputs = FirstImage.inputs
  PROVE  /\ IsInputs(inputs)
         /\ Disk!num_files = Len(inputs)
         /\ DOMAIN Disk!files = DOMAIN inputs
         /\ \A k \in DOMAIN inputs :
              /\ Disk!files[k].name = inputs[k].name
              /\ Disk!files[k].size = inputs[k].size
              /\ Disk!files[k].offset = Offset(inputs, k)
PROOF
<1>1. IsInputs(inputs) /\ initrd_header.inputs = inputs
  BY PromisedIs DEF FirstInUse
<1>2. Disk!files = [k \in DOMAIN inputs |->
         [name |-> inputs[k].name, size |-> inputs[k].size, offset |-> Disk!Offset(inputs, k)]]
  BY <1>1 DEF Disk!files, Disk!Files
<1>3. \A k : Disk!Offset(inputs, k) = Offset(inputs, k)
  BY SameImage
<1>4. Disk!num_files = Len(inputs)
  BY <1>1 DEF Disk!num_files
<1> QED BY <1>1, <1>2, <1>3, <1>4

(* With the driver mounted at "/" every call is passed to it.              *)
LEMMA CallsPassed ==
  ASSUME Mounted
  PROVE  /\ V!FindMountPointByInode # NULL
         /\ V!FindMountPoint(<<>>) # NULL
         /\ \A name : V!FindMountPoint(<<name>>) # NULL
PROOF
<1>1. V!Mounts = {0} /\ V!PathOf(0) = <<>>
  BY DEF Mounted, V!Mounts, V!PathOf
<1>2. \A p : Len(p) \in Nat => V!BestMatch(p, 0)
  <2> SUFFICES ASSUME NEW p, Len(p) \in Nat PROVE V!BestMatch(p, 0)
    OBVIOUS
  <2>1. SubSeq(<<>>, 1, 0) = <<>> /\ SubSeq(p, 1, 0) = <<>>
    BY SubSeqEmpty
  <2>2. Len(<<>>) = 0
    OBVIOUS
  <2>3. V!IsPrefix(<<>>, p)
    BY <2>1, <2>2 DEF V!IsPrefix
  <2> QED BY <1>1, <2>3 DEF V!BestMatch
<1>3. \A p : Len(p) \in Nat => V!FindMountPoint(p) # NULL
  <2> SUFFICES ASSUME NEW p, Len(p) \in Nat PROVE V!FindMountPoint(p) # NULL
    OBVIOUS
  <2>1. \E m \in V!Mounts : V!BestMatch(p, m)
    BY <1>1, <1>2
  <2>2. (CHOOSE m \in V!Mounts : V!BestMatch(p, m)) = 0
    BY <1>1, <2>1
  <2>3. V!FindMountPoint(p) = mount_points[0].ops
    BY <2>1, <2>2, Zenon DEF V!FindMountPoint
  <2> QED BY <2>3, BootNullAssumption DEF Mounted
<1>4. Len(<<>>) \in Nat /\ \A name : Len(<<name>>) \in Nat
  OBVIOUS
<1>5. V!FindMountPointByInode # NULL
  BY BootNullAssumption DEF V!FindMountPointByInode, Mounted
<1> QED BY <1>3, <1>4, <1>5

Phase == Before \/ Provided \/ Showing \/ After

(* What does not change while the first disk is looked at.                 *)
LEMMA FirstKept ==
  ASSUME FirstInUse, UNCHANGED <<mods_count, modules, initrd_header, initrd_data>>
  PROVE  FirstInUse'
PROOF BY Rigid DEF FirstInUse

(* Nor after it.                                                           *)
LEMMA AfterKept ==
  ASSUME After, UNCHANGED <<mods_count, modules, shown>>, UNCHANGED V!mountVars,
         pc' \in {"module", "mount", "schedule"}
  PROVE  After'
PROOF BY Rigid DEF After, Mounted, V!mountVars

(* The loop outside the calls for a disk.                                  *)
LEMMA LoopShows ==
  ASSUME ShowIInv, CreateFirst \/ SkipModule \/ KmainSchedules
  PROVE  Phase'
PROOF
<1>1. /\ pc = "module" /\ pc' \in {"module", "schedule"}
      /\ UNCHANGED <<mods_count, modules, shown, test, current_file, initrd_header, initrd_data>>
      /\ UNCHANGED <<num_mount_points, mount_points, path_buffers>>
  BY DEF CreateFirst, SkipModule, KmainSchedules, NextModule, Goto, vfsVars, initrdVars
<1>2. CASE After
  BY <1>1, <1>2, AfterKept DEF Phase, V!mountVars
<1>3. CASE Before
  <2>1. Unmounted' /\ NothingShown' /\ initrd_header' = NULL /\ initrd_data' = NULL
    BY <1>1, <1>3 DEF Before, Unmounted, NothingShown
  <2>2. BootIInv /\ i \in Nat /\ Disks' = Disks /\ \A k \in Disks : i <= k
    BY <1>1, <1>3, Rigid, DisksListed DEF ShowIInv, BootIInv, TypeOK, Before
  <2>3. CASE CreateFirst
    <3>1. i' = 1 /\ pc' = "module"
      BY <2>3 DEF CreateFirst, NextModule, Goto
    <3>2. \A k \in Disks' : i' <= k
      BY <2>2, <3>1, DisksListed
    <3> QED BY <1>1, <2>1, <3>1, <3>2 DEF Phase, Before
  <2>4. CASE SkipModule
    <3>1. i' = i + 1 /\ pc' = "module" /\ i \notin Disks
      BY <2>4 DEF SkipModule, NextModule, Goto, Disks
    <3>2. \A k \in Disks' : i' <= k
      BY <2>2, <3>1, DisksListed
    <3> QED BY <1>1, <2>1, <3>1, <3>2 DEF Phase, Before
  <2>5. CASE KmainSchedules
    <3>1. i' = i /\ i >= mods_count
      BY <2>5 DEF KmainSchedules
    <3>2. Disks' = {}
      BY <2>2, <3>1, DisksListed
    <3> QED BY <1>1, <2>1, <3>2 DEF Phase, Before
  <2> QED BY <2>3, <2>4, <2>5
<1>4. Before \/ After
  BY <1>1 DEF ShowIInv, Provided, Showing
<1> QED BY <1>2, <1>3, <1>4

(* init_initrd: the first disk, or one more.                               *)
LEMMA InitDiskShows ==
  ASSUME ShowIInv, InitDisk
  PROVE  Phase'
PROOF
<1>1. /\ pc = "module" /\ pc' = "mount" /\ i > 0 /\ i < mods_count /\ modules[i].cmdline
      /\ Disk!InitInitrd(modules[i].image)
      /\ UNCHANGED <<mods_count, modules, i, shown, test, current_file>>
      /\ UNCHANGED <<num_mount_points, mount_points, path_buffers>>
  BY DEF InitDisk, Goto, vfsVars, Disk!InitInitrd
<1>2. CASE After
  BY <1>1, <1>2, AfterKept DEF Phase, V!mountVars
<1>3. CASE Before
  <2> PICK module : module = modules[i].image
    OBVIOUS
  <2>1. BootIInv /\ i \in Nat /\ mods_count \in Nat
    BY DisksListed DEF ShowIInv, BootIInv, TypeOK
  <2>2. i \in Disks /\ \A k \in Disks : i <= k
    BY <1>1, <1>3, <2>1 DEF Disks, Before
  <2>3. FirstImage = IF module.signature \/ module.magic THEN module ELSE Disk!Temp
    BY <2>1, <2>2, FirstAt
  <2>4. module \in Modules /\ module # NULL /\ module # Disk!Temp
    BY <2>1, <2>2, DisksListed, BootNullAssumption, TempAssumption
  <2>5. initrd_header = NULL /\ initrd_data = NULL
    BY <1>3 DEF Before
  <2>6. /\ initrd_header' = FirstImage
        /\ initrd_data' = IF FirstImage.magic THEN Disk!Data(FirstImage.inputs) ELSE NULL
    <3>1. CASE module.signature \/ module.magic
      BY <1>1, <2>3, <2>4, <2>5, <3>1 DEF Disk!InitInitrd
    <3>2. CASE ~(module.signature \/ module.magic)
      <4>1. FirstImage = Disk!Temp /\ Disk!Temp.magic = TRUE
        BY <2>3, <3>2 DEF Disk!Temp
      <4>2. initrd_header' = Disk!Temp /\ initrd_data' = Disk!Data(Disk!Temp.inputs)
        BY <1>1, <2>5, <3>2 DEF Disk!InitInitrd
      <4> QED BY <4>1, <4>2
    <3> QED BY <3>1, <3>2
  <2>7. FirstInUse'
    BY <1>1, <2>1, <2>2, <2>6, Rigid, PromisedIs DEF FirstInUse
  <2>8. Unmounted' /\ NothingShown'
    BY <1>1, <1>3 DEF Before, Unmounted, NothingShown
  <2>9. i' \in Disks'
    BY <1>1, <2>2, Rigid
  <2> QED BY <1>1, <2>7, <2>8, <2>9 DEF Phase, Provided
<1>4. Before \/ After
  BY <1>1 DEF ShowIInv, Provided, Showing
<1> QED BY <1>2, <1>3, <1>4

(* mount_fs: of the first disk, and of no other.                           *)
LEMMA MountShows ==
  ASSUME ShowIInv, MountDisk \/ MountRefused
  PROVE  Phase'
PROOF
<1>1. pc = "mount" /\ UNCHANGED <<mods_count, modules, shown, test, current_file, initrd_header, initrd_data>>
  BY DEF MountDisk, MountRefused, initrdVars
<1>2. CASE After
  <2>1. 0 \in V!Mounts /\ V!PathOf(0) = <<>>
    BY <1>2 DEF After, Mounted, V!Mounts, V!PathOf
  <2>2. MountRefused
    BY <2>1 DEF MountDisk, V!MountFs
  <2>3. UNCHANGED V!mountVars /\ pc' = "module"
    BY <2>2 DEF MountRefused, NextModule, Goto, vfsVars, V!mountVars
  <2> QED BY <1>1, <1>2, <2>3, AfterKept DEF Phase
<1>3. CASE Provided
  <2>1. V!Mounts = {}
    BY <1>3 DEF Provided, Unmounted, V!Mounts
  <2>2. MountDisk
    BY <2>1 DEF MountRefused
  <2>3. pc' = "root" /\ V!AddEntry(<<>>, "initrd", 0)
    BY <1>3, <2>2 DEF MountDisk, Goto, V!MountFs, Provided, Unmounted
  <2>4. 0 \in V!Indices
    BY DEF V!Indices
  <2>5. Mounted'
    BY <1>3, <2>3, <2>4 DEF Provided, Unmounted, Mounted, V!AddEntry
  <2>6. FirstInUse' /\ NothingShown'
    BY <1>1, <1>3, FirstKept DEF Provided, NothingShown
  <2> QED BY <2>3, <2>5, <2>6 DEF Phase, Showing
<1>4. Provided \/ After
  BY <1>1 DEF ShowIInv, Before, Showing
<1> QED BY <1>2, <1>3, <1>4

(* Opening "/", and reading its names until there are no more.             *)
LEMMA OpenRootShows ==
  ASSUME ShowIInv, OpenRoot
  PROVE  Phase'
PROOF
<1>1. pc = "root" /\ UNCHANGED <<mods_count, modules, shown, test>>
  BY DEF OpenRoot
<1>2. Mounted /\ FirstInUse /\ NothingShown
  BY <1>1 DEF ShowIInv, Before, Provided, Showing, After
<1>3. pc' = "list" /\ Disk!OpenRoot("fd")
  BY <1>2, CallsPassed DEF OpenRoot, Goto
<1>4. UNCHANGED <<current_file, initrd_header, initrd_data>>
  BY <1>3 DEF Disk!OpenRoot, Disk!headerVars
<1>5. Mounted'
  BY <1>2 DEF OpenRoot, V!PathCall, V!mountVars, Mounted
<1>6. FirstInUse'
  BY <1>1, <1>2, <1>4, FirstKept
<1>7. IsInputs(FirstImage.inputs)
  BY <1>2, PromisedIs DEF ShowIInv, FirstInUse
<1>8. ListedTo(FirstImage.inputs, 0, <<>>)
  BY <1>7, EmptySeq DEF ListedTo, IsInputs
<1>9. test' = 1 /\ ListedTo(FirstImage'.inputs, current_file', shown')
  BY <1>1, <1>2, <1>4, <1>8, Rigid DEF NothingShown
<1> QED BY <1>3, <1>5, <1>6, <1>9 DEF Phase, Showing

(* Each read of the directory logs the next name, or there is none left and *)
(* the tests begin.                                                         *)
LEMMA ReadDirectoryShows ==
  ASSUME ShowIInv, ReadDirectory
  PROVE  Phase'
PROOF
<1> DEFINE inputs == FirstImage.inputs
<1>1. pc = "list" /\ UNCHANGED <<mods_count, modules, test>>
      /\ UNCHANGED <<num_mount_points, mount_points, path_buffers>>
  BY DEF ReadDirectory, vfsVars
<1>2. Mounted /\ FirstInUse /\ test = 1 /\ ListedTo(inputs, current_file, shown)
  BY <1>1 DEF ShowIInv, Before, Provided, Showing, After
<1>3. Mounted' /\ inputs' = inputs /\ IsInputs(inputs)
  BY <1>1, <1>2, Rigid, PromisedIs DEF Mounted, ShowIInv, FirstInUse
<1>4. Disk!num_files = Len(inputs) /\ \A k \in DOMAIN inputs : Disk!files[k].name = inputs[k].name
  BY <1>2, FilesOfFirst DEF ShowIInv
<1>5. /\ current_file \in 0 .. Len(inputs) /\ shown \in Seq(Items(inputs))
      /\ Len(shown) = current_file /\ \A l \in 1 .. current_file : shown[l] = Listing(inputs)[l]
  BY <1>2 DEF ListedTo
<1>6. /\ DOMAIN inputs = 1 .. Len(inputs) /\ Len(inputs) \in Nat
      /\ Listing(inputs) \in Seq(Items(inputs)) /\ Len(Listing(inputs)) = Len(inputs)
      /\ \A k \in 1 .. Len(inputs) : Listing(inputs)[k] = [name |-> inputs[k].name]
  BY <1>3, ListingIs DEF IsInputs
<1>7. CASE Disk!ReaddirNext("fd") /\ Show([name |-> Disk!files[current_file + 1].name]) /\ pc' = pc
  <2>1. FirstInUse'
    BY <1>1, <1>2, <1>7, FirstKept DEF Disk!ReaddirNext, Disk!headerVars
  <2>2. current_file' = current_file + 1 /\ current_file < Len(inputs)
    BY <1>4, <1>7 DEF Disk!ReaddirNext
  <2>3. PICK k \in 1 .. Len(inputs) : k = current_file + 1
    BY <1>5, <1>6, <2>2
  <2> PICK item : item = [name |-> inputs[k].name]
    OBVIOUS
  <2>4. shown' = Append(shown, item)
    BY <1>4, <1>6, <1>7, <2>3 DEF Show
  <2>5. item \in Items(inputs) /\ item = Listing(inputs)[k]
    BY <1>6, <2>3 DEF Items
  <2>6. /\ shown' \in Seq(Items(inputs)) /\ Len(shown') = current_file + 1
        /\ \A l \in 1 .. Len(shown) : shown'[l] = shown[l]
        /\ shown'[Len(shown) + 1] = item
    BY <1>5, <2>4, <2>5, AppendProperties
  <2>7. \A l \in 1 .. k : shown'[l] = Listing(inputs)[l]
    <3> SUFFICES ASSUME NEW l \in 1 .. k PROVE shown'[l] = Listing(inputs)[l]
      OBVIOUS
    <3>1. CASE l = k
      BY <1>5, <2>3, <2>5, <2>6, <3>1
    <3>2. CASE l # k
      <4>1. l \in 1 .. current_file
        BY <1>5, <2>3, <3>2
      <4> QED BY <1>5, <2>6, <4>1
    <3> QED BY <3>1, <3>2
  <2>8. ListedTo(inputs, current_file', shown')
    BY <1>5, <1>6, <2>2, <2>3, <2>6, <2>7 DEF ListedTo
  <2> QED BY <1>1, <1>2, <1>3, <1>7, <2>1, <2>8 DEF Phase, Showing
<1>8. CASE Disk!ReaddirEnd("fd") /\ Goto("open") /\ shown' = shown
  <2>1. FirstInUse'
    BY <1>1, <1>2, <1>8, FirstKept DEF Disk!ReaddirEnd, Disk!headerVars
  <2>2. current_file = Len(inputs)
    BY <1>4, <1>5, <1>6, <1>8 DEF Disk!ReaddirEnd
  <2>3. shown = Listing(inputs)
    BY <1>5, <1>6, <2>2, SeqEqual
  <2>4. shown' = Logged(inputs', test')
    BY <1>1, <1>2, <1>3, <1>8, <2>3, LoggedSteps
  <2> QED BY <1>3, <1>8, <2>1, <2>4 DEF Phase, Showing, Goto
<1> QED BY <1>2, <1>7, <1>8, CallsPassed DEF ReadDirectory

(* After a test that has logged what it should.                            *)
LEMMA NextTestShows ==
  ASSUME BootIInv, Mounted', FirstInUse, FirstInUse', UNCHANGED <<mods_count, modules>>,
         NextTest, shown' = Logged(FirstImage.inputs, test) \o Text(FirstImage.inputs, test)
  PROVE  Phase'
PROOF
<1> DEFINE inputs == FirstImage.inputs
<1>1. IsInputs(inputs) /\ Promised = Logged(inputs, 4) /\ Disks' = Disks /\ Disks # {}
      /\ inputs' = inputs /\ Promised' = Promised
  BY PromisedIs, Rigid DEF FirstInUse
<1>2. test \in 1 .. 3 /\ Len(Tests) = 3
  BY DEF BootIInv, TypeOK, Tests
<1>3. shown' = Logged(inputs, test + 1)
  BY <1>1, <1>2, LoggedSteps
<1>4. CASE test < Len(Tests)
  <2>1. pc' = "open" /\ test' = test + 1
    BY <1>4 DEF NextTest, Goto
  <2> QED BY <1>1, <1>3, <2>1 DEF Phase, Showing
<1>5. CASE ~(test < Len(Tests))
  <2>1. pc' = "module" /\ test + 1 = 4
    BY <1>2, <1>5 DEF NextTest, NextModule, Goto
  <2> QED BY <1>1, <1>3, <2>1 DEF Phase, After
<1> QED BY <1>4, <1>5

(* Before the call of a test.                                              *)
LEMMA AtTest ==
  ASSUME ShowIInv, pc \in {"open", "read"}
  PROVE  /\ BootIInv /\ Mounted /\ FirstInUse /\ test \in 1 .. 3
         /\ shown = Logged(FirstImage.inputs, test)
         /\ IsInputs(FirstImage.inputs)
         /\ pc = "read" => FirstNamed(FirstImage.inputs, Tests[test], fd["fd"].inode + 1)
PROOF
<1>1. Showing /\ BootIInv
  BY DEF ShowIInv, Before, Provided, After
<1>2. FirstInUse
  BY <1>1 DEF Showing
<1>3. IsInputs(FirstImage.inputs)
  BY <1>1, <1>2, PromisedIs DEF FirstInUse
<1> QED BY <1>1, <1>2, <1>3 DEF Showing, BootIInv, TypeOK, Tests

(* A test that logs nothing.                                               *)
LEMMA NothingMore ==
  ASSUME NEW inputs, IsInputs(inputs), NEW t \in 1 .. 3, Text(inputs, t) = <<>>
  PROVE  Logged(inputs, t) \o Text(inputs, t) = Logged(inputs, t)
PROOF
<1>1. Logged(inputs, t) \in Seq(Items(inputs))
  BY LoggedSteps
<1> QED BY <1>1, ConcatEmptySeq

(* open_file: the file is there, and what it holds is read if it fits.     *)
LEMMA OpenTestShows ==
  ASSUME ShowIInv, OpenTest
  PROVE  Phase'
PROOF
<1> DEFINE inputs == FirstImage.inputs
<1>1. pc = "open" /\ Disk!OpenFile("fd", Tests[test]) /\ UNCHANGED <<mods_count, modules, shown>>
  BY DEF OpenTest
<1>2. BootIInv /\ FirstInUse /\ test \in 1 .. 3 /\ shown = Logged(inputs, test) /\ IsInputs(inputs)
  BY <1>1, AtTest
<1>3. Mounted'
  BY <1>1, AtTest DEF OpenTest, V!PathCall, V!mountVars, Mounted
<1>4. UNCHANGED <<initrd_header, initrd_data>>
  BY <1>1 DEF Disk!OpenFile, Disk!headerVars
<1>5. FirstInUse' /\ inputs' = inputs
  BY <1>1, <1>2, <1>4, FirstKept, Rigid
<1>6. DOMAIN inputs = 1 .. Len(inputs) /\ Len(inputs) \in Nat
  BY <1>2 DEF IsInputs
<1>7. PICK k \in DOMAIN inputs : /\ FirstNamed(inputs, Tests[test], k)
                                 /\ fd'["fd"] = [inode |-> k - 1, position |-> 0, type |-> "file"]
  <2>1. PICK k \in 1 .. Disk!num_files :
          /\ Disk!files[k].name = Tests[test]
          /\ \A l \in 1 .. k - 1 : Disk!files[l].name # Tests[test]
          /\ fd' = [fd EXCEPT !["fd"] = [inode |-> k - 1, position |-> 0, type |-> "file"]]
    BY <1>1 DEF Disk!OpenFile
  <2>2. /\ Disk!num_files = Len(inputs)
        /\ \A l \in DOMAIN inputs : Disk!files[l].name = inputs[l].name
    BY <1>2, FilesOfFirst
  <2>3. k \in DOMAIN inputs /\ k \in Nat /\ \A l \in 1 .. k - 1 : l \in DOMAIN inputs
    BY <1>6, <2>2
  <2>4. FirstNamed(inputs, Tests[test], k)
    BY <2>1, <2>2, <2>3 DEF FirstNamed
  <2>5. fd'["fd"] = [inode |-> k - 1, position |-> 0, type |-> "file"]
    BY <1>2, <2>1 DEF BootIInv
  <2> QED BY <2>3, <2>4, <2>5
<1>8. fd'["fd"].inode + 1 = k
  BY <1>6, <1>7
<1>9. CASE Fits'
  <2>1. pc' = "read" /\ test' = test
    BY <1>9 DEF OpenTest, Goto
  <2> QED BY <1>1, <1>2, <1>3, <1>5, <1>7, <1>8, <2>1 DEF Phase, Showing
<1>10. CASE ~Fits'
  <2>1. NextTest
    BY <1>10 DEF OpenTest
  <2>2. Disk!files' = Disk!files
    BY <1>4 DEF Disk!files
  <2>3. Size' = inputs[k].size
    <3>1. Size' = Disk!files[k].size
      BY <1>8, <2>2 DEF Size, Disk!FileOf
    <3> QED BY <1>2, <1>7, <3>1, FilesOfFirst
  <2>4. ~(inputs[k].size < BufferSize)
    BY <1>10, <2>3 DEF Fits
  <2>5. Text(inputs, test) = <<>>
    BY <1>2, <1>7, <2>4, TextIs
  <2>6. shown' = Logged(inputs, test) \o Text(inputs, test)
    BY <1>1, <1>2, <2>5, NothingMore
  <2> QED BY <1>1, <1>2, <1>3, <1>5, <2>1, <2>6, NextTestShows
<1> QED BY <1>9, <1>10

(* open_file: no file has the name.                                        *)
LEMMA OpenFailsShows ==
  ASSUME ShowIInv, OpenFails
  PROVE  Phase'
PROOF
<1> DEFINE inputs == FirstImage.inputs
<1>1. pc = "open" /\ UNCHANGED <<mods_count, modules, shown, initrd_header, initrd_data>> /\ NextTest
  BY DEF OpenFails, initrdVars
<1>2. BootIInv /\ Mounted /\ FirstInUse /\ test \in 1 .. 3 /\ shown = Logged(inputs, test) /\ IsInputs(inputs)
  BY <1>1, AtTest
<1>3. Mounted'
  BY <1>2 DEF OpenFails, V!PathCall, V!mountVars, Mounted
<1>4. FirstInUse'
  BY <1>1, <1>2, FirstKept
<1>5. \A k \in DOMAIN inputs : inputs[k].name # Tests[test]
  <2>1. \A k \in DOMAIN Disk!files : Disk!files[k].name # Tests[test]
    BY <1>2, CallsPassed DEF OpenFails
  <2> QED BY <1>2, <2>1, FilesOfFirst
<1>6. shown' = Logged(inputs, test) \o Text(inputs, test)
  BY <1>1, <1>2, <1>5, TextIs, NothingMore
<1> QED BY <1>1, <1>2, <1>3, <1>4, <1>6, NextTestShows

(* initrd_read delivers the file that was opened, from its first byte to   *)
(* its last: with the data of the image, or when there is nothing to read. *)
LEMMA ReadsFile ==
  ASSUME BootIInv, FirstInUse, Opened, ~NoData, Disk!Read("fd", Size),
         NEW inputs, inputs = FirstImage.inputs, NEW k \in DOMAIN inputs, k = fd["fd"].inode + 1
  PROVE  Size = inputs[k].size /\ delivered' = Disk!Bytes(inputs[k])
PROOF
<1>1. IsInputs(inputs)
  BY PromisedIs DEF FirstInUse
<1>2. inputs[k].size \in Nat
  BY <1>1 DEF IsInputs
<1>3. Disk!FileOf("fd").size = inputs[k].size /\ Disk!FileOf("fd").offset = Offset(inputs, k)
  BY FilesOfFirst DEF Disk!FileOf
<1>4. PICK n \in Nat : n = inputs[k].size
  BY <1>2
<1>5. Size = n /\ fd["fd"].position = 0 /\ Disk!ToRead("fd", Size) = n
  BY <1>3, <1>4 DEF Size, Opened, Disk!ToRead
<1>6. delivered' = [m \in 1 .. n |-> Disk!At(initrd_data, Offset(inputs, k) + 0 + m - 1)]
  BY <1>3, <1>5 DEF Disk!Read
<1>7. ASSUME NEW m \in 1 .. n
      PROVE  Disk!At(initrd_data, Offset(inputs, k) + 0 + m - 1) = <<inputs[k], m>>
  <2>1. initrd_data # NULL
    BY <1>5, <1>7 DEF NoData
  <2>2. initrd_data = Data(inputs)
    BY <2>1, SameImage DEF FirstInUse
  <2>3. /\ Len(Data(inputs)) \in Nat /\ Offset(inputs, k) \in Nat
        /\ Offset(inputs, k) + m <= Len(Data(inputs))
        /\ Data(inputs)[Offset(inputs, k) + m] = <<inputs[k], m>>
    BY <1>1, <1>4, DataLaidOut
  <2> PICK o \in Nat : o = Offset(inputs, k)
    BY <2>3
  <2> PICK d : d = Data(inputs)
    OBVIOUS
  <2>4. o + 0 + m - 1 < Len(d) /\ (o + 0 + m - 1) + 1 = o + m
    BY <2>3
  <2> QED BY <2>1, <2>2, <2>3, <2>4 DEF Disk!At
<1>8. Bytes(inputs[k]) = [m \in 1 .. n |-> <<inputs[k], m>>]
  BY <1>4 DEF Bytes
<1>9. delivered' = Bytes(inputs[k])
  BY <1>6, <1>7, <1>8
<1> QED BY <1>4, <1>5, <1>9, SameImage

(* What a test reads of its file is logged whole, and the next test is begun*)
(* or kmain goes on to the next module.                                     *)
LEMMA ReadTestShows ==
  ASSUME ShowIInv, ReadTest
  PROVE  Phase'
PROOF
<1> DEFINE inputs == FirstImage.inputs
<1>1. pc = "read" /\ ~NoData /\ NextTest /\ UNCHANGED <<mods_count, modules>>
      /\ UNCHANGED <<num_mount_points, mount_points, path_buffers>>
  BY DEF ReadTest, vfsVars
<1>2. BootIInv /\ Mounted /\ FirstInUse /\ test \in 1 .. 3 /\ shown = Logged(inputs, test)
      /\ IsInputs(inputs) /\ FirstNamed(inputs, Tests[test], fd["fd"].inode + 1)
  BY <1>1, AtTest
<1>3. Disk!Read("fd", Size) /\ Show([text |-> delivered'])
  BY <1>2, CallsPassed DEF ReadTest
<1>4. Opened
  BY <1>1, <1>2 DEF BootIInv
<1>5. Mounted' /\ FirstInUse'
  BY <1>1, <1>2, <1>3, FirstKept DEF Mounted, Disk!Read, Disk!headerVars
<1>6. PICK k \in DOMAIN inputs : k = fd["fd"].inode + 1
  BY <1>2 DEF FirstNamed
<1>7. Size = inputs[k].size /\ delivered' = Disk!Bytes(inputs[k])
  BY <1>1, <1>2, <1>3, <1>4, <1>6, ReadsFile
<1>8. inputs[k].size < BufferSize
  BY <1>4, <1>7 DEF Opened, Fits
<1> PICK item : item = [text |-> Disk!Bytes(inputs[k])]
  OBVIOUS
<1>9. Text(inputs, test) = <<item>>
  BY <1>2, <1>6, <1>8, TextIs
<1>10. shown' = Append(Logged(inputs, test), item)
  BY <1>2, <1>3, <1>7 DEF Show
<1>11. item \in Items(inputs) /\ Logged(inputs, test) \in Seq(Items(inputs))
  BY <1>2, LoggedSteps DEF Items
<1>12. shown' = Logged(inputs, test) \o Text(inputs, test)
  BY <1>9, <1>10, <1>11, AppendIsConcat
<1> QED BY <1>1, <1>2, <1>5, <1>12, NextTestShows

(* The page fault: there is data unless the magic was wrong.               *)
LEMMA ReadFaultsShows ==
  ASSUME ShowIInv, ReadFaults
  PROVE  Phase'
PROOF
<1>1. /\ pc = "read" /\ NoData /\ pc' = "halted"
      /\ UNCHANGED <<mods_count, modules, test, shown, initrd_header, initrd_data>>
      /\ UNCHANGED <<num_mount_points, mount_points, path_buffers>>
  BY DEF ReadFaults, Goto, vfsVars, initrdVars
<1>2. Mounted /\ FirstInUse /\ shown = Logged(FirstImage.inputs, test)
  BY <1>1, AtTest
<1>3. Mounted' /\ FirstInUse' /\ FirstImage' = FirstImage
  BY <1>1, <1>2, FirstKept, Rigid DEF Mounted
<1>4. ~FirstImage.magic
  BY <1>1, <1>2, BootNullAssumption DEF NoData, FirstInUse
<1> QED BY <1>1, <1>2, <1>3, <1>4 DEF Phase, Showing

-----------------------------------------------------------------------------
(* kmain's log grows only by what the first disk promises, throughout.     *)
THEOREM ShowInvariance == Spec => []ShowIInv
PROOF
<1>1. Init => Phase
  <2> SUFFICES ASSUME Init PROVE Phase
    OBVIOUS
  <2>1. Unmounted /\ NothingShown /\ initrd_header = NULL /\ initrd_data = NULL
    BY DEF Init, V!Init, Disk!Init, Unmounted, NothingShown
  <2>2. pc = "module" /\ \A k \in Disks : i <= k
    <3>1. pc = "module" /\ i = 0
      BY DEF Init
    <3>2. \A k \in Disks : i <= k
      BY <3>1, BootInitOK, DisksListed
    <3> QED BY <3>1, <3>2
  <2> QED BY <2>1, <2>2 DEF Phase, Before
<1>2. ShowIInv /\ [Next]_bootVars => Phase'
  <2> SUFFICES ASSUME ShowIInv, [Next]_bootVars PROVE Phase'
    OBVIOUS
  <2>1. CASE Next
    BY <2>1, LoopShows, InitDiskShows, MountShows, OpenRootShows, ReadDirectoryShows,
       OpenTestShows, OpenFailsShows, ReadTestShows, ReadFaultsShows DEF Next
  <2>2. CASE UNCHANGED bootVars
    <3>1. /\ UNCHANGED <<num_mount_points, mount_points, path_buffers, current_file, fd>>
          /\ UNCHANGED <<initrd_header, initrd_data, mods_count, modules, pc, i, test, shown>>
      BY <2>2 DEF bootVars, vfsVars, initrdVars, kmainVars
    <3>2. UNCHANGED <<Disks, FirstImage, Promised>>
      BY <3>1, Rigid
    <3>3. /\ FirstInUse => FirstInUse'
          /\ Mounted => Mounted'
          /\ Unmounted => Unmounted'
          /\ NothingShown => NothingShown'
      BY <3>1, FirstKept DEF Mounted, Unmounted, NothingShown
    <3>4. Before => Before'
      BY <3>1, <3>2, <3>3 DEF Before
    <3>5. Provided => Provided'
      BY <3>1, <3>2, <3>3 DEF Provided
    <3>6. Showing => Showing'
      BY <3>1, <3>2, <3>3 DEF Showing
    <3>7. After => After'
      BY <3>1, <3>2, <3>3 DEF After
    <3> QED BY <3>4, <3>5, <3>6, <3>7 DEF ShowIInv, Phase
  <2> QED BY <2>1, <2>2
<1>3. BootIInv /\ Phase <=> ShowIInv
  BY DEF ShowIInv, Phase
<1> QED BY <1>1, <1>2, <1>3, BootInvariance, PTL DEF Spec

(* Whatever the boot modules hold: kmain (kmain.c) logs the names and the  *)
(* contents of the first disk, in order and once, and nothing of the       *)
(* modules after it; and only a bad magic keeps it from schedule().        *)
THEOREM FirstDiskShown == Spec => []ShowsFirstDisk
PROOF
<1>1. ShowIInv => ShowsFirstDisk
  <2> SUFFICES ASSUME ShowIInv PROVE ShowsFirstDisk
    OBVIOUS
  <2>1. CASE Before \/ Provided
    <3>1. shown = <<>> /\ Len(<<>>) = 0 /\ pc # "halted"
      BY <2>1 DEF Before, Provided, NothingShown
    <3>2. IsPrefix(<<>>, Promised)
      <4>1. Len(Promised) \in Nat
        <5>1. CASE Disks = {}
          BY <5>1 DEF Promised
        <5>2. CASE Disks # {}
          <6>1. Promised \in Seq(Items(FirstImage.inputs))
            BY <5>2, PromisedIs, LoggedSteps DEF ShowIInv
          <6> QED BY <6>1, LenProperties
        <5> QED BY <5>1, <5>2
      <4>2. SubSeq(<<>>, 1, 0) = <<>> /\ SubSeq(Promised, 1, 0) = <<>>
        BY SubSeqEmpty
      <4> QED BY <3>1, <4>1, <4>2 DEF IsPrefix
    <3>3. pc = "schedule" => Promised = <<>>
      BY <2>1 DEF Before, Provided, Promised
    <3> QED BY <3>1, <3>2, <3>3 DEF ShowsFirstDisk
  <2>2. CASE Showing
    <3>1. Promised = Logged(FirstImage.inputs, 4) /\ IsInputs(FirstImage.inputs) /\ test \in 1 .. 4
      BY <2>2, PromisedIs DEF ShowIInv, Showing, FirstInUse, BootIInv, TypeOK, Tests
    <3>2. pc # "schedule" /\ (pc = "halted" => ~FirstImage.magic)
      BY <2>2 DEF Showing
    <3>3. \/ shown = <<>>
          \/ \E k : ListedTo(FirstImage.inputs, k, shown)
          \/ shown = Logged(FirstImage.inputs, test)
      BY <2>2 DEF Showing, NothingShown
    <3>4. IsPrefix(shown, Promised)
      <4>1. shown = <<>> => ListedTo(FirstImage.inputs, 0, shown)
        BY <3>1, EmptySeq DEF ListedTo, IsInputs
      <4> QED BY <3>1, <3>3, <4>1, Beginnings
    <3> QED BY <3>2, <3>4 DEF ShowsFirstDisk
  <2>3. CASE After
    <3>1. shown = Promised /\ pc # "halted"
      BY <2>3 DEF After
    <3>2. IsPrefix(shown, Promised)
      <4>1. Promised = Logged(FirstImage.inputs, 4) /\ IsInputs(FirstImage.inputs)
        BY <2>3, PromisedIs DEF ShowIInv, After
      <4>2. IsPrefix(Logged(FirstImage.inputs, 4), Logged(FirstImage.inputs, 4))
        BY <4>1, Beginnings
      <4> QED BY <3>1, <4>1, <4>2
    <3> QED BY <3>1, <3>2 DEF ShowsFirstDisk
  <2> QED BY <2>1, <2>2, <2>3 DEF ShowIInv
<1> QED BY <1>1, ShowInvariance, PTL

=============================================================================
