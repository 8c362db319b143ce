------------------------------- MODULE Initrd -------------------------------
(***************************************************************************)
(* The initial ram disk: the discovery of the image in a boot module       *)
(* (init_initrd), and the read-only file system on it (fs/initrd.c).       *)
(***************************************************************************)
EXTENDS InitrdImage

CONSTANTS
  Modules,       (* the boot modules init_initrd may be given, as records  *)
                 (* [signature, magic, inputs]: whether the image starts   *)
                 (* with INITRD_SIGNATURE, whether INITRD_MAGIC is found   *)
                 (* where it is looked for, and what the tool was given    *)
  Descriptors,   (* the fs_descriptor_t objects of the callers             *)
  MaxRead,       (* bound: the largest size or offset a caller asks for    *)
  NULL

ASSUME MaxReadAssumption == MaxRead \in Nat

(* Inputs are sequences, and files have a size.                            *)
ASSUME ModulesAssumption ==
  \A module \in Modules :
    /\ DOMAIN module.inputs = 1 .. Len(module.inputs)
    /\ Len(module.inputs) \in Nat
    /\ \A i \in DOMAIN module.inputs : module.inputs[i].size \in Nat

(* The inode NULL of "/" is the inode of no file.                          *)
ASSUME InitrdNullAssumption == NULL \notin Nat

VARIABLES
  initrd_header,  (* the module whose header it points to, "temp" one      *)
                  (* included, or NULL                                     *)
  initrd_data,    (* the bytes from where it points, or NULL               *)
  current_file,   (* the static counter of initrd_readdir                  *)
  fd,             (* [inode, position, type] or NULL before the first open *)
  delivered,      (* the bytes the last initrd_read copied                 *)
  round,          (* what initrd_readdir returned since it last returned 0 *)
  given           (* history: the modules given to init_initrd, two for    *)
                  (* two or more                                           *)

headerVars == <<initrd_header, initrd_data, given>>
initrdVars == <<headerVars, current_file, fd, delivered, round>>

-----------------------------------------------------------------------------
(***************************************************************************)
(* fs/initrd.c                                                             *)
(***************************************************************************)
(* temp_header: in no module, and nothing is looked for in front of it.    *)
Temp == [magic |-> TRUE, inputs |-> <<[name |-> "test.txt", size |-> 1]>>]

num_files == Len(initrd_header.inputs)
files == Files(initrd_header.inputs)

(* The byte at p[k]; past what is known to be there, anything.             *)
Junk == <<>>
At(p, k) == IF p # NULL /\ k < Len(p) THEN p[k + 1] ELSE Junk

Init ==
  /\ initrd_header = NULL
  /\ initrd_data = NULL
  /\ current_file = 0
  /\ fd = [d \in Descriptors |-> NULL]
  /\ delivered = <<>>
  /\ round = <<>>
  /\ given = 0

(* init_initrd: the header of the new module if there is one to be found,  *)
(* else the one found before, else a temporary one with its own data.  No  *)
(* data belongs to a header whose magic is wrong, nor follows the          *)
(* temporary one.                                                          *)
InitInitrd(module) ==
  LET found  == module.signature \/ module.magic
      header == IF found THEN module ELSE initrd_header
  IN  /\ IF header = NULL
         THEN /\ initrd_header' = Temp
              /\ initrd_data' = Data(Temp.inputs)
         ELSE /\ initrd_header' = header
              /\ initrd_data' = IF ~header.magic THEN initrd_data
                                ELSE IF header = Temp THEN <<>>
                                ELSE Data(header.inputs)
      /\ given' = IF given = 0 THEN 1 ELSE 2
      /\ UNCHANGED <<current_file, fd, delivered, round>>

Ready == initrd_header # NULL

(* Mutant: the type of a descriptor of "/" is left as for a file.          *)
OpenRoot_Untyped(d) ==
  /\ fd' = [fd EXCEPT ![d] = [inode |-> NULL, position |-> 0, type |-> "file"]]
  /\ UNCHANGED <<headerVars, current_file, delivered, round>>

(* initrd_open("/"), which does not look for a header.                     *)
OpenRoot(d) ==
  /\ fd' = [fd EXCEPT ![d] = [inode |-> NULL, position |-> 0, type |-> "directory"]]
  /\ UNCHANGED <<headerVars, current_file, delivered, round>>

(* initrd_open of a file, found by find_file: the first with the name.     *)
OpenFile(d, name) ==
  /\ Ready
  /\ \E i \in 1 .. num_files :
       /\ files[i].name = name
       /\ \A j \in 1 .. i - 1 : files[j].name # name
       /\ fd' = [fd EXCEPT ![d] = [inode |-> i - 1, position |-> 0, type |-> "file"]]
  /\ UNCHANGED <<headerVars, current_file, delivered, round>>

(* fd->inode < num_files, which an inode that stands for "/" is not.       *)
ValidInode(d) == Ready /\ fd[d] # NULL /\ fd[d].inode # NULL /\ fd[d].inode < num_files

FileOf(d) == files[fd[d].inode + 1]

(* Mutant: the size asked for is not cut to what remains.                  *)
ToRead_Uncut(d, size) == IF fd[d].position >= FileOf(d).size THEN 0 ELSE size

(* How much initrd_read copies.                                            *)
ToRead(d, size) ==
  LET remaining == FileOf(d).size - fd[d].position
  IN  IF remaining <= 0 THEN 0 ELSE IF size < remaining THEN size ELSE remaining

(* initrd_read.  An invalid inode is refused.                              *)
Read(d, size) ==
  /\ ValidInode(d)
  /\ delivered' = [k \in 1 .. ToRead(d, size) |->
                     At(initrd_data, FileOf(d).offset + fd[d].position + k - 1)]
  /\ fd' = [fd EXCEPT ![d].position = @ + ToRead(d, size)]
  /\ UNCHANGED <<headerVars, current_file, round>>

(* initrd_seek.  Beyond the end, or with an invalid inode, it is refused.  *)
Seek(d, offset) ==
  /\ ValidInode(d)
  /\ offset <= FileOf(d).size
  /\ fd' = [fd EXCEPT ![d].position = offset]
  /\ UNCHANGED <<headerVars, current_file, delivered, round>>

(* Mutant: the counter is not set back at the end.                         *)
ReaddirEnd_NoReset(d) ==
  /\ Ready /\ fd[d] # NULL /\ fd[d].type = "directory"
  /\ current_file >= num_files
  /\ round' = <<>>
  /\ UNCHANGED <<headerVars, current_file, fd, delivered>>

(* initrd_readdir returns 0 and the counter goes back to the first file.   *)
ReaddirEnd(d) ==
  /\ Ready /\ fd[d] # NULL /\ fd[d].type = "directory"
  /\ current_file >= num_files
  /\ current_file' = 0
  /\ round' = <<>>
  /\ UNCHANGED <<headerVars, fd, delivered>>

(* initrd_readdir returns the next name, whoever asked for the last one.   *)
ReaddirNext(d) ==
  /\ Ready /\ fd[d] # NULL /\ fd[d].type = "directory"
  /\ current_file < num_files
  /\ round' = Append(round, [by |-> d, name |-> files[current_file + 1].name])
  /\ current_file' = current_file + 1
  /\ UNCHANGED <<headerVars, fd, delivered>>

-----------------------------------------------------------------------------
Names == {input.name : input \in UNION {Range(module.inputs) : module \in Modules \union {Temp}}}

Next ==
  \/ \E module \in Modules : InitInitrd(module)
  \/ \E d \in Descriptors :
       \/ OpenRoot(d)
       \/ \E name \in Names : OpenFile(d, name)
       \/ \E n \in 0 .. MaxRead : Read(d, n) \/ Seek(d, n)
       \/ ReaddirEnd(d)
       \/ ReaddirNext(d)

Spec == Init /\ [][Next]_initrdVars

-----------------------------------------------------------------------------
TypeOK ==
  /\ initrd_header \in Modules \union {Temp, NULL}
  /\ initrd_data \in {Data(m.inputs) : m \in Modules \union {Temp}} \union {<<>>, NULL}
  /\ current_file \in Nat
  /\ given \in 0 .. 2
  /\ \A d \in Descriptors :
       fd[d] # NULL =>
         /\ fd[d].position \in Nat
         /\ fd[d].type = "directory" <=> fd[d].inode = NULL

(* initrd_read and initrd_seek never take a descriptor past the end of the *)
(* file they take it for, also when another module was given to            *)
(* init_initrd after it was opened and the inode names another file.       *)
StaysInside ==
  [][\A d \in Descriptors :
       (ValidInode(d) /\ fd'[d].inode = fd[d].inode /\ fd'[d].position > fd[d].position)
         => fd'[d].position <= FileOf(d).size]_initrdVars

(* With one boot module, as menu.lst loads it, whichever descriptors       *)
(* called initrd_readdir: the names it returned since it last returned 0   *)
(* are the first of the image, each once and in order.                     *)
RoundInOrder ==
  given = 1 =>
    /\ Len(round) = current_file
    /\ \A i \in DOMAIN round : round[i].name = files[i].name

(* The data that initrd_read copies from is that of the header in use.     *)
DataOfHeader == Ready => initrd_data = Data(initrd_header.inputs)

DiskOf(module) ==
  [i \in DOMAIN module.inputs |->
     [name |-> module.inputs[i].name, bytes |-> Bytes(module.inputs[i])]]

Handle(d) ==
  IF ValidInode(d)
  THEN [bytes |-> Bytes(initrd_header.inputs[fd[d].inode + 1]), pos |-> fd[d].position]
  ELSE NULL

Abstract ==
  INSTANCE FileReader WITH
    disk <- IF Ready THEN DiskOf(initrd_header) ELSE NULL,
    handle <- [d \in Descriptors |-> Handle(d)],
    out <- delivered,
    Disks <- {DiskOf(module) : module \in Modules \union {Temp}}

(* NULL is no list of files, points to no data and is no open file.        *)
ASSUME ReaderNullAssumption ==
  \A module \in Modules \union {Temp} :
    /\ NULL \notin {DiskOf(module), Data(module.inputs)}
    /\ \A i \in DOMAIN module.inputs :
         \A pos \in 0 .. module.inputs[i].size :
           /\ NULL # [inode |-> i - 1, position |-> pos, type |-> "file"]
           /\ NULL # [bytes |-> Bytes(module.inputs[i]), pos |-> pos]

(* With one module whose magic is right reading is as FileReader says:     *)
(* what create_initrd laid out and initrd_read finds by offset and         *)
(* position are the bytes of the file that was opened, from where the last *)
(* read or seek left off.                                                  *)
ImplementsFileReader ==
  /\ Abstract!Init
  /\ [][(given' = 1 /\ DataOfHeader') => [Abstract!Next]_(Abstract!readerVars)]_initrdVars

(* kmain.c:49, "Listing root directory contents:": whoever opens "/" and   *)
(* reads names until there are no more has been given all of them.         *)
ListingComplete ==
  [][\A d \in Descriptors :
       given = 1 /\ ReaddirEnd(d) =>
         \A i \in 1 .. num_files :
           \E k \in DOMAIN round : round[k] = [by |-> d, name |-> files[i].name]]_initrdVars

=============================================================================
