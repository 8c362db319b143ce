--------------------------- MODULE Initrd_proofs ---------------------------
(***************************************************************************)
(* Type correctness of the initrd driver; that its cursors, the one of a   *)
(* descriptor and the one all listings share, stay where they belong; and  *)
(* that it implements FileReader: for any boot modules, in any order, with *)
(* any number of files and of descriptors.                                 *)
(***************************************************************************)
EXTENDS Initrd, InitrdImage_proofs

Fds == [inode : Nat \union {NULL}, position : Nat, type : {"file", "directory"}]

Entries == [by : Descriptors, name : Names]

InitrdIInv ==
  /\ TypeOK
  /\ fd = [d \in Descriptors |-> fd[d]]
  /\ \A d \in Descriptors : fd[d] # NULL => fd[d] \in Fds
  /\ round \in Seq(Entries)
  /\ given = 0 => current_file = 0 /\ round = <<>> /\ ~Ready
  /\ RoundInOrder

-----------------------------------------------------------------------------
(* What files[] of the header in use says of a file it lists.              *)
LEMMA ListedFile ==
  ASSUME InitrdIInv, Ready, NEW i \in 1 .. num_files
  PROVE  num_files \in Nat /\ files[i].name \in Names /\ files[i].size \in Nat
PROOF
<1> DEFINE inputs == initrd_header.inputs
<1>1. initrd_header \in Modules \union {Temp}
  BY DEF InitrdIInv, TypeOK, Ready
<1>2. /\ DOMAIN inputs = 1 .. Len(inputs)
      /\ Len(inputs) \in Nat
      /\ \A j \in DOMAIN inputs : inputs[j].size \in Nat
  BY <1>1, ModulesAssumption DEF Temp
<1>3. i \in DOMAIN inputs
  BY <1>2 DEF num_files
<1>4. inputs[i] \in Range(inputs)
  BY <1>3 DEF Range
<1>5. inputs[i].name \in Names
  BY <1>1, <1>4 DEF Names
<1>6. files[i].name = inputs[i].name /\ files[i].size = inputs[i].size
  BY <1>3 DEF files, Files
<1> QED BY <1>2, <1>3, <1>5, <1>6 DEF num_files

(* No header, no descriptor used.                                          *)
LEMMA InitrdInitOK == Init => InitrdIInv
PROOF
<1> SUFFICES ASSUME Init PROVE InitrdIInv
  OBVIOUS
<1>1. TypeOK
  BY DEF Init, TypeOK
<1>2. round \in Seq(Entries)
  BY DEF Init
<1> QED BY <1>1, <1>2 DEF Init, InitrdIInv, RoundInOrder, Ready

(* init_initrd: a listing under way when the first module is given is      *)
(* empty, and nothing is claimed any more once there was a second.         *)
LEMMA InitInitrdOK ==
  ASSUME InitrdIInv, NEW module \in Modules, InitInitrd(module)
  PROVE  InitrdIInv'
PROOF
<1>1. given' \in {1, 2} /\ (given' = 1 => given = 0)
  BY DEF InitInitrd
<1>2. /\ initrd_header' \in Modules \union {Temp, NULL}
      /\ initrd_data' \in {Data(m.inputs) : m \in Modules \union {Temp}} \union {<<>>, NULL}
  BY DEF InitInitrd, InitrdIInv, TypeOK
<1>3. TypeOK'
  BY <1>1, <1>2 DEF InitInitrd, InitrdIInv, TypeOK
<1>4. RoundInOrder'
  BY <1>1 DEF InitInitrd, InitrdIInv, RoundInOrder
<1> QED BY <1>1, <1>3, <1>4 DEF InitInitrd, InitrdIInv

(* open, read and seek change the caller's descriptor only.                *)
LEMMA DescriptorOK ==
  ASSUME InitrdIInv, NEW d \in Descriptors,
         UNCHANGED <<headerVars, current_file, round>>,
         NEW f \in Fds, f.type = "directory" <=> f.inode = NULL,
         fd' = [fd EXCEPT ![d] = f]
  PROVE  InitrdIInv'
PROOF
<1>1. \A e \in Descriptors : fd'[e] = IF e = d THEN f ELSE fd[e]
  BY DEF InitrdIInv
<1>2. \A e \in Descriptors : fd'[e] # NULL => fd'[e] \in Fds
  BY <1>1 DEF InitrdIInv
<1>3. fd' = [e \in Descriptors |-> fd'[e]]
  BY DEF InitrdIInv
<1>4. TypeOK'
  BY <1>1 DEF InitrdIInv, TypeOK, headerVars, Fds
<1>5. RoundInOrder'
  BY DEF InitrdIInv, RoundInOrder, headerVars, files
<1> QED BY <1>2, <1>3, <1>4, <1>5 DEF InitrdIInv, headerVars, Ready

(* A valid inode lists a file.                                             *)
LEMMA ValidFile ==
  ASSUME InitrdIInv, NEW d \in Descriptors, ValidInode(d)
  PROVE  fd[d] \in Fds /\ FileOf(d).size \in Nat
PROOF
<1>1. fd[d] \in Fds
  BY DEF InitrdIInv, ValidInode
<1>2. initrd_header \in Modules \union {Temp}
  BY DEF InitrdIInv, TypeOK, ValidInode, Ready
<1>3. num_files \in Nat
  BY <1>2, ModulesAssumption DEF Temp, num_files
<1>4. fd[d].inode + 1 \in 1 .. num_files
  BY <1>1, <1>3 DEF ValidInode, Fds
<1> QED BY <1>1, <1>4, ListedFile DEF ValidInode, FileOf

(* initrd_open makes a descriptor of its own, of the root directory or of  *)
(* a file.                                                                 *)
LEMMA OpenOK ==
  ASSUME InitrdIInv, NEW d \in Descriptors,
         OpenRoot(d) \/ \E name \in Names : OpenFile(d, name)
  PROVE  InitrdIInv' /\ fd'[d].position = 0 /\ \A e \in Descriptors \ {d} : fd'[e] = fd[e]
PROOF
<1>1. CASE OpenRoot(d)
  <2> DEFINE f == [inode |-> NULL, position |-> 0, type |-> "directory"]
  <2>1. f \in Fds /\ (f.type = "directory" <=> f.inode = NULL)
    BY DEF Fds
  <2>2. fd' = [fd EXCEPT ![d] = f] /\ UNCHANGED <<headerVars, current_file, round>>
    BY <1>1 DEF OpenRoot
  <2>3. InitrdIInv'
    BY <2>1, <2>2, DescriptorOK
  <2> QED BY <2>2, <2>3 DEF InitrdIInv
<1>2. ASSUME NEW name \in Names, OpenFile(d, name)
      PROVE  InitrdIInv' /\ fd'[d].position = 0 /\ \A e \in Descriptors \ {d} : fd'[e] = fd[e]
  <2>1. PICK i \in 1 .. num_files :
          fd' = [fd EXCEPT ![d] = [inode |-> i - 1, position |-> 0, type |-> "file"]]
    BY <1>2 DEF OpenFile
  <2> DEFINE f == [inode |-> i - 1, position |-> 0, type |-> "file"]
  <2>2. i - 1 \in Nat
    BY <2>1
  <2>3. f \in Fds /\ (f.type = "directory" <=> f.inode = NULL)
    BY <2>2, InitrdNullAssumption DEF Fds
  <2>4. UNCHANGED <<headerVars, current_file, round>>
    BY <1>2 DEF OpenFile
  <2>5. InitrdIInv'
    BY <2>1, <2>3, <2>4, DescriptorOK
  <2> QED BY <2>1, <2>5 DEF InitrdIInv
<1> QED BY <1>1, <1>2

(* initrd_read and initrd_seek move the position of one descriptor, not    *)
(* forward past the end of its file.                                       *)
LEMMA MoveOK ==
  ASSUME InitrdIInv, NEW d \in Descriptors, NEW n \in 0 .. MaxRead,
         Read(d, n) \/ Seek(d, n)
  PROVE  /\ InitrdIInv'
         /\ fd'[d].inode = fd[d].inode
         /\ fd'[d].position > fd[d].position => fd'[d].position <= FileOf(d).size
         /\ \A e \in Descriptors \ {d} : fd'[e] = fd[e]
PROOF
<1>1. ValidInode(d) /\ UNCHANGED <<headerVars, current_file, round>>
  BY DEF Read, Seek
<1>2. fd[d] \in Fds /\ FileOf(d).size \in Nat /\ n \in Nat
  BY <1>1, ValidFile, MaxReadAssumption
<1>3. PICK p \in Nat :
        /\ p > fd[d].position => p <= FileOf(d).size
        /\ fd' = [fd EXCEPT ![d].position = p]
  <2>1. CASE Read(d, n)
    <3>1. ToRead(d, n) \in Nat
      BY <1>2 DEF ToRead, Fds
    <3>2. ToRead(d, n) > 0 => fd[d].position + ToRead(d, n) <= FileOf(d).size
      BY <1>2 DEF ToRead, Fds
    <3>3. fd' = [fd EXCEPT ![d].position = fd[d].position + ToRead(d, n)]
      BY <2>1 DEF Read
    <3> DEFINE p0 == fd[d].position + ToRead(d, n)
    <3>4. p0 \in Nat /\ (p0 > fd[d].position => p0 <= FileOf(d).size)
      BY <1>2, <3>1, <3>2 DEF Fds
    <3>5. fd' = [fd EXCEPT ![d].position = p0]
      BY <3>3
    <3> HIDE DEF p0
    <3> QED BY <3>4, <3>5
  <2>2. CASE Seek(d, n)
    BY <1>2, <2>2 DEF Seek
  <2> QED BY <2>1, <2>2
<1> DEFINE f == [fd[d] EXCEPT !.position = p]
<1>4. fd' = [fd EXCEPT ![d] = f]
  BY <1>3
<1>5. f \in Fds /\ f.position = p /\ f.type = fd[d].type /\ f.inode = fd[d].inode
  BY <1>2 DEF Fds
<1>6. f.type = "directory" <=> f.inode = NULL
  BY <1>1, <1>5 DEF InitrdIInv, TypeOK, ValidInode
<1>7. InitrdIInv'
  BY <1>1, <1>4, <1>5, <1>6, DescriptorOK DEF ValidInode
<1>8. fd'[d] = f /\ \A e \in Descriptors \ {d} : fd'[e] = fd[e]
  BY <1>4 DEF InitrdIInv
<1> QED BY <1>3, <1>5, <1>7, <1>8

(* initrd_readdir: the name returned is that of files[current_file].       *)
LEMMA ReaddirOK ==
  ASSUME InitrdIInv, NEW d \in Descriptors, ReaddirEnd(d) \/ ReaddirNext(d)
  PROVE  InitrdIInv'
PROOF
<1>1. UNCHANGED <<headerVars, fd>> /\ Ready /\ current_file \in Nat /\ given \in 0 .. 2
  BY DEF ReaddirEnd, ReaddirNext, InitrdIInv, TypeOK
<1>2. current_file' \in Nat
  BY <1>1 DEF ReaddirEnd, ReaddirNext
<1>3. TypeOK'
  BY <1>1, <1>2 DEF InitrdIInv, TypeOK, headerVars
<1>4. given # 0
  BY <1>1 DEF InitrdIInv
<1>5. round' \in Seq(Entries) /\ RoundInOrder'
  <2>1. CASE ReaddirEnd(d)
    BY <2>1 DEF ReaddirEnd, RoundInOrder
  <2>2. CASE ReaddirNext(d)
    <3> DEFINE entry == [by |-> d, name |-> files[current_file + 1].name]
    <3>1. num_files \in Nat
      <4>1. initrd_header \in Modules \union {Temp}
        BY <1>1 DEF InitrdIInv, TypeOK, Ready
      <4> QED BY <4>1, ModulesAssumption DEF Temp, num_files
    <3>2. current_file + 1 \in 1 .. num_files
      BY <1>1, <2>2, <3>1 DEF ReaddirNext
    <3>3. entry \in Entries
      BY <1>1, <3>2, ListedFile DEF Entries
    <3>4. round \in Seq(Entries) /\ round' = Append(round, entry)
      BY <2>2 DEF InitrdIInv, ReaddirNext
    <3>5. /\ round' \in Seq(Entries)
          /\ Len(round') = Len(round) + 1
          /\ \A i \in 1 .. Len(round) : round'[i] = round[i]
          /\ round'[Len(round) + 1] = entry
      BY <3>3, <3>4
    <3>6. files' = files /\ given' = given
      BY <1>1 DEF files, headerVars
    <3>7. ASSUME given' = 1
          PROVE  Len(round') = current_file' /\ \A i \in DOMAIN round' : round'[i].name = files'[i].name
      <4>1. Len(round) = current_file /\ \A i \in DOMAIN round : round[i].name = files[i].name
        BY <3>6, <3>7 DEF InitrdIInv, RoundInOrder
      <4>2. current_file' = current_file + 1
        BY <2>2 DEF ReaddirNext
      <4>3. DOMAIN round' = 1 .. Len(round) + 1 /\ DOMAIN round = 1 .. Len(round) /\ Len(round) \in Nat
        BY <3>4, <3>5
      <4>4. ASSUME NEW i \in DOMAIN round' PROVE round'[i].name = files[i].name
        <5>1. CASE i \in DOMAIN round
          BY <3>5, <4>1, <4>3, <5>1
        <5>2. CASE i = Len(round) + 1
          BY <3>5, <4>1, <5>2
        <5> QED BY <4>3, <5>1, <5>2
      <4> QED BY <3>5, <3>6, <4>1, <4>2, <4>4
    <3> QED BY <3>5, <3>7 DEF RoundInOrder
  <2> QED BY <2>1, <2>2
<1> QED BY <1>1, <1>3, <1>4, <1>5 DEF InitrdIInv, headerVars

-----------------------------------------------------------------------------
(* Every step of the driver keeps its invariant.                            *)
LEMMA InitrdNextOK == InitrdIInv /\ [Next]_initrdVars => InitrdIInv'
PROOF
<1> SUFFICES ASSUME InitrdIInv, [Next]_initrdVars PROVE InitrdIInv'
  OBVIOUS
<1>1. CASE UNCHANGED initrdVars
  BY <1>1 DEF initrdVars, headerVars, InitrdIInv, TypeOK, RoundInOrder, Ready, files
<1>2. CASE \E module \in Modules : InitInitrd(module)
  BY <1>2, InitInitrdOK
<1>3. ASSUME NEW d \in Descriptors, OpenRoot(d) \/ \E name \in Names : OpenFile(d, name)
      PROVE  InitrdIInv'
  BY <1>3, OpenOK
<1>4. ASSUME NEW d \in Descriptors, NEW n \in 0 .. MaxRead, Read(d, n) \/ Seek(d, n)
      PROVE  InitrdIInv'
  BY <1>4, MoveOK
<1>5. ASSUME NEW d \in Descriptors, ReaddirEnd(d) \/ ReaddirNext(d)
      PROVE  InitrdIInv'
  BY <1>5, ReaddirOK
<1> QED BY <1>1, <1>2, <1>3, <1>4, <1>5 DEF Next

(* The invariant holds whatever modules are given and whatever is called.  *)
THEOREM InitrdInvariance == Spec => []InitrdIInv
PROOF
<1> QED BY InitrdInitOK, InitrdNextOK, PTL DEF Spec

(* Types of header, data, cursor and descriptors: one of type "directory"  *)
(* stands for "/" and for no file.                                         *)
THEOREM InitrdTypeCorrect == Spec => []TypeOK
PROOF
<1>1. InitrdIInv => TypeOK
  BY DEF InitrdIInv
<1> QED BY <1>1, InitrdInvariance, PTL

(* The names initrd_readdir returned in a round are the first of the image *)
(* in order, for any image and any number of listings under way.           *)
THEOREM ListedInOrder == Spec => []RoundInOrder
PROOF
<1>1. InitrdIInv => RoundInOrder
  BY DEF InitrdIInv
<1> QED BY <1>1, InitrdInvariance, PTL

(* No read or seek takes a descriptor past the end of the file its inode   *)
(* stands for in the header in use.                                        *)
THEOREM NeverPastTheEnd == Spec => StaysInside
PROOF
<1>1. InitrdIInv /\ [Next]_initrdVars =>
        [\A d \in Descriptors :
           (ValidInode(d) /\ fd'[d].inode = fd[d].inode /\ fd'[d].position > fd[d].position)
             => fd'[d].position <= FileOf(d).size]_initrdVars
  <2> SUFFICES ASSUME InitrdIInv, [Next]_initrdVars, NEW e \in Descriptors, ValidInode(e),
                      fd'[e].position > fd[e].position
               PROVE  fd'[e].position <= FileOf(e).size
    OBVIOUS
  <2>1. fd[e].position \in Nat
    BY ValidFile DEF Fds
  <2>2. fd'[e] # fd[e]
    BY <2>1
  <2>3. ASSUME NEW d \in Descriptors, OpenRoot(d) \/ \E name \in Names : OpenFile(d, name)
        PROVE  FALSE
    BY <2>1, <2>2, <2>3, OpenOK
  <2>4. ASSUME NEW d \in Descriptors, NEW n \in 0 .. MaxRead, Read(d, n) \/ Seek(d, n)
        PROVE  fd'[e].position <= FileOf(e).size
    BY <2>2, <2>4, MoveOK
  <2> QED BY <2>2, <2>3, <2>4 DEF Next, initrdVars, InitInitrd, ReaddirEnd, ReaddirNext
<1> QED BY <1>1, InitrdInvariance, PTL DEF Spec, StaysInside

-----------------------------------------------------------------------------
(***************************************************************************)
(* Reading, as FileReader has it.                                          *)
(***************************************************************************)

(* No file is open before the first module; with one module, no descriptor *)
(* of a file is past its end.                                              *)
ReaderIInv ==
  /\ InitrdIInv
  /\ given = 0 => \A d \in Descriptors : fd[d] # NULL => fd[d].inode = NULL
  /\ given = 1 => \A d \in Descriptors : ValidInode(d) => fd[d].position <= FileOf(d).size

Input(d) == initrd_header.inputs[fd[d].inode + 1]

(* What a descriptor of a file is in the abstract, and where its file is   *)
(* in the image.                                                           *)
LEMMA OpenedFile ==
  ASSUME InitrdIInv, NEW d \in Descriptors, ValidInode(d)
  PROVE  /\ initrd_header \in Modules \union {Temp}
         /\ IsInputs(initrd_header.inputs)
         /\ fd[d].inode + 1 \in DOMAIN initrd_header.inputs
         /\ fd[d].position \in Nat
         /\ Input(d).size \in Nat
         /\ FileOf(d).size = Input(d).size
         /\ FileOf(d).offset = Offset(initrd_header.inputs, fd[d].inode + 1)
         /\ Handle(d) = [bytes |-> Bytes(Input(d)), pos |-> fd[d].position]
PROOF
<1>1. initrd_header \in Modules \union {Temp}
  BY DEF InitrdIInv, TypeOK, ValidInode, Ready
<1>2. IsInputs(initrd_header.inputs)
  BY <1>1, ModulesAssumption DEF Temp, IsInputs
<1>3. fd[d] \in Fds /\ fd[d].inode # NULL /\ fd[d].inode < Len(initrd_header.inputs)
  BY ValidFile DEF ValidInode, num_files
<1>4. fd[d].inode + 1 \in DOMAIN initrd_header.inputs
  BY <1>2, <1>3 DEF IsInputs, Fds
<1>5. Input(d).size \in Nat
  BY <1>2, <1>4 DEF IsInputs, Input
<1>6. FileOf(d).size = Input(d).size /\ FileOf(d).offset = Offset(initrd_header.inputs, fd[d].inode + 1)
  BY <1>4 DEF FileOf, files, Files, Input
<1>7. Handle(d) = [bytes |-> Bytes(Input(d)), pos |-> fd[d].position]
  BY DEF Handle, Input
<1> QED BY <1>1, <1>2, <1>3, <1>4, <1>5, <1>6, <1>7 DEF Fds

(* SubSeq, element by element.                                             *)
LEMMA PartOf ==
  ASSUME NEW S, NEW s \in Seq(S), NEW pos \in Nat, NEW n \in Nat, pos + n <= Len(s),
         NEW t, t = SubSeq(s, pos + 1, pos + n)
  PROVE  t \in [1 .. n -> S] /\ \A k \in 1 .. n : t[k] = s[pos + k]
PROOF
<1>1. Len(s) \in Nat /\ \A i \in pos + 1 .. pos + n : s[i] \in S
  BY LenProperties
<1> PICK a \in Nat : a = pos + 1
  OBVIOUS
<1> PICK b \in Nat : b = pos + n
  OBVIOUS
<1>2. /\ SubSeq(s, a, b) \in Seq(S)
      /\ Len(SubSeq(s, a, b)) = IF a <= b THEN b - a + 1 ELSE 0
      /\ \A k \in 1 .. b - a + 1 : SubSeq(s, a, b)[k] = s[a + k - 1]
  BY <1>1, SubSeqProperties
<1>3. b - a + 1 = n /\ (a <= b \/ n = 0) /\ \A k \in 1 .. n : a + k - 1 = pos + k
  OBVIOUS
<1>4. t \in Seq(S) /\ Len(t) = n
  BY <1>2, <1>3
<1>5. \A k \in 1 .. n : t[k] = s[pos + k]
  BY <1>2, <1>3
<1>6. t \in [1 .. n -> S]
  <2>1. t \in [1 .. Len(t) -> S]
    BY <1>4, LenProperties
  <2> QED BY <1>4, <2>1
<1> QED BY <1>5, <1>6

(* The loop of initrd_read over an image, n bytes from a position on.      *)
Copied(inputs, i, pos, n) ==
  [k \in 1 .. n |-> At(Data(inputs), Offset(inputs, i) + pos + k - 1)]

(* The bytes found by offset and position are those of the file.           *)
LEMMA BytesFound ==
  ASSUME NEW inputs, IsInputs(inputs), NEW i \in DOMAIN inputs, Data(inputs) # NULL,
         NEW pos \in Nat, NEW n \in Nat, pos + n <= inputs[i].size,
         NEW r, r = Copied(inputs, i, pos, n)
  PROVE  r = SubSeq(Bytes(inputs[i]), pos + 1, pos + n)
PROOF
<1>1. inputs[i].size \in Nat
  BY DEF IsInputs
<1>2. ASSUME NEW k \in 1 .. n
      PROVE  At(Data(inputs), Offset(inputs, i) + pos + k - 1) = <<inputs[i], pos + k>>
  <2> PICK off : off = Offset(inputs, i)
    OBVIOUS
  <2>1. pos + k \in 1 .. inputs[i].size
    BY <1>1
  <2>2. /\ off \in Nat /\ Len(Data(inputs)) \in Nat
        /\ off + (pos + k) <= Len(Data(inputs))
        /\ Data(inputs)[off + (pos + k)] = <<inputs[i], pos + k>>
    BY <2>1, DataLaidOut
  <2>3. off + pos + k - 1 < Len(Data(inputs)) /\ (off + pos + k - 1) + 1 = off + (pos + k)
    BY <2>2
  <2> QED BY <2>2, <2>3 DEF At
<1> PICK bytes : bytes = Bytes(inputs[i])
  OBVIOUS
<1> PICK B : B = BytesOf(inputs)
  OBVIOUS
<1>3. bytes \in Seq(B) /\ Len(bytes) = inputs[i].size
      /\ \A k \in 1 .. inputs[i].size : bytes[k] = <<inputs[i], k>>
  BY FileBytes
<1>4. pos + n <= Len(bytes)
  BY <1>3
<1>5. ASSUME NEW k \in 1 .. n PROVE bytes[pos + k] = <<inputs[i], pos + k>>
  <2>1. pos + k \in 1 .. inputs[i].size
    BY <1>1
  <2> QED BY <1>3, <2>1
<1> PICK s : s = SubSeq(bytes, pos + 1, pos + n)
  OBVIOUS
<1>6. s \in [1 .. n -> B] /\ \A k \in 1 .. n : s[k] = bytes[pos + k]
  <2>1. bytes \in Seq(B)
    BY <1>3
  <2>2. s \in [1 .. n -> B]
    BY <1>4, <2>1, PartOf
  <2>3. \A k \in 1 .. n : s[k] = bytes[pos + k]
    BY <1>4, <2>1, PartOf
  <2> QED BY <2>2, <2>3
<1>7. s \in [1 .. n -> B] /\ \A k \in 1 .. n : s[k] = <<inputs[i], pos + k>>
  BY <1>5, <1>6
<1> QED BY <1>2, <1>7 DEF Copied

(* initrd_read copies the next bytes of the file, as many as are left.     *)
LEMMA ReadDelivers ==
  ASSUME ReaderIInv, given = 1, DataOfHeader,
         NEW d \in Descriptors, NEW size \in Nat, Read(d, size)
  PROVE  /\ ToRead(d, size) \in Nat
         /\ ToRead(d, size) <= Input(d).size
         /\ fd[d].position + ToRead(d, size) <= Input(d).size
         /\ delivered' = SubSeq(Bytes(Input(d)), fd[d].position + 1, fd[d].position + ToRead(d, size))
PROOF
<1>1. ValidInode(d) /\ InitrdIInv
  BY DEF Read, ReaderIInv
<1>2. PICK inputs : inputs = initrd_header.inputs
  OBVIOUS
<1>3. PICK i : i = fd[d].inode + 1
  OBVIOUS
<1>4. PICK pos \in Nat : pos = fd[d].position
  BY <1>1, OpenedFile
<1>5. PICK n : n = ToRead(d, size)
  OBVIOUS
<1>6. /\ IsInputs(inputs) /\ i \in DOMAIN inputs
      /\ Input(d) = inputs[i] /\ inputs[i].size \in Nat
      /\ FileOf(d).size = inputs[i].size /\ FileOf(d).offset = Offset(inputs, i)
  BY <1>1, <1>2, <1>3, OpenedFile DEF Input
<1>7. pos <= inputs[i].size
  BY <1>1, <1>4, <1>6 DEF ReaderIInv
<1>8. n \in Nat /\ n <= inputs[i].size /\ pos + n <= inputs[i].size
  BY <1>4, <1>5, <1>6, <1>7 DEF ToRead
<1>9. PICK r : r = delivered'
  OBVIOUS
<1>10. r = Copied(inputs, i, pos, n)
  BY <1>1, <1>2, <1>4, <1>5, <1>6, <1>9 DEF Copied, Read, DataOfHeader, ValidInode
<1>11. Data(inputs) # NULL
  BY <1>1, <1>2, OpenedFile, ReaderNullAssumption
<1>12. r = SubSeq(Bytes(inputs[i]), pos + 1, pos + n)
  <2>1. IsInputs(inputs) /\ i \in DOMAIN inputs /\ pos \in Nat
    BY <1>4, <1>6
  <2>2. pos + n <= inputs[i].size /\ n \in Nat
    BY <1>8
  <2> QED BY <1>10, <1>11, <2>1, <2>2, BytesFound
<1> QED BY <1>4, <1>5, <1>6, <1>8, <1>9, <1>12

(* Bounds for the descriptors: they are of the file that is opened.        *)
LEMMA ReaderMoves ==
  ASSUME ReaderIInv, NEW d \in Descriptors, NEW n \in 0 .. MaxRead, Read(d, n) \/ Seek(d, n)
  PROVE  ReaderIInv'
PROOF
<1>1. InitrdIInv /\ InitrdIInv' /\ \A e \in Descriptors \ {d} : fd'[e] = fd[e]
  BY MoveOK DEF ReaderIInv
<1>2. ValidInode(d) /\ UNCHANGED headerVars
  BY DEF Read, Seek
<1>3. fd'[d].inode = fd[d].inode
  BY <1>1, MoveOK
<1>4. \A e \in Descriptors : FileOf(e)' = FileOf(e)
  BY <1>1, <1>2, <1>3 DEF FileOf, files, headerVars
<1>5. \A e \in Descriptors : ValidInode(e)' => ValidInode(e)
  BY <1>1, <1>2, <1>3 DEF ValidInode, Ready, num_files, headerVars
<1>6. given' = given /\ given # 0
  BY <1>1, <1>2 DEF InitrdIInv, headerVars, ValidInode
<1>7. ASSUME given = 1, NEW e \in Descriptors, ValidInode(e)'
      PROVE  fd'[e].position <= FileOf(e).size
  <2>1. ValidInode(e) /\ fd[e].position <= FileOf(e).size
    BY <1>5, <1>7 DEF ReaderIInv
  <2>2. CASE e = d
    <3>1. fd'[d] \in Fds /\ fd[d] \in Fds /\ FileOf(d).size \in Nat
      BY <1>1, <1>2, <1>7, <2>2, ValidFile DEF InitrdIInv, ValidInode
    <3>2. fd'[d].position > fd[d].position => fd'[d].position <= FileOf(d).size
      BY <1>1, MoveOK
    <3> QED BY <2>1, <2>2, <3>1, <3>2 DEF Fds
  <2>3. CASE e # d
    BY <1>1, <2>1, <2>3
  <2> QED BY <2>2, <2>3
<1> QED BY <1>1, <1>4, <1>6, <1>7 DEF ReaderIInv

(* A file is opened at its beginning.                                      *)
LEMMA ReaderOpens ==
  ASSUME ReaderIInv, NEW d \in Descriptors,
         OpenRoot(d) \/ \E name \in Names : OpenFile(d, name)
  PROVE  ReaderIInv'
PROOF
<1>1. InitrdIInv /\ InitrdIInv' /\ fd'[d].position = 0 /\ \A e \in Descriptors \ {d} : fd'[e] = fd[e]
  BY OpenOK DEF ReaderIInv
<1>2. UNCHANGED headerVars
  BY DEF OpenRoot, OpenFile
<1>3. given' = given /\ (given = 0 => OpenRoot(d))
  BY <1>1, <1>2 DEF InitrdIInv, OpenFile, headerVars
<1>4. ASSUME given = 1, NEW e \in Descriptors, ValidInode(e)'
      PROVE  fd'[e].position <= FileOf(e)'.size
  <2>1. CASE e = d
    <3>1. IsInputs(initrd_header.inputs)
      <4>1. initrd_header \in Modules \union {Temp}
        BY <1>1, <1>2, <1>4 DEF InitrdIInv, TypeOK, ValidInode, Ready, headerVars
      <4> QED BY <4>1, ModulesAssumption DEF Temp, IsInputs
    <3>2. PICK i : i = fd'[e].inode + 1
      OBVIOUS
    <3>3. i \in DOMAIN initrd_header.inputs
      <4>1. fd'[e] \in Fds
        BY <1>1, <1>4 DEF InitrdIInv, ValidInode
      <4>2. fd'[e].inode # NULL /\ fd'[e].inode < Len(initrd_header.inputs)
        BY <1>2, <1>4 DEF ValidInode, num_files, headerVars
      <4> QED BY <3>1, <3>2, <4>1, <4>2 DEF IsInputs, Fds
    <3>4. FileOf(e)'.size = initrd_header.inputs[i].size
      BY <1>2, <3>2, <3>3 DEF FileOf, files, Files, headerVars
    <3> QED BY <1>1, <2>1, <3>1, <3>3, <3>4 DEF IsInputs
  <2>2. CASE e # d
    <3>1. fd'[e] = fd[e] /\ ValidInode(e) /\ FileOf(e)' = FileOf(e)
      BY <1>1, <1>2, <1>4, <2>2 DEF ValidInode, Ready, num_files, FileOf, files, headerVars
    <3> QED BY <1>4, <3>1 DEF ReaderIInv
  <2> QED BY <2>1, <2>2
<1>5. ASSUME given = 0, NEW e \in Descriptors, fd'[e] # NULL
      PROVE  fd'[e].inode = NULL
  <2>1. CASE e = d
    <3>1. fd'[d].inode = NULL
      BY <1>1, <1>3, <1>5 DEF OpenRoot, InitrdIInv
    <3> QED BY <2>1, <3>1
  <2>2. CASE e # d
    BY <1>1, <1>5, <2>2 DEF ReaderIInv
  <2> QED BY <2>1, <2>2
<1> QED BY <1>1, <1>3, <1>4, <1>5 DEF ReaderIInv

(* Every step keeps what the refinement needs.                              *)
LEMMA ReaderNextOK == ReaderIInv /\ [Next]_initrdVars => ReaderIInv'
PROOF
<1> SUFFICES ASSUME ReaderIInv, [Next]_initrdVars PROVE ReaderIInv'
  OBVIOUS
<1>1. InitrdIInv /\ InitrdIInv'
  BY InitrdNextOK DEF ReaderIInv
<1>2. CASE UNCHANGED <<headerVars, fd>>
  BY <1>1, <1>2 DEF headerVars, ReaderIInv, ValidInode, Ready, num_files, FileOf, files
<1>3. ASSUME NEW module \in Modules, InitInitrd(module)
      PROVE  ReaderIInv'
  <2>1. given' # 0 /\ (given' = 1 => given = 0) /\ fd' = fd
    BY <1>3 DEF InitInitrd
  <2>2. given = 0 => \A d \in Descriptors : ~ ValidInode(d)'
    BY <2>1 DEF ReaderIInv, ValidInode
  <2> QED BY <1>1, <2>1, <2>2 DEF ReaderIInv
<1>4. ASSUME NEW d \in Descriptors, OpenRoot(d) \/ \E name \in Names : OpenFile(d, name)
      PROVE  ReaderIInv'
  BY <1>4, ReaderOpens
<1>5. ASSUME NEW d \in Descriptors, NEW n \in 0 .. MaxRead, Read(d, n) \/ Seek(d, n)
      PROVE  ReaderIInv'
  BY <1>5, ReaderMoves
<1>6. ASSUME NEW d \in Descriptors, ReaddirEnd(d) \/ ReaddirNext(d)
      PROVE  ReaderIInv'
  BY <1>2, <1>6 DEF ReaddirEnd, ReaddirNext
<1>7. CASE UNCHANGED initrdVars
  BY <1>2, <1>7 DEF initrdVars
<1> QED BY <1>3, <1>4, <1>5, <1>6, <1>7 DEF Next

-----------------------------------------------------------------------------
(* A step that leaves header and data alone, and other descriptors where   *)
(* they are, changes what one descriptor is in the abstract.               *)
LEMMA OneHandle ==
  ASSUME NEW d \in Descriptors, UNCHANGED headerVars,
         \A e \in Descriptors \ {d} : fd'[e] = fd[e]
  PROVE  /\ [e \in Descriptors |-> Handle(e)]'
              = [[e \in Descriptors |-> Handle(e)] EXCEPT ![d] = Handle(d)']
         /\ Ready' = Ready
         /\ DiskOf(initrd_header)' = DiskOf(initrd_header)
PROOF
<1>1. ASSUME NEW e \in Descriptors \ {d} PROVE Handle(e)' = Handle(e)
  BY <1>1 DEF Handle, ValidInode, Ready, num_files, headerVars
<1> QED BY <1>1 DEF headerVars, Ready

(* A header in use is one of an image the tool made, and NULL is no disk.  *)
LEMMA HeaderInUse ==
  ASSUME InitrdIInv, Ready
  PROVE  /\ initrd_header \in Modules \union {Temp}
         /\ IsInputs(initrd_header.inputs)
         /\ DiskOf(initrd_header) # NULL
PROOF
<1>1. initrd_header \in Modules \union {Temp}
  BY DEF InitrdIInv, TypeOK, Ready
<1>2. IsInputs(initrd_header.inputs)
  BY <1>1, ModulesAssumption DEF Temp, IsInputs
<1> QED BY <1>1, <1>2, ReaderNullAssumption

(* init_initrd with the first module provides its files.                   *)
LEMMA InitProvides ==
  ASSUME ReaderIInv, NEW module \in Modules, InitInitrd(module), given' = 1
  PROVE  [Abstract!Next]_(Abstract!readerVars)
PROOF
<1>1. InitrdIInv /\ given = 0
  BY DEF ReaderIInv, InitrdIInv, TypeOK, InitInitrd
<1>2. ~ Ready /\ \A d \in Descriptors : fd[d] # NULL => fd[d].inode = NULL
  BY <1>1 DEF ReaderIInv, InitrdIInv
<1>3. fd' = fd /\ delivered' = delivered
  BY DEF InitInitrd
<1>4. \A d \in Descriptors : Handle(d) = NULL /\ Handle(d)' = NULL
  BY <1>2, <1>3 DEF Handle, ValidInode
<1>5. [d \in Descriptors |-> Handle(d)]' = [d \in Descriptors |-> Handle(d)]
  BY <1>4
<1>6. CASE ~ Ready'
  BY <1>2, <1>3, <1>5, <1>6 DEF Abstract!readerVars
<1>7. CASE Ready'
  <2>1. initrd_header' \in Modules \union {Temp}
    BY <1>2, <1>7 DEF InitInitrd, Ready
  <2>2. Abstract!Provide(DiskOf(initrd_header)')
    BY <1>2, <1>3, <1>5, <1>7 DEF Abstract!Provide
  <2>3. DiskOf(initrd_header)' \in {DiskOf(m) : m \in Modules \union {Temp}}
    BY <2>1 DEF DiskOf
  <2> QED BY <2>2, <2>3 DEF Abstract!Next
<1> QED BY <1>6, <1>7

(* initrd_open("/"): the descriptor is for no file.                        *)
LEMMA OpenRootOpens ==
  ASSUME ReaderIInv, NEW d \in Descriptors, OpenRoot(d)
  PROVE  Abstract!Next
PROOF
<1>1. InitrdIInv /\ UNCHANGED <<headerVars, delivered>>
  BY DEF ReaderIInv, OpenRoot
<1>2. fd'[d].inode = NULL /\ \A e \in Descriptors \ {d} : fd'[e] = fd[e]
  BY <1>1 DEF OpenRoot, InitrdIInv
<1>3. Handle(d)' = NULL
  BY <1>2 DEF Handle, ValidInode
<1>4. Abstract!OpenRoot(d)
  BY <1>1, <1>2, <1>3, OneHandle, HeaderInUse DEF Abstract!OpenRoot
<1> QED BY <1>4 DEF Abstract!Next

(* initrd_open of a file: the descriptor is for the first with the name.   *)
LEMMA OpenFileOpens ==
  ASSUME ReaderIInv, NEW d \in Descriptors, NEW name \in Names, OpenFile(d, name)
  PROVE  Abstract!Next
PROOF
<1>1. InitrdIInv /\ Ready /\ UNCHANGED <<headerVars, delivered>>
  BY DEF ReaderIInv, OpenFile
<1>2. PICK i \in 1 .. num_files :
        /\ \A j \in 1 .. i - 1 : files[j].name # files[i].name
        /\ fd' = [fd EXCEPT ![d] = [inode |-> i - 1, position |-> 0, type |-> "file"]]
  BY DEF OpenFile
<1>3. PICK inputs : inputs = initrd_header.inputs
  OBVIOUS
<1>4. PICK disk : disk = DiskOf(initrd_header)
  OBVIOUS
<1>5. /\ IsInputs(inputs) /\ disk # NULL
      /\ i \in 1 .. Len(inputs) /\ i \in DOMAIN inputs
  BY <1>1, <1>2, <1>3, <1>4, HeaderInUse DEF num_files, IsInputs
<1>6. i - 1 # NULL /\ i - 1 < Len(inputs) /\ (i - 1) + 1 = i
  BY <1>5, InitrdNullAssumption DEF IsInputs
<1>7. /\ fd'[d] = [inode |-> i - 1, position |-> 0, type |-> "file"]
      /\ \A e \in Descriptors \ {d} : fd'[e] = fd[e]
  BY <1>1, <1>2 DEF InitrdIInv
<1>8. /\ DOMAIN disk = DOMAIN inputs
      /\ \A j \in DOMAIN inputs : disk[j].name = files[j].name /\ disk[j].bytes = Bytes(inputs[j])
  BY <1>3, <1>4 DEF DiskOf, files, Files
<1>9. Handle(d)' = [bytes |-> disk[i].bytes, pos |-> 0]
  <2>1. fd'[d] # NULL
    <3>1. initrd_header \in Modules \union {Temp} /\ 0 \in 0 .. inputs[i].size
      BY <1>1, <1>5, HeaderInUse DEF IsInputs
    <3>2. NULL # [inode |-> i - 1, position |-> 0, type |-> "file"]
      BY <1>3, <1>5, <3>1, ReaderNullAssumption
    <3> QED BY <1>7, <3>2
  <2>2. ValidInode(d)'
    BY <1>1, <1>3, <1>6, <1>7, <2>1 DEF ValidInode, Ready, headerVars, num_files
  <2> QED BY <1>1, <1>3, <1>5, <1>6, <1>7, <1>8, <2>2 DEF Handle, headerVars
<1>10. \A j \in 1 .. i - 1 : disk[j].name # disk[i].name
  <2>1. \A j \in 1 .. i - 1 : j \in DOMAIN inputs
    BY <1>5 DEF IsInputs
  <2> QED BY <1>2, <1>5, <1>8, <2>1
<1>11. Abstract!Open(d, i)
  BY <1>1, <1>4, <1>7, <1>9, <1>10, OneHandle DEF Abstract!Open
<1>12. i \in DOMAIN disk
  BY <1>5, <1>8
<1> QED BY <1>1, <1>4, <1>5, <1>11, <1>12 DEF Abstract!Next

(* What a descriptor of a file is in the abstract: NULL is none.           *)
LEMMA HandleOfFile ==
  ASSUME ReaderIInv, given = 1, NEW d \in Descriptors, ValidInode(d)
  PROVE  /\ Handle(d) = [bytes |-> Bytes(Input(d)), pos |-> fd[d].position]
         /\ Handle(d) # NULL
         /\ Len(Bytes(Input(d))) = Input(d).size
         /\ Input(d).size \in Nat /\ FileOf(d).size = Input(d).size
         /\ fd[d].position \in 0 .. Input(d).size
PROOF
<1>1. PICK inputs : inputs = initrd_header.inputs
  OBVIOUS
<1>2. PICK i : i = fd[d].inode + 1
  OBVIOUS
<1>3. /\ IsInputs(inputs) /\ i \in DOMAIN inputs /\ Input(d) = inputs[i]
      /\ initrd_header \in Modules \union {Temp}
  BY <1>1, <1>2, OpenedFile DEF ReaderIInv, Input
<1>4. /\ fd[d].position \in Nat /\ Input(d).size \in Nat /\ FileOf(d).size = Input(d).size
      /\ Handle(d) = [bytes |-> Bytes(Input(d)), pos |-> fd[d].position]
  BY OpenedFile DEF ReaderIInv
<1>5. fd[d].position \in 0 .. Input(d).size
  BY <1>4 DEF ReaderIInv
<1>6. Len(Bytes(Input(d))) = Input(d).size
  BY <1>3, FileBytes
<1>7. Handle(d) # NULL
  BY <1>1, <1>3, <1>4, <1>5, ReaderNullAssumption
<1> QED BY <1>4, <1>5, <1>6, <1>7

(* A step that moves a descriptor inside its file.                         *)
LEMMA HandleMoved ==
  ASSUME ReaderIInv, given = 1, NEW d \in Descriptors, ValidInode(d),
         UNCHANGED headerVars, NEW p \in 0 .. Input(d).size, fd' = [fd EXCEPT ![d].position = p]
  PROVE  /\ Handle(d)' = [bytes |-> Bytes(Input(d)), pos |-> p]
         /\ \A e \in Descriptors \ {d} : fd'[e] = fd[e]
PROOF
<1>1. InitrdIInv /\ fd[d] \in Fds /\ fd[d].inode # NULL
  BY ValidFile DEF ReaderIInv, ValidInode
<1>2. PICK k \in Nat : k = fd[d].inode
  BY <1>1 DEF Fds
<1>3. fd[d] = [inode |-> k, position |-> fd[d].position, type |-> "file"]
  BY <1>1, <1>2 DEF InitrdIInv, TypeOK, Fds, ValidInode
<1>4. fd'[d] = [fd[d] EXCEPT !.position = p] /\ \A e \in Descriptors \ {d} : fd'[e] = fd[e]
  BY <1>1 DEF InitrdIInv
<1>5. fd'[d] = [inode |-> k, position |-> p, type |-> "file"]
  BY <1>3, <1>4
<1>6. PICK inputs : inputs = initrd_header.inputs
  OBVIOUS
<1>7. k + 1 \in DOMAIN inputs /\ (k + 1) - 1 = k /\ Input(d) = inputs[k + 1]
      /\ initrd_header \in Modules \union {Temp}
  BY <1>1, <1>2, <1>6, OpenedFile DEF Input
<1>8. fd'[d] # NULL
  <2>1. p \in 0 .. inputs[k + 1].size
    BY <1>7
  <2>2. NULL # [inode |-> (k + 1) - 1, position |-> p, type |-> "file"]
    BY <1>6, <1>7, <2>1, ReaderNullAssumption
  <2> QED BY <1>5, <1>7, <2>2
<1>9. ValidInode(d)'
  BY <1>2, <1>5, <1>8 DEF ValidInode, Ready, headerVars, num_files
<1>10. Input(d)' = Input(d)
  BY <1>2, <1>5 DEF Input, headerVars
<1> QED BY <1>4, <1>5, <1>9, <1>10 DEF Handle, Input

(* initrd_seek: to a place in the file.                                    *)
LEMMA SeekSeeks ==
  ASSUME ReaderIInv, given = 1, NEW d \in Descriptors, NEW offset \in 0 .. MaxRead, Seek(d, offset)
  PROVE  Abstract!Next
PROOF
<1>1. /\ ValidInode(d) /\ UNCHANGED <<headerVars, delivered>> /\ offset <= FileOf(d).size
      /\ fd' = [fd EXCEPT ![d].position = offset]
  BY DEF Seek
<1>2. PICK bytes : bytes = Bytes(Input(d))
  OBVIOUS
<1>3. offset \in 0 .. Input(d).size /\ Len(bytes) = Input(d).size
  BY <1>1, <1>2, HandleOfFile, MaxReadAssumption
<1>4. Handle(d) = [bytes |-> bytes, pos |-> fd[d].position] /\ Handle(d) # NULL
  BY <1>1, <1>2, HandleOfFile
<1>5. Handle(d)' = [bytes |-> bytes, pos |-> offset] /\ \A e \in Descriptors \ {d} : fd'[e] = fd[e]
  BY <1>1, <1>2, <1>3, HandleMoved
<1>6. PICK handle : handle = [e \in Descriptors |-> Handle(e)]
  OBVIOUS
<1>7. [e \in Descriptors |-> Handle(e)]' = [handle EXCEPT ![d] = Handle(d)']
  BY <1>1, <1>5, <1>6, OneHandle
<1>8. [handle EXCEPT ![d] = Handle(d)'] = [handle EXCEPT ![d].pos = offset]
  <2>1. handle[d] = [bytes |-> bytes, pos |-> fd[d].position]
    BY <1>4, <1>6
  <2>2. [handle[d] EXCEPT !.pos = offset] = [bytes |-> bytes, pos |-> offset]
    BY <2>1
  <2> QED BY <1>5, <2>2
<1>9. Abstract!Seek(d, offset)
  BY <1>1, <1>3, <1>4, <1>5, <1>6, <1>7, <1>8, OneHandle DEF Abstract!Seek
<1> QED BY <1>3, <1>4, <1>9 DEF Abstract!Next

(* initrd_read: the next bytes of the file, as many as are left.           *)
LEMMA ReadReads ==
  ASSUME ReaderIInv, given = 1, DataOfHeader,
         NEW d \in Descriptors, NEW size \in 0 .. MaxRead, Read(d, size)
  PROVE  Abstract!Next
PROOF
<1>1. ValidInode(d) /\ UNCHANGED headerVars
  BY DEF Read
<1>2. PICK bytes : bytes = Bytes(Input(d))
  OBVIOUS
<1>3. PICK n : n = ToRead(d, size)
  OBVIOUS
<1>4. PICK pos : pos = fd[d].position
  OBVIOUS
<1>5. /\ n \in Nat /\ n <= Input(d).size /\ pos + n <= Input(d).size
      /\ delivered' = SubSeq(bytes, pos + 1, pos + n)
  BY <1>2, <1>3, <1>4, ReadDelivers, MaxReadAssumption
<1>6. /\ Handle(d) = [bytes |-> bytes, pos |-> pos] /\ Handle(d) # NULL
      /\ Len(bytes) = Input(d).size /\ pos \in Nat /\ Input(d).size \in Nat
  BY <1>1, <1>2, <1>4, HandleOfFile
<1>7. PICK end : end = pos + n
  OBVIOUS
<1>8. fd' = [fd EXCEPT ![d].position = end] /\ end \in 0 .. Input(d).size
  BY <1>3, <1>4, <1>5, <1>6, <1>7 DEF Read
<1>9. Handle(d)' = [bytes |-> bytes, pos |-> end] /\ \A e \in Descriptors \ {d} : fd'[e] = fd[e]
  BY <1>1, <1>2, <1>8, HandleMoved
<1>10. PICK handle : handle = [e \in Descriptors |-> Handle(e)]
  OBVIOUS
<1>11. [e \in Descriptors |-> Handle(e)]' = [handle EXCEPT ![d] = Handle(d)']
  BY <1>1, <1>9, <1>10, OneHandle
<1>12. handle[d] = [bytes |-> bytes, pos |-> pos] /\ handle[d] # NULL
  BY <1>6, <1>10
<1>13. [handle EXCEPT ![d] = Handle(d)'] = [handle EXCEPT ![d].pos = end]
  <2>1. [handle[d] EXCEPT !.pos = end] = [bytes |-> bytes, pos |-> end]
    BY <1>12
  <2> QED BY <1>9, <2>1
<1>14. Abstract!Read(d, n)
  <2>1. handle[d].bytes = bytes /\ handle[d].pos = pos
    BY <1>12
  <2>2. (IF pos + n <= Len(bytes) THEN pos + n ELSE Len(bytes)) = end
    BY <1>5, <1>6, <1>7
  <2>3. delivered' = SubSeq(bytes, pos + 1, end)
    BY <1>5, <1>7
  <2>4. UNCHANGED (IF Ready THEN DiskOf(initrd_header) ELSE NULL)
    BY <1>1 DEF headerVars, Ready
  <2>5. /\ handle[d] # NULL
        /\ LET length == Len(handle[d].bytes)
               stop   == IF handle[d].pos + n <= length THEN handle[d].pos + n ELSE length
           IN  /\ delivered' = SubSeq(handle[d].bytes, handle[d].pos + 1, stop)
               /\ [e \in Descriptors |-> Handle(e)]' = [handle EXCEPT ![d].pos = stop]
    BY <1>11, <1>12, <1>13, <2>1, <2>2, <2>3
  <2> QED BY <1>10, <2>4, <2>5 DEF Abstract!Read
<1>15. n \in 0 .. Len(bytes)
  BY <1>5, <1>6
<1> QED BY <1>6, <1>14, <1>15 DEF Abstract!Next

(* The driver reads as FileReader promises, for any images, descriptors    *)
(* and sizes: with one module whose data is that of its header, every call *)
(* is a step of the abstract file system or leaves it alone.               *)
THEOREM ReadsTheFile == Spec => ImplementsFileReader
PROOF
<1>1. Init => Abstract!Init
  <2> SUFFICES ASSUME Init PROVE Abstract!Init
    OBVIOUS
  <2>1. \A d \in Descriptors : Handle(d) = NULL
    BY DEF Init, Handle, ValidInode
  <2> QED BY <2>1 DEF Init, Abstract!Init, Ready
<1>2. Init => ReaderIInv
  BY InitrdInitOK DEF Init, ReaderIInv
<1>3. ReaderIInv /\ [Next]_initrdVars =>
        [(given' = 1 /\ DataOfHeader') => [Abstract!Next]_(Abstract!readerVars)]_initrdVars
  <2> SUFFICES ASSUME ReaderIInv, [Next]_initrdVars, given' = 1, DataOfHeader'
               PROVE  [Abstract!Next]_(Abstract!readerVars)
    OBVIOUS
  <2>1. ASSUME UNCHANGED <<headerVars, fd, delivered>>
        PROVE  UNCHANGED Abstract!readerVars
    BY <2>1 DEF Abstract!readerVars, headerVars, Handle, ValidInode, Ready, num_files
  <2>2. ASSUME UNCHANGED headerVars PROVE given = 1 /\ DataOfHeader
    BY <2>2 DEF headerVars, DataOfHeader, Ready
  <2>3. ASSUME NEW module \in Modules, InitInitrd(module)
        PROVE  [Abstract!Next]_(Abstract!readerVars)
    BY <2>3, InitProvides
  <2>4. ASSUME NEW d \in Descriptors, OpenRoot(d)
        PROVE  Abstract!Next
    BY <2>4, OpenRootOpens
  <2>5. ASSUME NEW d \in Descriptors, NEW name \in Names, OpenFile(d, name)
        PROVE  Abstract!Next
    BY <2>5, OpenFileOpens
  <2>6. ASSUME NEW d \in Descriptors, NEW n \in 0 .. MaxRead, Read(d, n)
        PROVE  Abstract!Next
    <3>1. given = 1 /\ DataOfHeader
      BY <2>2, <2>6 DEF Read
    <3> QED BY <2>6, <3>1, ReadReads
  <2>7. ASSUME NEW d \in Descriptors, NEW n \in 0 .. MaxRead, Seek(d, n)
        PROVE  Abstract!Next
    <3>1. given = 1
      BY <2>2, <2>7 DEF Seek
    <3> QED BY <2>7, <3>1, SeekSeeks
  <2>8. ASSUME NEW d \in Descriptors, ReaddirEnd(d) \/ ReaddirNext(d)
        PROVE  UNCHANGED Abstract!readerVars
    BY <2>1, <2>8 DEF ReaddirEnd, ReaddirNext
  <2>9. CASE UNCHANGED initrdVars
    BY <2>1, <2>9 DEF initrdVars
  <2> QED BY <2>3, <2>4, <2>5, <2>6, <2>7, <2>8, <2>9 DEF Next
<1> QED BY <1>1, <1>2, <1>3, ReaderNextOK, PTL DEF Spec, ImplementsFileReader

=============================================================================
