------------------------ MODULE InitrdImage_proofs ------------------------
(***************************************************************************)
(* The image: where create_initrd puts the bytes of each file, for any     *)
(* number of files of any size.                                            *)
(***************************************************************************)
EXTENDS InitrdImage, SequenceTheorems, FiniteSetTheorems, WellFoundedInduction, TLAPS

(* Inputs of the tool, and the bytes an image of them is made of.          *)
IsInputs(inputs) ==
  /\ DOMAIN inputs = 1 .. Len(inputs)
  /\ Len(inputs) \in Nat
  /\ \A i \in DOMAIN inputs : inputs[i].size \in Nat

BytesOf(inputs) == UNION {{<<inputs[i], k>> : k \in Nat} : i \in DOMAIN inputs}

(* Induction over the files of an image: a set of numbers with 1 and, with *)
(* each, the next one, has all up to n.                                    *)
LEMMA UpTo ==
  ASSUME NEW S, NEW n \in Nat, 1 \in S, \A m \in 1 .. n - 1 : m \in S => m + 1 \in S
  PROVE  \A m \in 1 .. n : m \in S
PROOF
<1> DEFINE Missing == {m \in 1 .. n : m \notin S}
           T == {0 .. m : m \in Missing}
<1> SUFFICES ASSUME Missing # {} PROVE FALSE
  OBVIOUS
<1>1. IsWellFoundedOn(StrictSubsetOrdering(Nat), FiniteSubsetsOf(Nat))
  BY FS_StrictSubsetOrderingWellFounded
<1>2. T \subseteq FiniteSubsetsOf(Nat) /\ T # {}
  <2>1. \A m \in Missing : 0 .. m \in SUBSET Nat /\ IsFiniteSet(0 .. m)
    BY FS_Interval
  <2> QED BY <2>1 DEF FiniteSubsetsOf
<1>3. PICK x \in T : \A y \in T : ~ (<<y, x>> \in StrictSubsetOrdering(Nat))
  <2> HIDE DEF T
  <2> QED BY <1>1, <1>2, WFMin
<1>4. PICK m \in Missing : x = 0 .. m
  OBVIOUS
<1>5. CASE m = 1
  BY <1>5
<1>6. CASE m # 1
  <2>1. m - 1 \in 1 .. n - 1 /\ (m - 1) + 1 = m /\ m - 1 \in 1 .. n
    BY <1>6
  <2>2. m - 1 \notin S
    BY <2>1
  <2>3. 0 .. m - 1 \in T /\ 0 .. m - 1 \subseteq 0 .. m /\ m \in 0 .. m /\ m \notin 0 .. m - 1
    BY <2>1, <2>2
  <2>4. <<0 .. m - 1, 0 .. m>> \in (SUBSET Nat) \X (SUBSET Nat)
    BY <2>1
  <2> QED BY <1>3, <1>4, <2>3, <2>4 DEF StrictSubsetOrdering
<1> QED BY <1>5, <1>6

(* The loop in add_file that sums up the sizes is well defined.            *)
LEMMA OffsetDefined ==
  ASSUME NEW inputs, IsInputs(inputs)
  PROVE  \E o : o = [k \in DOMAIN inputs |-> IF k = 1 THEN 0 ELSE o[k - 1] + inputs[k - 1].size]
PROOF
<1> DEFINE n == Len(inputs)
           Sums(m, o) == o = [k \in 1 .. m |-> IF k = 1 THEN 0 ELSE o[k - 1] + inputs[k - 1].size]
           S == {m \in Nat : \E o : Sums(m, o)}
<1>1. n \in Nat /\ DOMAIN inputs = 1 .. n
  BY DEF IsInputs
<1>2. 0 \in S
  <2>1. Sums(0, [k \in 1 .. 0 |-> 0])
    OBVIOUS
  <2> QED BY <2>1
<1>3. 1 \in S
  <2>1. Sums(1, [k \in 1 .. 1 |-> 0])
    OBVIOUS
  <2> QED BY <2>1
<1>4. ASSUME NEW m \in 1 .. n - 1, m \in S PROVE m + 1 \in S
  <2>1. PICK o : Sums(m, o)
    BY <1>4
  <2> DEFINE p == [k \in 1 .. m + 1 |-> IF k = m + 1 THEN o[m] + inputs[m].size ELSE o[k]]
  <2>2. m \in Nat /\ m >= 1
    BY <1>1
  <2>3. ASSUME NEW k \in 1 .. m + 1
        PROVE  p[k] = IF k = 1 THEN 0 ELSE p[k - 1] + inputs[k - 1].size
    <3>1. CASE k = m + 1
      <4>1. p[k] = o[m] + inputs[m].size /\ p[m] = o[m] /\ k - 1 = m /\ k # 1
        BY <2>2, <3>1
      <4> HIDE DEF p
      <4> QED BY <4>1
    <3>2. CASE k # m + 1
      <4>1. k \in 1 .. m /\ p[k] = o[k]
        BY <2>2, <3>2
      <4>2. o[k] = IF k = 1 THEN 0 ELSE o[k - 1] + inputs[k - 1].size
        BY <2>1, <4>1
      <4>3. k # 1 => p[k - 1] = o[k - 1]
        BY <2>2, <4>1
      <4> HIDE DEF p
      <4> QED BY <4>1, <4>2, <4>3
    <3> QED BY <3>1, <3>2
  <2>4. Sums(m + 1, p)
    <3>1. p = [k \in 1 .. m + 1 |-> p[k]]
      OBVIOUS
    <3> HIDE DEF p
    <3> QED BY <2>3, <3>1
  <2>5. m + 1 \in Nat
    BY <2>2
  <2> HIDE DEF p, Sums
  <2> QED BY <2>4, <2>5
<1>5. n \in S
  <2> HIDE DEF S
  <2>1. n = 0 \/ n \in 1 .. n
    BY <1>1
  <2> QED BY <1>1, <1>2, <1>3, <1>4, <2>1, UpTo
<1> QED BY <1>1, <1>5

(* The offset of a file is that of the one before it and its size.         *)
LEMMA OffsetSteps ==
  ASSUME NEW inputs, IsInputs(inputs)
  PROVE  /\ 1 \in DOMAIN inputs => Offset(inputs, 1) = 0
         /\ \A i \in 1 .. Len(inputs) - 1 :
              Offset(inputs, i + 1) = Offset(inputs, i) + inputs[i].size
         /\ \A i \in DOMAIN inputs : Offset(inputs, i) \in Nat
PROOF
<1> DEFINE n == Len(inputs)
<1>1. n \in Nat /\ DOMAIN inputs = 1 .. n /\ \A i \in 1 .. n : inputs[i].size \in Nat
  BY DEF IsInputs
<1>2. PICK o : /\ o = [k \in DOMAIN inputs |-> IF k = 1 THEN 0 ELSE o[k - 1] + inputs[k - 1].size]
               /\ \A i : Offset(inputs, i) = o[i]
  <2> DEFINE o == CHOOSE o : o = [k \in DOMAIN inputs |->
                                    IF k = 1 THEN 0 ELSE o[k - 1] + inputs[k - 1].size]
  <2>1. o = [k \in DOMAIN inputs |-> IF k = 1 THEN 0 ELSE o[k - 1] + inputs[k - 1].size]
    BY OffsetDefined
  <2>2. \A i : Offset(inputs, i) = o[i]
    BY DEF Offset
  <2> HIDE DEF o
  <2> QED BY <2>1, <2>2
<1>3. 1 \in 1 .. n => o[1] = 0
  BY <1>1, <1>2
<1>4. ASSUME NEW i \in 1 .. n - 1 PROVE o[i + 1] = o[i] + inputs[i].size
  <2>1. i + 1 \in DOMAIN inputs /\ i + 1 # 1 /\ (i + 1) - 1 = i
    BY <1>1
  <2> QED BY <1>2, <2>1
<1>5. ASSUME NEW i \in 1 .. n PROVE o[i] \in Nat
  <2> DEFINE S == {m \in 1 .. n : o[m] \in Nat}
  <2>1. 1 \in S
    BY <1>1, <1>3
  <2>2. ASSUME NEW m \in 1 .. n - 1, m \in S PROVE m + 1 \in S
    <3>1. m \in 1 .. n /\ m + 1 \in 1 .. n
      BY <1>1
    <3> QED BY <1>1, <1>4, <2>2, <3>1
  <2> HIDE DEF S
  <2>3. i \in S
    BY <1>1, <2>1, <2>2, UpTo
  <2> QED BY <2>3 DEF S
<1>6. 1 \in DOMAIN inputs => Offset(inputs, 1) = 0
  BY <1>1, <1>2, <1>3
<1>7. ASSUME NEW i \in 1 .. Len(inputs) - 1
      PROVE  Offset(inputs, i + 1) = Offset(inputs, i) + inputs[i].size
  BY <1>2, <1>4
<1>8. ASSUME NEW i \in DOMAIN inputs PROVE Offset(inputs, i) \in Nat
  <2>1. o[i] \in Nat
    BY <1>1, <1>5
  <2>2. Offset(inputs, i) = o[i]
    BY <1>2
  <2> QED BY <2>1, <2>2
<1> QED BY <1>6, <1>7, <1>8

(* So is what add_file appends, file after file: a list of lists put       *)
(* together from the first to the last.                                    *)
LEMMA FlattenDefined ==
  ASSUME NEW seqs, NEW n \in Nat
  PROVE  \E f : f = [i \in 1 .. n |-> IF i = 1 THEN seqs[i] ELSE f[i - 1] \o seqs[i]]
PROOF
<1> DEFINE Puts(m, f) == f = [i \in 1 .. m |-> IF i = 1 THEN seqs[i] ELSE f[i - 1] \o seqs[i]]
           S == {m \in Nat : \E f : Puts(m, f)}
<1>1. 0 \in S
  <2>1. Puts(0, [i \in 1 .. 0 |-> 0])
    OBVIOUS
  <2> QED BY <2>1
<1>2. 1 \in S
  <2>1. Puts(1, [i \in 1 .. 1 |-> seqs[1]])
    OBVIOUS
  <2> QED BY <2>1
<1>3. ASSUME NEW m \in 1 .. n - 1, m \in S PROVE m + 1 \in S
  <2>1. PICK f : Puts(m, f)
    BY <1>3
  <2> PICK next : next = f[m] \o seqs[m + 1]
    OBVIOUS
  <2> DEFINE g == [i \in 1 .. m + 1 |-> IF i = m + 1 THEN next ELSE f[i]]
  <2>2. m \in Nat /\ m >= 1
    OBVIOUS
  <2>3. ASSUME NEW i \in 1 .. m + 1
        PROVE  g[i] = IF i = 1 THEN seqs[i] ELSE g[i - 1] \o seqs[i]
    <3>1. CASE i = m + 1
      <4>1. m \in 1 .. m + 1 /\ m # m + 1 /\ i - 1 = m /\ i # 1
        BY <2>2, <3>1
      <4>2. g[i] = next
        BY <3>1
      <4>3. g[m] = f[m]
        BY <4>1
      <4> HIDE DEF g
      <4>4. next = g[i - 1] \o seqs[i]
        BY <3>1, <4>1, <4>3
      <4> QED BY <4>1, <4>2, <4>4
    <3>2. CASE i # m + 1
      <4>1. i \in 1 .. m /\ g[i] = f[i]
        BY <2>2, <3>2
      <4>2. f[i] = IF i = 1 THEN seqs[i] ELSE f[i - 1] \o seqs[i]
        BY <2>1, <4>1
      <4>3. i # 1 => g[i - 1] = f[i - 1]
        BY <2>2, <4>1
      <4> HIDE DEF g
      <4> QED BY <4>1, <4>2, <4>3
    <3> QED BY <3>1, <3>2
  <2>4. Puts(m + 1, g)
    <3>1. g = [i \in 1 .. m + 1 |-> g[i]]
      OBVIOUS
    <3> HIDE DEF g
    <3> QED BY <2>3, <3>1
  <2>5. m + 1 \in Nat
    BY <2>2
  <2> HIDE DEF g, Puts
  <2> QED BY <2>4, <2>5
<1>4. n \in S
  <2> HIDE DEF S
  <2>1. n = 0 \/ n \in 1 .. n
    OBVIOUS
  <2> QED BY <1>1, <1>2, <1>3, <2>1, UpTo
<1> QED BY <1>4

(* Flattening goes from the first to the last.                             *)
LEMMA FlattenSteps ==
  ASSUME NEW seqs, Len(seqs) \in Nat, Len(seqs) # 0
  PROVE  \E f : /\ f[1] = seqs[1]
                /\ \A m \in 1 .. Len(seqs) - 1 : f[m + 1] = f[m] \o seqs[m + 1]
                /\ FlattenSeq(seqs) = f[Len(seqs)]
PROOF
<1> DEFINE f == CHOOSE f : f = [i \in 1 .. Len(seqs) |->
                                  IF i = 1 THEN seqs[i] ELSE f[i - 1] \o seqs[i]]
<1>1. f = [i \in 1 .. Len(seqs) |-> IF i = 1 THEN seqs[i] ELSE f[i - 1] \o seqs[i]]
  BY FlattenDefined
<1>2. FlattenSeq(seqs) = f[Len(seqs)]
  BY DEF FlattenSeq
<1> HIDE DEF f
<1>3. f[1] = seqs[1]
  <2>1. 1 \in 1 .. Len(seqs)
    OBVIOUS
  <2> QED BY <1>1, <2>1
<1>4. ASSUME NEW m \in 1 .. Len(seqs) - 1 PROVE f[m + 1] = f[m] \o seqs[m + 1]
  <2>1. m + 1 \in 1 .. Len(seqs) /\ m + 1 # 1 /\ (m + 1) - 1 = m
    OBVIOUS
  <2> QED BY <1>1, <2>1
<1> QED BY <1>2, <1>3, <1>4

(* The bytes of a file are in the image from its offset on.                *)
LEMMA FileBytes ==
  ASSUME NEW inputs, IsInputs(inputs), NEW i \in DOMAIN inputs
  PROVE  /\ Bytes(inputs[i]) \in Seq(BytesOf(inputs))
         /\ Len(Bytes(inputs[i])) = inputs[i].size
         /\ \A k \in 1 .. inputs[i].size : Bytes(inputs[i])[k] = <<inputs[i], k>>
PROOF
<1>1. inputs[i].size \in Nat
  BY DEF IsInputs
<1>2. Bytes(inputs[i]) \in [1 .. inputs[i].size -> BytesOf(inputs)]
  BY <1>1 DEF Bytes, BytesOf
<1>3. Bytes(inputs[i]) \in Seq(BytesOf(inputs))
  BY <1>1, <1>2, IsASeq
<1>4. DOMAIN Bytes(inputs[i]) = 1 .. inputs[i].size /\ DOMAIN Bytes(inputs[i]) = 1 .. Len(Bytes(inputs[i]))
      /\ Len(Bytes(inputs[i])) \in Nat
  BY <1>2, <1>3, LenProperties
<1> QED BY <1>1, <1>3, <1>4 DEF Bytes

(* What appending does, element by element.                                *)
LEMMA Appended ==
  ASSUME NEW S, NEW r \in Seq(S), NEW t \in Seq(S), NEW u, u = r \o t
  PROVE  /\ u \in Seq(S)
         /\ Len(u) = Len(r) + Len(t)
         /\ \A x \in 1 .. Len(r) : u[x] = r[x]
         /\ \A x \in 1 .. Len(t) : u[Len(r) + x] = t[x]
PROOF
<1>1. r \o t \in Seq(S) /\ Len(r \o t) = Len(r) + Len(t) /\ Len(r) \in Nat /\ Len(t) \in Nat
  BY ConcatProperties, LenProperties
<1>2. \A x \in 1 .. Len(r) + Len(t) : (r \o t)[x] = IF x <= Len(r) THEN r[x] ELSE t[x - Len(r)]
  BY ConcatProperties
<1>3. ASSUME NEW x \in 1 .. Len(r) PROVE (r \o t)[x] = r[x]
  <2>1. x \in 1 .. Len(r) + Len(t) /\ x <= Len(r)
    BY <1>1
  <2> QED BY <1>2, <2>1
<1>4. ASSUME NEW x \in 1 .. Len(t) PROVE (r \o t)[Len(r) + x] = t[x]
  <2>1. PICK y \in 1 .. Len(r) + Len(t) : y = Len(r) + x
    BY <1>1
  <2>2. ~(y <= Len(r)) /\ y - Len(r) = x
    BY <1>1, <2>1
  <2>3. (r \o t)[y] = t[x]
    BY <1>2, <2>2
  <2> QED BY <2>1, <2>3
<1> QED BY <1>1, <1>3, <1>4

(* What add_file writes at the offset it notes in the header is the file,  *)
(* whole and from its first byte on.                                       *)
LEMMA DataLaidOut ==
  ASSUME NEW inputs, IsInputs(inputs), NEW i \in DOMAIN inputs
  PROVE  /\ Len(Data(inputs)) \in Nat
         /\ Offset(inputs, i) \in Nat
         /\ \A k \in 1 .. inputs[i].size :
              /\ Offset(inputs, i) + k <= Len(Data(inputs))
              /\ Data(inputs)[Offset(inputs, i) + k] = <<inputs[i], k>>
PROOF
<1> DEFINE n == Len(inputs)
           size(j) == inputs[j].size
           off(j) == Offset(inputs, j)
           seqs == [j \in DOMAIN inputs |-> Bytes(inputs[j])]
           B == BytesOf(inputs)
<1>1. n \in Nat /\ DOMAIN inputs = 1 .. n /\ n # 0 /\ \A j \in 1 .. n : size(j) \in Nat
  BY DEF IsInputs
<1>2. Len(seqs) = n
  <2>1. seqs \in [1 .. n -> {Bytes(inputs[j]) : j \in 1 .. n}]
    BY <1>1
  <2>2. seqs \in Seq({Bytes(inputs[j]) : j \in 1 .. n})
    BY <1>1, <2>1, IsASeq
  <2>3. DOMAIN seqs = 1 .. n /\ DOMAIN seqs = 1 .. Len(seqs) /\ Len(seqs) \in Nat
    BY <2>1, <2>2, LenProperties
  <2> HIDE DEF seqs, n
  <2> QED BY <1>1, <2>3
<1>3. /\ off(1) = 0
      /\ \A m \in 1 .. n - 1 : off(m + 1) = off(m) + size(m)
      /\ \A j \in 1 .. n : off(j) \in Nat
  <2>1. 1 \in 1 .. n
    BY <1>1
  <2> QED BY <1>1, <2>1, OffsetSteps
<1>4. \A j \in 1 .. n : /\ seqs[j] \in Seq(B) /\ Len(seqs[j]) = size(j)
                        /\ \A k \in 1 .. size(j) : seqs[j][k] = <<inputs[j], k>>
  BY <1>1, FileBytes
<1>5. PICK f : /\ f[1] = seqs[1]
               /\ \A m \in 1 .. n - 1 : f[m + 1] = f[m] \o seqs[m + 1]
               /\ FlattenSeq(seqs) = f[n]
  BY <1>1, <1>2, FlattenSteps
<1>6. Data(inputs) = f[n]
  BY <1>5 DEF Data
<1> DEFINE Laid(m) ==
      /\ f[m] \in Seq(B) /\ Len(f[m]) = off(m) + size(m)
      /\ \A j \in 1 .. m : \A k \in 1 .. size(j) :
           off(j) + k <= off(m) + size(m) /\ f[m][off(j) + k] = <<inputs[j], k>>
    S == {m \in 1 .. n : Laid(m)}
<1> HIDE DEF seqs, off, size, B, n
<1>7. 1 \in S
  <2>1. 1 \in 1 .. n /\ size(1) \in Nat /\ off(1) = 0 /\ f[1] = seqs[1]
    BY <1>1, <1>3, <1>5
  <2>2. f[1] \in Seq(B) /\ Len(f[1]) = size(1) /\ \A k \in 1 .. size(1) : f[1][k] = <<inputs[1], k>>
    BY <1>4, <2>1
  <2>3. off(1) + size(1) = size(1) /\ \A k \in 1 .. size(1) : off(1) + k = k /\ k <= size(1)
    BY <2>1
  <2>4. ASSUME NEW j \in 1 .. 1, NEW k \in 1 .. size(j)
        PROVE  off(j) + k <= off(1) + size(1) /\ f[1][off(j) + k] = <<inputs[j], k>>
    <3>1. j = 1
      OBVIOUS
    <3> QED BY <2>2, <2>3, <3>1
  <2>5. Laid(1)
    BY <2>2, <2>3, <2>4
  <2> QED BY <2>1, <2>5
<1>8. ASSUME NEW m \in 1 .. n - 1, m \in S PROVE m + 1 \in S
  <2>1. m \in 1 .. n /\ m + 1 \in 1 .. n /\ m \in Nat
    BY <1>1
  <2>2. PICK r : r = f[m]
    OBVIOUS
  <2>3. PICK t : t = seqs[m + 1]
    OBVIOUS
  <2>4. PICK u : u = r \o t /\ u = f[m + 1]
    BY <1>5, <2>2, <2>3
  <2>5. r \in Seq(B) /\ Len(r) = off(m) + size(m) /\ Len(r) = off(m + 1) /\ Len(r) \in Nat
    BY <1>1, <1>3, <1>8, <2>1, <2>2
  <2>6. t \in Seq(B) /\ Len(t) = size(m + 1) /\ Len(t) \in Nat
    BY <1>1, <1>4, <2>1, <2>3
  <2>7. \A k \in 1 .. Len(t) : t[k] = <<inputs[m + 1], k>>
    BY <1>4, <2>1, <2>3, <2>6
  <2>8. \A j \in 1 .. m : \A k \in 1 .. size(j) : off(j) + k <= Len(r) /\ r[off(j) + k] = <<inputs[j], k>>
    BY <1>8, <2>2, <2>5
  <2>9. u = r \o t /\ r \in Seq(B) /\ t \in Seq(B)
    BY <2>4, <2>5, <2>6
  <2>10. u \in Seq(B) /\ Len(u) = Len(r) + Len(t)
    BY <2>9, Appended
  <2>11. \A x \in 1 .. Len(r) : u[x] = r[x]
    BY <2>9, Appended
  <2>12. \A x \in 1 .. Len(t) : u[Len(r) + x] = t[x]
    BY <2>9, Appended
  <2>13. ASSUME NEW j \in 1 .. m + 1, NEW k \in 1 .. size(j)
         PROVE  off(j) + k <= Len(r) + Len(t) /\ u[off(j) + k] = <<inputs[j], k>>
    <3>1. off(j) \in Nat /\ size(j) \in Nat /\ k \in Nat /\ k >= 1
      BY <1>1, <1>3, <2>1
    <3>2. CASE j \in 1 .. m
      <4>1. off(j) + k <= Len(r) /\ r[off(j) + k] = <<inputs[j], k>>
        BY <2>8, <3>2
      <4>2. off(j) + k \in 1 .. Len(r) /\ off(j) + k <= Len(r) + Len(t)
        BY <2>5, <2>6, <3>1, <4>1
      <4>3. u[off(j) + k] = r[off(j) + k]
        BY <2>11, <4>2
      <4> QED BY <4>1, <4>2, <4>3
    <3>3. CASE j = m + 1
      <4>1. k \in 1 .. Len(t) /\ off(j) + k = Len(r) + k
        BY <2>5, <2>6, <3>1, <3>3
      <4>2. Len(r) + k <= Len(r) + Len(t)
        BY <2>5, <2>6, <4>1
      <4>3. u[Len(r) + k] = t[k] /\ t[k] = <<inputs[j], k>>
        BY <2>7, <2>12, <3>3, <4>1
      <4> QED BY <4>1, <4>2, <4>3
    <3>4. j \in 1 .. m \/ j = m + 1
      BY <2>1
    <3> QED BY <3>2, <3>3, <3>4
  <2>14. Laid(m + 1)
    <3>1. f[m + 1] = u /\ off(m + 1) + size(m + 1) = Len(r) + Len(t)
      BY <2>4, <2>5, <2>6
    <3> QED BY <2>10, <2>13, <3>1
  <2> HIDE DEF Laid
  <2> QED BY <2>1, <2>14
<1>9. n \in S
  <2> HIDE DEF S
  <2>1. n \in 1 .. n
    BY <1>1
  <2> QED BY <1>1, <1>7, <1>8, <2>1, UpTo
<1>10. Laid(n)
  <2> HIDE DEF Laid
  <2> QED BY <1>9
<1>11. ASSUME NEW k \in 1 .. inputs[i].size
       PROVE  /\ Offset(inputs, i) + k <= Len(Data(inputs))
              /\ Data(inputs)[Offset(inputs, i) + k] = <<inputs[i], k>>
  <2>1. i \in 1 .. n /\ k \in 1 .. size(i)
    BY <1>1 DEF size
  <2>2. off(i) + k <= Len(f[n]) /\ f[n][off(i) + k] = <<inputs[i], k>>
    BY <1>10, <2>1
  <2> QED BY <1>6, <2>2 DEF off
<1>12. Len(Data(inputs)) \in Nat
  BY <1>6, <1>10, LenProperties
<1>13. Offset(inputs, i) \in Nat
  BY OffsetSteps
<1> QED BY <1>11, <1>12, <1>13

=============================================================================
