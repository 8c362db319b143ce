-------------------------- MODULE Interrupts_proofs --------------------------
(***************************************************************************)
(* How the kernel is entered and left, for any number of the general       *)
(* registers, of processes and of ticks: how interrupt_init leaves the     *)
(* chips; that whatever interrupts what, between whichever instructions,   *)
(* the frames on the kernel stack stay apart; and how deep they lie.       *)
(***************************************************************************)
EXTENDS Interrupts, FiniteSetTheorems, SequenceTheorems, TLAPS

(***************************************************************************)
(* interrupt_init: what the chips know after so many writes.               *)
(***************************************************************************)
Expected ==
  IF setup \in 1..2 THEN 2 ELSE IF setup \in 3..4 THEN 3 ELSE IF setup \in 5..6 THEN 4 ELSE 0

Chip    == [expects : {0, 2, 3, 4}, base : Int, masked : SUBSET (0..7)]
Channel == [half : {"low", "high"}, low : Int, reload : Int]

SetupOK ==
  /\ setup \in 0..15
  /\ pic1 \in Chip /\ pic1.expects = Expected
  /\ pic2 \in Chip /\ pic2.expects = 0
  /\ setup >= 3 => pic1.base = 32
  /\ setup >= 9 => pic1.masked = {2, 3, 5, 6, 7}
  /\ setup >= 10 => pic2.masked = 0..7
  /\ setup >= 11 => idt = idt_init
  /\ pit \in Channel
  /\ setup \in {12, 14, 15} => pit.half = "low"
  /\ setup = 13 => pit.half = "high" /\ pit.low = 11931 % 256
  /\ setup >= 14 => pit.reload = 11931

-----------------------------------------------------------------------------
(***************************************************************************)
(* A context is what the CPU has of one activity: the place it executes,   *)
(* its registers and the stack.  The activities nest: the first is a       *)
(* process, kmain or switch_to_process, each other one handles what        *)
(* interrupted the one before.                                             *)
(***************************************************************************)
Depth == Len(saved) + 1

Cpu == [eip |-> eip, reg |-> reg, kstack |-> kstack]

ContextAt(i) == IF i <= Len(saved) THEN saved[i] ELSE Cpu

(* A sequence, of whatever its elements are.                               *)
IsSeq(q) == q \in Seq({q[i] : i \in DOMAIN q})

RegNames == GPR \union {"esp"}

ContextTyped(c) ==
  /\ c.reg = [r \in RegNames |-> c.reg[r]]
  /\ IsSeq(c.kstack)

(* What precedes the instructions all stubs have in common: 2 words pushed *)
(* or, where the CPU pushed the error code itself, 1.                      *)
Pad(v) == IF v \in ErrorHandlers THEN 0 ELSE 1

Error(v) == IF v \in PushesErrorCode THEN ErrorCode(v) ELSE Num(0)

(* The height of the stack with the place interrupted on top of it.        *)
Base(s) == IF s.eip[1] = "user" THEN 5 ELSE Len(s.kstack) + 3

(* What the CPU pushed for the interrupt s, on the stack k, with the stack *)
(* of the interrupted kernel code below.                                   *)
EntryOK(s, k) ==
  /\ Len(k) >= Base(s)
  /\ k[Base(s)] = s.eip
  /\ k[Base(s) - 1] = Cs(IF s.eip[1] = "user" THEN 3 ELSE 0)
  /\ s.eip[1] = "user" => k[2] = s.reg["esp"] /\ s.kstack = <<>>
  /\ s.eip[1] # "user" => \A i \in 1..Len(s.kstack) : k[i] = s.kstack[i]

(* The first h words of what the stub and the CPU push on top of that: the *)
(* error code, the vector, where the frame begins, the registers.          *)
FrameOK(s, k, h) ==
  LET b == Base(s)
  IN  /\ Len(k) = b + h
      /\ h >= 1 => k[b + 1] = Error(s.vector)
      /\ h >= 2 => k[b + 2] = Num(s.vector)
      /\ \A j \in 1..N : j <= h - 3 => k[b + 3 + j] = s.reg[cpu_state[N + 1 - j]]

Restored(s, c, j) == \A i \in 1..j : c.reg[cpu_state[i]] = s.reg[cpu_state[i]]

(* The stub of the vector, n instructions on.                              *)
StubOK(s, c, n) ==
  /\ c.eip = StubAt(s.vector, n + Pad(s.vector))
  /\ \/ n \in {0, 1, 2, 3} /\ n + Pad(s.vector) > 0 /\ FrameOK(s, c.kstack, n) /\ c.reg = s.reg
        /\ (n = 3 => c.kstack[Base(s) + 3] = Num(Base(s) + 2))
     \/ n \in 4..(4 + N) /\ FrameOK(s, c.kstack, n - 1) /\ c.reg = s.reg
        /\ c.kstack[Base(s) + 3] = Num(Base(s))
     \/ n \in (5 + N)..(5 + 2 * N) /\ FrameOK(s, c.kstack, 8 + 2 * N - n) /\ Restored(s, c, n - 5 - N)
        /\ c.kstack[Base(s) + 3] = Num(Base(s))
     \/ n = 6 + 2 * N /\ FrameOK(s, c.kstack, 0) /\ Restored(s, c, N)

(* interrupt_handler and what it calls, with its return address on top.    *)
HandlerOK(s, c, n) ==
  LET b == Base(s)
  IN  /\ c.eip = HandlerAt(s.vector, n)
      /\ n \in 1..3
      /\ n = 3 => s.vector = PIT_INT_IDX
      /\ FrameOK(s, c.kstack, N + 4)
      /\ c.kstack[b + 3] = Num(b)
      /\ c.kstack[b + N + 4] = StubAt(s.vector, 5 + N + Pad(s.vector))

(* The context c handles the interrupt s, when processes up to the last    *)
(* have been entered.                                                      *)
Handles(s, c, last) ==
  \/ EntryOK(s, c.kstack) /\ c.reg["esp"] = s.reg["esp"]
     /\ \/ \E n \in 0..(6 + 2 * N) : StubOK(s, c, n)
        \/ \E n \in 1..3 : HandlerOK(s, c, n)
  \/ c.eip = Hlt(s.vector)
  \/ \E p \in 0..last : c.eip \in {SwitchAt(p, 1), SwitchAt(p, 2)}

(* The first context.                                                      *)
First(c, last) ==
  \/ c.eip = Kmain
  \/ \E p \in 0..last : c.eip = User(p) /\ c.kstack = <<>>
  \/ \E p \in 0..last : c.eip \in {SwitchAt(p, 1), SwitchAt(p, 2)}
  \/ \E p \in 0..last, j \in 0..N :
       /\ c.eip = SwitchAt(p, 3 + j)
       /\ c.kstack = PreparedFrame(p)
       /\ \A i \in 1..j : c.reg[cpu_state[i]] = Context(p)[cpu_state[i]]

(* Exceptions and system calls come from user mode, and page faults of a   *)
(* system call and of page_fault_handler.                                  *)
Exceptions == (0..31) \ {21, 29}

Vectors == Exceptions \union {PIT_INT_IDX, 33, SYSCALL_INT_IDX}

CauseOK(s) ==
  /\ s.vector \in Vectors
  /\ s.vector \notin {14, PIT_INT_IDX, 33} => s.eip[1] = "user"
  /\ s.vector = 14 => \/ s.eip[1] = "user"
                      \/ s.eip = HandlerAt(SYSCALL_INT_IDX, 2)
                      \/ s.eip = HandlerAt(14, 2)

(* switch_to_process enters the newest process, unless another one         *)
(* interrupts it for good.                                                 *)
Switching(i) == ContextAt(i).eip[1] = "switch"

SwitchesOK ==
  \A i \in 1..Depth : Switching(i) =>
    ContextAt(i).eip[2] = current \/ \E j \in (i + 1)..Depth : Switching(j)

Nested ==
  /\ IsSeq(saved)
  /\ current \in Nat
  /\ \A i \in 1..Depth : ContextTyped(ContextAt(i))
  /\ First(ContextAt(1), current)
  /\ \A i \in 1..Len(saved) : CauseOK(saved[i]) /\ Handles(saved[i], ContextAt(i + 1), current)

EntryIInv == SetupOK /\ PicTypeOK /\ Nested /\ SwitchesOK

-----------------------------------------------------------------------------
(***************************************************************************)
(* How deep interrupts nest.                                               *)
(***************************************************************************)

(* Where the handler of a tick has not acknowledged it.                    *)
Unacknowledged == {HandlerAt(PIT_INT_IDX, n) : n \in 1..2}
                    \union {StubAt(PIT_INT_IDX, n + 1) : n \in 0..(4 + N)}

Unserved(i) == saved[i].vector = PIT_INT_IDX /\ ContextAt(i + 1).eip \in Unacknowledged

Keys == {i \in 1..Len(saved) : saved[i].vector = 33}

Pending == IF Timer \in irr THEN 1 ELSE 0

LinesOK ==
  /\ \A i \in 1..Len(saved) : Unserved(i) => Timer \in isr
  /\ \A i, j \in 1..Len(saved) : Unserved(i) /\ Unserved(j) => i = j
  /\ Keys # {} => Keyboard \in isr
  /\ \A i, j \in Keys : i = j
  /\ late \in Nat
  /\ Ticks(saved) # {} => Cardinality(Ticks(saved)) + Pending <= 1 + late

(* A page fault of page_fault_handler is not one of its handling another.  *)
FaultsOK ==
  \A i \in 2..Len(saved) :
    saved[i].vector = 14 /\ saved[i].eip = HandlerAt(14, 2)
      => saved[i - 1].eip # HandlerAt(14, 2)

InterruptsIInv == EntryIInv /\ LinesOK /\ FaultsOK

-----------------------------------------------------------------------------
(***************************************************************************)
(* interrupt_init.                                                         *)
(***************************************************************************)

(* Putting lists together.                                                 *)
LEMMA Joined ==
  ASSUME NEW S, NEW r \in Seq(S), NEW t \in Seq(S)
  PROVE  /\ r \o t \in Seq(S)
         /\ Len(r \o t) = Len(r) + Len(t)
         /\ \A k \in 1..Len(r) : (r \o t)[k] = r[k]
         /\ \A k \in 1..Len(t) : (r \o t)[Len(r) + k] = t[k]
PROOF
<1> DEFINE u == r \o t
<1>1. Len(r) \in Nat /\ Len(t) \in Nat
  BY LenProperties
<1>2. u \in Seq(S)
  BY ConcatProperties
<1>3. Len(u) = Len(r) + Len(t)
  BY ConcatProperties
<1>4. \A k \in 1..(Len(r) + Len(t)) : u[k] = IF k <= Len(r) THEN r[k] ELSE t[k - Len(r)]
  BY ConcatProperties
<1> HIDE DEF u
<1>5. \A k \in 1..Len(r) : u[k] = r[k]
  BY <1>1, <1>4
<1>6. \A k \in 1..Len(t) : u[Len(r) + k] = t[k]
  <2> TAKE k \in 1..Len(t)
  <2>1. Len(r) + k \in 1..(Len(r) + Len(t)) /\ ~(Len(r) + k <= Len(r)) /\ Len(r) + k - Len(r) = k
    BY <1>1
  <2> QED BY <1>4, <2>1
<1> QED BY <1>2, <1>3, <1>5, <1>6 DEF u

(* The fifteen writes, in the pieces interrupt_init makes them in.         *)
LEMMA FifteenWrites ==
  ASSUME NEW S, NEW a1 \in S, NEW a2 \in S, NEW a3 \in S, NEW a4 \in S, NEW a5 \in S,
         NEW a6 \in S, NEW a7 \in S, NEW a8 \in S, NEW m1 \in S, NEW m2 \in S, NEW i \in S,
         NEW c \in S, NEW l \in S, NEW h \in S, NEW s \in S
  PROVE  LET w == ((<<a1, a2, a3, a4, a5, a6, a7, a8>> \o <<m1, m2>>) \o <<i>>)
                    \o (<<c>> \o <<l, h>>) \o <<s>>
         IN  /\ Len(w) = 15
             /\ w[1] = a1 /\ w[2] = a2 /\ w[3] = a3 /\ w[4] = a4 /\ w[5] = a5
             /\ w[6] = a6 /\ w[7] = a7 /\ w[8] = a8 /\ w[9] = m1 /\ w[10] = m2
             /\ w[11] = i /\ w[12] = c /\ w[13] = l /\ w[14] = h /\ w[15] = s
PROOF
<1> DEFINE ra == <<a1, a2, a3, a4, a5, a6, a7, a8>>
           rm == <<m1, m2>>
           ri == <<i>>
           rc == <<c>>
           rl == <<l, h>>
           rs == <<s>>
           w1 == ra \o rm
           w2 == w1 \o ri
           w3 == rc \o rl
           w4 == w2 \o w3
           w5 == w4 \o rs
<1>1. /\ ra \in Seq(S) /\ Len(ra) = 8 /\ ra[1] = a1 /\ ra[2] = a2 /\ ra[3] = a3 /\ ra[4] = a4
      /\ ra[5] = a5 /\ ra[6] = a6 /\ ra[7] = a7 /\ ra[8] = a8
  OBVIOUS
<1>2. rm \in Seq(S) /\ Len(rm) = 2 /\ rm[1] = m1 /\ rm[2] = m2
  OBVIOUS
<1>3. ri \in Seq(S) /\ Len(ri) = 1 /\ ri[1] = i
  OBVIOUS
<1>4. rc \in Seq(S) /\ Len(rc) = 1 /\ rc[1] = c
  OBVIOUS
<1>5. rl \in Seq(S) /\ Len(rl) = 2 /\ rl[1] = l /\ rl[2] = h
  OBVIOUS
<1>6. rs \in Seq(S) /\ Len(rs) = 1 /\ rs[1] = s
  OBVIOUS
<1>7. w5 = ((<<a1, a2, a3, a4, a5, a6, a7, a8>> \o <<m1, m2>>) \o <<i>>)
             \o (<<c>> \o <<l, h>>) \o <<s>>
  OBVIOUS
<1> HIDE DEF ra, rm, ri, rc, rl, rs
<1>8. /\ w1 \in Seq(S) /\ Len(w1) = Len(ra) + Len(rm)
      /\ \A k \in 1..Len(ra) : w1[k] = ra[k]
      /\ \A k \in 1..Len(rm) : w1[Len(ra) + k] = rm[k]
  <2>1. ra \in Seq(S) /\ rm \in Seq(S)
    BY <1>1, <1>2
  <2> QED BY <2>1, Joined
<1> HIDE DEF w1
<1>9. /\ w2 \in Seq(S) /\ Len(w2) = Len(w1) + Len(ri)
      /\ \A k \in 1..Len(w1) : w2[k] = w1[k]
      /\ \A k \in 1..Len(ri) : w2[Len(w1) + k] = ri[k]
  <2>1. w1 \in Seq(S) /\ ri \in Seq(S)
    BY <1>3, <1>8
  <2> QED BY <2>1, Joined
<1> HIDE DEF w2
<1>10. /\ w3 \in Seq(S) /\ Len(w3) = Len(rc) + Len(rl)
       /\ \A k \in 1..Len(rc) : w3[k] = rc[k]
       /\ \A k \in 1..Len(rl) : w3[Len(rc) + k] = rl[k]
  <2>1. rc \in Seq(S) /\ rl \in Seq(S)
    BY <1>4, <1>5
  <2> QED BY <2>1, Joined
<1> HIDE DEF w3
<1>11. /\ w4 \in Seq(S) /\ Len(w4) = Len(w2) + Len(w3)
       /\ \A k \in 1..Len(w2) : w4[k] = w2[k]
       /\ \A k \in 1..Len(w3) : w4[Len(w2) + k] = w3[k]
  <2>1. w2 \in Seq(S) /\ w3 \in Seq(S)
    BY <1>9, <1>10
  <2> QED BY <2>1, Joined
<1> HIDE DEF w4
<1>12. /\ w5 \in Seq(S) /\ Len(w5) = Len(w4) + Len(rs)
       /\ \A k \in 1..Len(w4) : w5[k] = w4[k]
       /\ \A k \in 1..Len(rs) : w5[Len(w4) + k] = rs[k]
  <2>1. w4 \in Seq(S) /\ rs \in Seq(S)
    BY <1>6, <1>11
  <2> QED BY <2>1, Joined
<1> HIDE DEF w5
<1>13. /\ Len(w1) = 10 /\ w1[1] = a1 /\ w1[2] = a2 /\ w1[3] = a3 /\ w1[4] = a4 /\ w1[5] = a5
       /\ w1[6] = a6 /\ w1[7] = a7 /\ w1[8] = a8 /\ w1[9] = m1 /\ w1[10] = m2
  BY <1>1, <1>2, <1>8
<1>14. /\ Len(w2) = 11 /\ w2[11] = i /\ \A k \in 1..10 : w2[k] = w1[k]
  BY <1>3, <1>9, <1>13
<1>15. Len(w3) = 3 /\ w3[1] = c /\ w3[2] = l /\ w3[3] = h
  BY <1>4, <1>5, <1>10
<1>16. /\ Len(w4) = 14 /\ w4[12] = c /\ w4[13] = l /\ w4[14] = h
       /\ \A k \in 1..11 : w4[k] = w2[k]
  BY <1>11, <1>14, <1>15
<1>17. Len(w5) = 15 /\ w5[15] = s /\ \A k \in 1..14 : w5[k] = w4[k]
  BY <1>6, <1>12, <1>16
<1>18. /\ w5[1] = a1 /\ w5[2] = a2 /\ w5[3] = a3 /\ w5[4] = a4 /\ w5[5] = a5
       /\ w5[6] = a6 /\ w5[7] = a7 /\ w5[8] = a8 /\ w5[9] = m1 /\ w5[10] = m2
       /\ w5[11] = i /\ w5[12] = c /\ w5[13] = l /\ w5[14] = h
  BY <1>13, <1>14, <1>16, <1>17
<1> QED BY <1>7, <1>17, <1>18, Zenon

(* What interrupt_init writes, in order.                                   *)
LEMMA WritesAre ==
  /\ Len(Writes) = 15
  /\ Writes[1] = <<"PIC1_A", 17>> /\ Writes[2] = <<"PIC2_A", 32>>
  /\ Writes[3] = <<"PIC1_B", 32>> /\ Writes[4] = <<"PIC2_B", 40>>
  /\ Writes[5] = <<"PIC1_B", 4>> /\ Writes[6] = <<"PIC2_B", 2>>
  /\ Writes[7] = <<"PIC1_B", 5>> /\ Writes[8] = <<"PIC2_B", 1>>
  /\ Writes[9] = <<"PIC1_B", 236>> /\ Writes[10] = <<"PIC2_B", 255>>
  /\ Writes[11] = <<"IDT", 0>> /\ Writes[12] = <<"PIT_COMMAND", 54>>
  /\ Writes[13] = <<"PIT_0", Divider(Interval) % 256>>
  /\ Writes[14] = <<"PIT_0", Divider(Interval) \div 256>>
  /\ Writes[15] = <<"STI", 0>>
PROOF
<1> DEFINE a1 == <<"PIC1_A", 17>>
           a2 == <<"PIC2_A", 32>>
           a3 == <<"PIC1_B", 32>>
           a4 == <<"PIC2_B", 40>>
           a5 == <<"PIC1_B", 4>>
           a6 == <<"PIC2_B", 2>>
           a7 == <<"PIC1_B", 5>>
           a8 == <<"PIC2_B", 1>>
           m1 == <<"PIC1_B", 236>>
           m2 == <<"PIC2_B", 255>>
           i == <<"IDT", 0>>
           c == <<"PIT_COMMAND", 54>>
           l == <<"PIT_0", Divider(Interval) % 256>>
           h == <<"PIT_0", Divider(Interval) \div 256>>
           s == <<"STI", 0>>
           w == ((<<a1, a2, a3, a4, a5, a6, a7, a8>> \o <<m1, m2>>) \o <<i>>)
                  \o (<<c>> \o <<l, h>>) \o <<s>>
           S == {a1, a2, a3, a4, a5, a6, a7, a8, m1, m2, i, c, l, h, s}
<1>1. Writes = w
  BY DEF Writes, pic_init, IcwWrites, pic_mask, pit_init, pit_set_interval,
         PIC1_ICW1, PIC1_ICW2, PIC2_ICW1
<1> HIDE DEF a1, a2, a3, a4, a5, a6, a7, a8, m1, m2, i, c, l, h, s
<1>2. /\ a1 \in S /\ a2 \in S /\ a3 \in S /\ a4 \in S /\ a5 \in S /\ a6 \in S /\ a7 \in S
      /\ a8 \in S /\ m1 \in S /\ m2 \in S /\ i \in S /\ c \in S /\ l \in S /\ h \in S /\ s \in S
  OBVIOUS
<1> HIDE DEF S
<1>3. /\ Len(w) = 15
      /\ w[1] = a1 /\ w[2] = a2 /\ w[3] = a3 /\ w[4] = a4 /\ w[5] = a5
      /\ w[6] = a6 /\ w[7] = a7 /\ w[8] = a8 /\ w[9] = m1 /\ w[10] = m2
      /\ w[11] = i /\ w[12] = c /\ w[13] = l /\ w[14] = h /\ w[15] = s
  BY <1>2, FifteenWrites
<1> HIDE DEF w
<1> QED BY <1>1, <1>3 DEF a1, a2, a3, a4, a5, a6, a7, a8, m1, m2, i, c, l, h, s

(* The lines a mask leaves closed, and the bit that starts an              *)
(* initialisation.                                                         *)
LEMMA BitsAre ==
  /\ 4 \in Bits(17) /\ 4 \notin Bits(32)
  /\ Bits(236) = {2, 3, 5, 6, 7}
  /\ Bits(255) = 0..7
PROOF
<1>1. 4 \in Bits(17) /\ 4 \notin Bits(32)
  BY DEF Bits
<1>2. 2^0 = 1 /\ 2^1 = 2 /\ 2^2 = 4 /\ 2^3 = 8 /\ 2^4 = 16 /\ 2^5 = 32 /\ 2^6 = 64 /\ 2^7 = 128
  OBVIOUS
<1>3. \A q \in 0..7 : q = 0 \/ q = 1 \/ q = 2 \/ q = 3 \/ q = 4 \/ q = 5 \/ q = 6 \/ q = 7
  OBVIOUS
<1>4. ASSUME NEW q \in 0..7
      PROVE  /\ (236 \div 2^q) % 2 = 1 <=> q \in {2, 3, 5, 6, 7}
             /\ (255 \div 2^q) % 2 = 1
  <2>1. CASE q = 0
    BY <1>2, <2>1
  <2>2. CASE q = 1
    BY <1>2, <2>2
  <2>3. CASE q = 2
    BY <1>2, <2>3
  <2>4. CASE q = 3
    BY <1>2, <2>4
  <2>5. CASE q = 4
    BY <1>2, <2>5
  <2>6. CASE q = 5
    BY <1>2, <2>6
  <2>7. CASE q = 6
    BY <1>2, <2>7
  <2>8. CASE q = 7
    BY <1>2, <2>8
  <2> QED BY <1>3, <2>1, <2>2, <2>3, <2>4, <2>5, <2>6, <2>7, <2>8
<1>5. Bits(236) = {2, 3, 5, 6, 7}
  <2>1. \A q \in 0..7 : q \in Bits(236) <=> q \in {2, 3, 5, 6, 7}
    BY <1>4 DEF Bits
  <2>2. Bits(236) \subseteq 0..7 /\ {2, 3, 5, 6, 7} \subseteq 0..7
    BY DEF Bits
  <2> HIDE DEF Bits
  <2> QED BY <2>1, <2>2
<1>6. Bits(255) = 0..7
  BY <1>4 DEF Bits
<1> QED BY <1>1, <1>5, <1>6

(* The timer is to count 11931 of its 1193182 cycles a second.             *)
LEMMA DividerIs == Divider(Interval) = 11931 /\ 256 * (11931 \div 256) + (11931 % 256) = 11931
BY DEF Divider, Interval, PIT_FREQUENCY

(* A word written to an 8259.                                              *)
LEMMA ChipWritten ==
  ASSUME NEW chip \in Chip, NEW byte \in Int
  PROVE  /\ 4 \in Bits(byte) =>
              LET c == PortA(chip, byte)
              IN  c \in Chip /\ c.expects = 2
         /\ 4 \notin Bits(byte) => PortA(chip, byte) = chip
         /\ chip.expects = 0 =>
              LET c == PortB(chip, byte)
              IN  c \in Chip /\ c.expects = 0 /\ c.base = chip.base /\ c.masked = Bits(byte)
         /\ chip.expects = 2 =>
              LET c == PortB(chip, byte)
              IN  c \in Chip /\ c.expects = 3 /\ c.base = byte - (byte % 8)
         /\ chip.expects = 3 =>
              LET c == PortB(chip, byte)
              IN  c \in Chip /\ c.expects = 4 /\ c.base = chip.base
         /\ chip.expects = 4 =>
              LET c == PortB(chip, byte)
              IN  c \in Chip /\ c.expects = 0 /\ c.base = chip.base
PROOF
<1> DEFINE bits == Bits(byte)
           whole == byte - (byte % 8)
<1>1. bits \in SUBSET (0..7) /\ whole \in Int
  BY DEF Bits
<1>2. /\ 4 \in bits => PortA(chip, byte) = [chip EXCEPT !.expects = 2, !.masked = {}]
      /\ 4 \notin bits => PortA(chip, byte) = chip
  BY DEF PortA
<1>3. chip.expects = 0 => PortB(chip, byte) = [chip EXCEPT !.masked = bits]
  BY DEF PortB
<1>4. chip.expects = 2 => PortB(chip, byte) = [chip EXCEPT !.expects = 3, !.base = whole]
  BY DEF PortB
<1>5. chip.expects = 3 => PortB(chip, byte) = [chip EXCEPT !.expects = 4]
  BY DEF PortB
<1>6. chip.expects = 4 => PortB(chip, byte) = [chip EXCEPT !.expects = 0]
  BY DEF PortB
<1> HIDE DEF bits, whole
<1>7. LET c == [chip EXCEPT !.expects = 2, !.masked = {}]
      IN  c \in Chip /\ c.expects = 2
  BY DEF Chip
<1>8. LET c == [chip EXCEPT !.masked = bits]
      IN  c \in Chip /\ c.expects = chip.expects /\ c.base = chip.base /\ c.masked = bits
  BY <1>1 DEF Chip
<1>9. LET c == [chip EXCEPT !.expects = 3, !.base = whole]
      IN  c \in Chip /\ c.expects = 3 /\ c.base = whole
  BY <1>1 DEF Chip
<1>10. LET c == [chip EXCEPT !.expects = 4]
       IN  c \in Chip /\ c.expects = 4 /\ c.base = chip.base
  BY DEF Chip
<1>11. LET c == [chip EXCEPT !.expects = 0]
       IN  c \in Chip /\ c.expects = 0 /\ c.base = chip.base
  BY DEF Chip
<1> QED BY <1>2, <1>3, <1>4, <1>5, <1>6, <1>7, <1>8, <1>9, <1>10, <1>11 DEF bits, whole

(* A byte written to channel 0 of the timer.                               *)
LEMMA TimerWritten ==
  ASSUME NEW p \in Channel, NEW byte \in Int
  PROVE  /\ LET q == [p EXCEPT !.half = "low"]
            IN  q \in Channel /\ q.half = "low"
         /\ p.half = "low" =>
              LET q == PitData(p, byte)
              IN  q \in Channel /\ q.half = "high" /\ q.low = byte
         /\ p.half = "high" =>
              LET q == PitData(p, byte)
              IN  q \in Channel /\ q.half = "low" /\ q.reload = 256 * byte + p.low
PROOF
<1> DEFINE n == 256 * byte + p.low
<1>1. n \in Int
  BY DEF Channel
<1>2. /\ p.half = "low" => PitData(p, byte) = [p EXCEPT !.half = "high", !.low = byte]
      /\ p.half = "high" => PitData(p, byte) = [p EXCEPT !.half = "low", !.reload = n]
  BY DEF PitData
<1> HIDE DEF n
<1>3. LET q == [p EXCEPT !.half = "low"]
      IN  q \in Channel /\ q.half = "low"
  BY DEF Channel
<1>4. LET q == [p EXCEPT !.half = "high", !.low = byte]
      IN  q \in Channel /\ q.half = "high" /\ q.low = byte
  BY DEF Channel
<1>5. LET q == [p EXCEPT !.half = "low", !.reload = n]
      IN  q \in Channel /\ q.half = "low" /\ q.reload = n
  BY <1>1 DEF Channel
<1>6. p.half = "low" =>
        PitData(p, byte) \in Channel /\ PitData(p, byte).half = "high" /\ PitData(p, byte).low = byte
  BY <1>2, <1>4
<1>7. p.half = "high" =>
        PitData(p, byte) \in Channel /\ PitData(p, byte).half = "low" /\ PitData(p, byte).reload = n
  BY <1>2, <1>5
<1> QED BY <1>3, <1>6, <1>7 DEF n

(* The constant bytes of the timer.                                        *)
LEMMA DividerBytes ==
  /\ Divider(Interval) % 256 = 11931 % 256
  /\ Divider(Interval) \div 256 = 11931 \div 256
  /\ 11931 % 256 \in Int /\ 11931 \div 256 \in Int
BY DividerIs

(* One write after the other.                                              *)
LEMMA SetupKeeps == SetupOK /\ Write => SetupOK'
PROOF
<1> SUFFICES ASSUME SetupOK, Write PROVE SetupOK'
  OBVIOUS
<1> DEFINE port == Writes[setup + 1][1]
           byte == Writes[setup + 1][2]
<1>1. /\ setup \in 0..14 /\ setup' = setup + 1
      /\ pic1' = CASE port = "PIC1_A" -> PortA(pic1, byte)
                   [] port = "PIC1_B" -> PortB(pic1, byte)
                   [] OTHER -> pic1
      /\ pic2' = CASE port = "PIC2_A" -> PortA(pic2, byte)
                   [] port = "PIC2_B" -> PortB(pic2, byte)
                   [] OTHER -> pic2
      /\ idt' = IF port = "IDT" THEN idt_init ELSE idt
      /\ pit' = CASE port = "PIT_COMMAND" -> [pit EXCEPT !.half = "low"]
                  [] port = "PIT_0" -> PitData(pit, byte)
                  [] OTHER -> pit
  BY WritesAre DEF Write, Ready, SetupOK
<1> DEFINE a1 == PortA(pic1, byte)
           b1 == PortB(pic1, byte)
           a2 == PortA(pic2, byte)
           b2 == PortB(pic2, byte)
           c0 == [pit EXCEPT !.half = "low"]
           d0 == PitData(pit, byte)
<1>2. /\ port = "PIC1_A" => pic1' = a1
      /\ port = "PIC1_B" => pic1' = b1
      /\ port \notin {"PIC1_A", "PIC1_B"} => pic1' = pic1
      /\ port = "PIC2_A" => pic2' = a2
      /\ port = "PIC2_B" => pic2' = b2
      /\ port \notin {"PIC2_A", "PIC2_B"} => pic2' = pic2
      /\ port = "IDT" => idt' = idt_init
      /\ port # "IDT" => idt' = idt
      /\ port = "PIT_COMMAND" => pit' = c0
      /\ port = "PIT_0" => pit' = d0
      /\ port \notin {"PIT_COMMAND", "PIT_0"} => pit' = pit
  <2> HIDE DEF port, a1, b1, a2, b2, c0, d0
  <2>1. /\ pic1' = CASE port = "PIC1_A" -> a1 [] port = "PIC1_B" -> b1 [] OTHER -> pic1
        /\ pic2' = CASE port = "PIC2_A" -> a2 [] port = "PIC2_B" -> b2 [] OTHER -> pic2
        /\ pit' = CASE port = "PIT_COMMAND" -> c0 [] port = "PIT_0" -> d0 [] OTHER -> pit
    BY <1>1 DEF port, a1, b1, a2, b2, c0, d0
  <2>2. idt' = IF port = "IDT" THEN idt_init ELSE idt
    BY <1>1 DEF port
  <2> QED BY <2>1, <2>2
<1>3. pic1 \in Chip /\ pic2 \in Chip /\ pic2.expects = 0 /\ pit \in Channel
  BY DEF SetupOK
<1> HIDE DEF port, byte
<1>4. ASSUME byte \in Int
      PROVE  /\ 4 \in Bits(byte) => a1 \in Chip /\ a1.expects = 2
             /\ pic1.expects = 0 =>
                  b1 \in Chip /\ b1.expects = 0 /\ b1.base = pic1.base /\ b1.masked = Bits(byte)
             /\ pic1.expects = 2 =>
                  b1 \in Chip /\ b1.expects = 3 /\ b1.base = byte - (byte % 8)
             /\ pic1.expects = 3 => b1 \in Chip /\ b1.expects = 4 /\ b1.base = pic1.base
             /\ pic1.expects = 4 => b1 \in Chip /\ b1.expects = 0 /\ b1.base = pic1.base
             /\ 4 \notin Bits(byte) => a2 = pic2
             /\ b2 \in Chip /\ b2.expects = 0 /\ b2.masked = Bits(byte)
             /\ c0 \in Channel /\ c0.half = "low"
             /\ pit.half = "low" => d0 \in Channel /\ d0.half = "high" /\ d0.low = byte
             /\ pit.half = "high" =>
                  d0 \in Channel /\ d0.half = "low" /\ d0.reload = 256 * byte + pit.low
  <2>1. byte \in Int /\ pic1 \in Chip /\ pic2 \in Chip /\ pit \in Channel
    BY <1>3, <1>4
  <2>2. /\ 4 \in Bits(byte) => a1 \in Chip /\ a1.expects = 2
        /\ pic1.expects = 0 =>
             b1 \in Chip /\ b1.expects = 0 /\ b1.base = pic1.base /\ b1.masked = Bits(byte)
        /\ pic1.expects = 2 => b1 \in Chip /\ b1.expects = 3 /\ b1.base = byte - (byte % 8)
        /\ pic1.expects = 3 => b1 \in Chip /\ b1.expects = 4 /\ b1.base = pic1.base
        /\ pic1.expects = 4 => b1 \in Chip /\ b1.expects = 0 /\ b1.base = pic1.base
    BY <2>1, ChipWritten
  <2>3. /\ 4 \notin Bits(byte) => a2 = pic2
        /\ pic2.expects = 0 => b2 \in Chip /\ b2.expects = 0 /\ b2.masked = Bits(byte)
    BY <2>1, ChipWritten
  <2>4. /\ c0 \in Channel /\ c0.half = "low"
        /\ pit.half = "low" => d0 \in Channel /\ d0.half = "high" /\ d0.low = byte
        /\ pit.half = "high" =>
             d0 \in Channel /\ d0.half = "low" /\ d0.reload = 256 * byte + pit.low
    BY <2>1, TimerWritten
  <2> QED BY <1>3, <2>2, <2>3, <2>4
<1> HIDE DEF a1, b1, a2, b2, c0, d0
<1>5. pic1.expects = Expected /\ pit \in Channel /\ setup \in 0..14 /\ setup + 1 \in 0..15
  BY <1>1 DEF SetupOK
<1>6. CASE setup = 0
  <2>1. port = "PIC1_A" /\ byte = 17 /\ setup' = 1 /\ byte \in Int
    BY <1>1, <1>6, WritesAre, DividerBytes DEF port, byte
  <2>2. Expected = 0 /\ Expected' = 2
    BY <1>6, <2>1 DEF Expected
  <2>3. QED BY <1>2, <1>3, <1>4, <1>5, <1>6, <2>1, <2>2, BitsAre, DividerIs, DividerBytes DEF SetupOK
<1>7. CASE setup = 1
  <2>1. port = "PIC2_A" /\ byte = 32 /\ setup' = 2 /\ byte \in Int
    BY <1>1, <1>7, WritesAre, DividerBytes DEF port, byte
  <2>2. Expected = 2 /\ Expected' = 2
    BY <1>7, <2>1 DEF Expected
  <2>3. QED BY <1>2, <1>3, <1>4, <1>5, <1>7, <2>1, <2>2, BitsAre, DividerIs, DividerBytes DEF SetupOK
<1>8. CASE setup = 2
  <2>1. port = "PIC1_B" /\ byte = 32 /\ setup' = 3 /\ byte \in Int
    BY <1>1, <1>8, WritesAre, DividerBytes DEF port, byte
  <2>2. Expected = 2 /\ Expected' = 3
    BY <1>8, <2>1 DEF Expected
  <2>3. QED BY <1>2, <1>3, <1>4, <1>5, <1>8, <2>1, <2>2, BitsAre, DividerIs, DividerBytes DEF SetupOK
<1>9. CASE setup = 3
  <2>1. port = "PIC2_B" /\ byte = 40 /\ setup' = 4 /\ byte \in Int
    BY <1>1, <1>9, WritesAre, DividerBytes DEF port, byte
  <2>2. Expected = 3 /\ Expected' = 3
    BY <1>9, <2>1 DEF Expected
  <2>3. QED BY <1>2, <1>3, <1>4, <1>5, <1>9, <2>1, <2>2, BitsAre, DividerIs, DividerBytes DEF SetupOK
<1>10. CASE setup = 4
  <2>1. port = "PIC1_B" /\ byte = 4 /\ setup' = 5 /\ byte \in Int
    BY <1>1, <1>10, WritesAre, DividerBytes DEF port, byte
  <2>2. Expected = 3 /\ Expected' = 4
    BY <1>10, <2>1 DEF Expected
  <2>3. QED BY <1>2, <1>3, <1>4, <1>5, <1>10, <2>1, <2>2, BitsAre, DividerIs, DividerBytes DEF SetupOK
<1>11. CASE setup = 5
  <2>1. port = "PIC2_B" /\ byte = 2 /\ setup' = 6 /\ byte \in Int
    BY <1>1, <1>11, WritesAre, DividerBytes DEF port, byte
  <2>2. Expected = 4 /\ Expected' = 4
    BY <1>11, <2>1 DEF Expected
  <2>3. QED BY <1>2, <1>3, <1>4, <1>5, <1>11, <2>1, <2>2, BitsAre, DividerIs, DividerBytes DEF SetupOK
<1>12. CASE setup = 6
  <2>1. port = "PIC1_B" /\ byte = 5 /\ setup' = 7 /\ byte \in Int
    BY <1>1, <1>12, WritesAre, DividerBytes DEF port, byte
  <2>2. Expected = 4 /\ Expected' = 0
    BY <1>12, <2>1 DEF Expected
  <2>3. QED BY <1>2, <1>3, <1>4, <1>5, <1>12, <2>1, <2>2, BitsAre, DividerIs, DividerBytes DEF SetupOK
<1>13. CASE setup = 7
  <2>1. port = "PIC2_B" /\ byte = 1 /\ setup' = 8 /\ byte \in Int
    BY <1>1, <1>13, WritesAre, DividerBytes DEF port, byte
  <2>2. Expected = 0 /\ Expected' = 0
    BY <1>13, <2>1 DEF Expected
  <2>3. QED BY <1>2, <1>3, <1>4, <1>5, <1>13, <2>1, <2>2, BitsAre, DividerIs, DividerBytes DEF SetupOK
<1>14. CASE setup = 8
  <2>1. port = "PIC1_B" /\ byte = 236 /\ setup' = 9 /\ byte \in Int
    BY <1>1, <1>14, WritesAre, DividerBytes DEF port, byte
  <2>2. Expected = 0 /\ Expected' = 0
    BY <1>14, <2>1 DEF Expected
  <2>3. QED BY <1>2, <1>3, <1>4, <1>5, <1>14, <2>1, <2>2, BitsAre, DividerIs, DividerBytes DEF SetupOK
<1>15. CASE setup = 9
  <2>1. port = "PIC2_B" /\ byte = 255 /\ setup' = 10 /\ byte \in Int
    BY <1>1, <1>15, WritesAre, DividerBytes DEF port, byte
  <2>2. Expected = 0 /\ Expected' = 0
    BY <1>15, <2>1 DEF Expected
  <2>3. QED BY <1>2, <1>3, <1>4, <1>5, <1>15, <2>1, <2>2, BitsAre, DividerIs, DividerBytes DEF SetupOK
<1>16. CASE setup = 10
  <2>1. port = "IDT" /\ byte = 0 /\ setup' = 11 /\ byte \in Int
    BY <1>1, <1>16, WritesAre, DividerBytes DEF port, byte
  <2>2. Expected = 0 /\ Expected' = 0
    BY <1>16, <2>1 DEF Expected
  <2>3. QED BY <1>2, <1>3, <1>4, <1>5, <1>16, <2>1, <2>2, BitsAre, DividerIs, DividerBytes DEF SetupOK
<1>17. CASE setup = 11
  <2>1. port = "PIT_COMMAND" /\ byte = 54 /\ setup' = 12 /\ byte \in Int
    BY <1>1, <1>17, WritesAre, DividerBytes DEF port, byte
  <2>2. Expected = 0 /\ Expected' = 0
    BY <1>17, <2>1 DEF Expected
  <2>3. QED BY <1>2, <1>3, <1>4, <1>5, <1>17, <2>1, <2>2, BitsAre, DividerIs, DividerBytes DEF SetupOK
<1>18. CASE setup = 12
  <2>1. port = "PIT_0" /\ byte = Divider(Interval) % 256 /\ setup' = 13 /\ byte \in Int
    BY <1>1, <1>18, WritesAre, DividerBytes DEF port, byte
  <2>2. Expected = 0 /\ Expected' = 0
    BY <1>18, <2>1 DEF Expected
  <2>3. QED BY <1>2, <1>3, <1>4, <1>5, <1>18, <2>1, <2>2, BitsAre, DividerIs, DividerBytes DEF SetupOK
<1>19. CASE setup = 13
  <2>1. port = "PIT_0" /\ byte = Divider(Interval) \div 256 /\ setup' = 14 /\ byte \in Int
    BY <1>1, <1>19, WritesAre, DividerBytes DEF port, byte
  <2>2. Expected = 0 /\ Expected' = 0
    BY <1>19, <2>1 DEF Expected
  <2>3. QED BY <1>2, <1>3, <1>4, <1>5, <1>19, <2>1, <2>2, BitsAre, DividerIs, DividerBytes DEF SetupOK
<1>20. CASE setup = 14
  <2>1. port = "STI" /\ byte = 0 /\ setup' = 15 /\ byte \in Int
    BY <1>1, <1>20, WritesAre, DividerBytes DEF port, byte
  <2>2. Expected = 0 /\ Expected' = 0
    BY <1>20, <2>1 DEF Expected
  <2>3. QED BY <1>2, <1>3, <1>4, <1>5, <1>20, <2>1, <2>2, BitsAre, DividerIs, DividerBytes DEF SetupOK
<1> QED BY <1>5, <1>6, <1>7, <1>8, <1>9, <1>10, <1>11, <1>12, <1>13, <1>14, <1>15, <1>16, <1>17, <1>18, <1>19, <1>20

(* Nothing writes to the chips when interrupt_init is done.                *)
LEMMA SetupStays == SetupOK /\ UNCHANGED chips => SetupOK'
BY DEF SetupOK, Expected, chips

(* The steps that leave the chips alone.                                   *)
LEMMA ChipsStay == Next => Write \/ UNCHANGED chips
PROOF
<1>1. Interrupt => UNCHANGED chips
  BY DEF Interrupt
<1>2. Instructions => UNCHANGED chips
  BY DEF Instructions, Execute, IntInstruction, Fault, Handle
<1>3. ASSUME NEW q \in Lines, RaiseLine(q)
      PROVE  UNCHANGED chips
  BY <1>3 DEF RaiseLine
<1> QED BY <1>1, <1>2, <1>3 DEF Next

(* After sti the chips are what interrupt_init made them.                  *)
THEOREM SetupInvariance == Spec => []SetupOK
PROOF
<1>1. Init => SetupOK
  <2> SUFFICES ASSUME Init PROVE SetupOK
    OBVIOUS
  <2>1. setup = 0 /\ Expected = 0
    BY DEF Init, Expected
  <2>2. pic1 \in Chip /\ pic1.expects = 0 /\ pic2 \in Chip /\ pic2.expects = 0
    BY DEF Init, Chip
  <2>3. pit \in Channel
    BY DEF Init, Channel
  <2> QED BY <2>1, <2>2, <2>3 DEF SetupOK
<1>2. SetupOK /\ [Next]_vars => SetupOK'
  <2> SUFFICES ASSUME SetupOK, [Next]_vars PROVE SetupOK'
    OBVIOUS
  <2>1. Write \/ UNCHANGED chips
    BY ChipsStay DEF vars
  <2> QED BY <2>1, SetupKeeps, SetupStays
<1> QED BY <1>1, <1>2, PTL DEF Spec

(* The vectors hardware interrupts come with, once interrupts are enabled. *)
LEMMA TheirVectors ==
  SetupOK /\ Ready => /\ HardwareVectors = {32 + q : q \in {l \in Lines : Deliverable(l)}}
                      /\ pic1.base = 32 /\ idt = idt_init
PROOF
<1> SUFFICES ASSUME SetupOK, Ready
             PROVE  /\ HardwareVectors = {32 + q : q \in {l \in Lines : Deliverable(l)}}
                    /\ pic1.base = 32 /\ idt = idt_init
  OBVIOUS
<1>1. setup = 15
  BY WritesAre DEF Ready
<1>2. /\ pic1.base = 32 /\ pic1.masked = {2, 3, 5, 6, 7}
      /\ pic2.masked = 0..7 /\ idt = idt_init
  BY <1>1 DEF SetupOK
<1>3. Lines \ pic1.masked = Lines /\ 2 \in pic1.masked
  BY <1>2 DEF Lines, Timer, Keyboard
<1>4. HardwareVectors = {32 + q : q \in {l \in Lines : Deliverable(l)}}
  BY <1>2, <1>3 DEF HardwareVectors
<1> QED BY <1>2, <1>4

(* A line interrupts through the gate that belongs to it: the vector base  *)
(* is set while the chip expects it, and the second chip is masked.        *)
THEOREM LinesKeepTheirVectors == Spec => []OwnVector
PROOF
<1>1. SetupOK => OwnVector
  BY TheirVectors DEF OwnVector
<1> QED BY <1>1, SetupInvariance, PTL

(* pit_set_interval: both bytes of the divider reach the timer.            *)
THEOREM TimerIsSet == Spec => []IntervalAsAsked
PROOF
<1>1. SetupOK => IntervalAsAsked
  <2> SUFFICES ASSUME SetupOK, Ready
               PROVE  LET error == 1000 * pit.reload - Interval * PIT_FREQUENCY
                      IN  -1000 < error /\ error < 1000
    BY DEF IntervalAsAsked
  <2>1. setup = 15
    BY WritesAre DEF Ready
  <2>2. pit.reload = 11931
    BY <2>1 DEF SetupOK
  <2> QED BY <2>2 DEF Interval, PIT_FREQUENCY
<1> QED BY <1>1, SetupInvariance, PTL

-----------------------------------------------------------------------------
(***************************************************************************)
(* Stacks of words: what a push, a pop and a frame leave of them.          *)
(***************************************************************************)

(* A sequence over any set is one of its own elements.                     *)
LEMMA SeqIs ==
  ASSUME NEW S, NEW q \in Seq(S)
  PROVE  IsSeq(q)
PROOF
<1>1. Len(q) \in Nat /\ DOMAIN q = 1..Len(q) /\ q \in [1..Len(q) -> {q[i] : i \in DOMAIN q}]
  BY LenProperties
<1> QED BY <1>1, SeqDef DEF IsSeq

(* Its indices.                                                            *)
LEMMA SeqLen ==
  ASSUME NEW q, IsSeq(q)
  PROVE  Len(q) \in Nat /\ DOMAIN q = 1..Len(q)
BY LenProperties DEF IsSeq

(* Sequences are the same that have the same elements.                     *)
LEMMA SameSeq ==
  ASSUME NEW q, NEW t, IsSeq(q), IsSeq(t), Len(q) = Len(t), \A i \in 1..Len(q) : q[i] = t[i]
  PROVE  q = t
PROOF
<1>1. q = [i \in 1..Len(q) |-> q[i]]
  BY LenProperties DEF IsSeq
<1>2. t = [i \in 1..Len(t) |-> t[i]]
  BY LenProperties DEF IsSeq
<1> DEFINE n == Len(q)
<1> HIDE DEF n
<1>3. q = [i \in 1..n |-> q[i]] /\ t = [i \in 1..n |-> t[i]] /\ \A i \in 1..n : q[i] = t[i]
  BY <1>1, <1>2 DEF n
<1> QED BY <1>3

(* One word after another.                                                 *)
LEMMA JoinedSeqs ==
  ASSUME NEW q, NEW t, IsSeq(q), IsSeq(t)
  PROVE  /\ IsSeq(q \o t)
         /\ Len(q \o t) = Len(q) + Len(t)
         /\ \A k \in 1..Len(q) : (q \o t)[k] = q[k]
         /\ \A k \in 1..Len(t) : (q \o t)[Len(q) + k] = t[k]
PROOF
<1> DEFINE S == {q[i] : i \in DOMAIN q} \union {t[i] : i \in DOMAIN t}
<1>1. q \in Seq(S) /\ t \in Seq(S)
  <2>1. q \in [1..Len(q) -> S] /\ Len(q) \in Nat
    BY LenProperties DEF IsSeq
  <2>2. t \in [1..Len(t) -> S] /\ Len(t) \in Nat
    BY LenProperties DEF IsSeq
  <2> HIDE DEF S
  <2> QED BY <2>1, <2>2, SeqDef
<1> HIDE DEF S
<1>2. /\ q \o t \in Seq(S)
      /\ Len(q \o t) = Len(q) + Len(t)
      /\ \A k \in 1..Len(q) : (q \o t)[k] = q[k]
      /\ \A k \in 1..Len(t) : (q \o t)[Len(q) + k] = t[k]
  BY <1>1, Joined
<1> QED BY <1>2, SeqIs

(* A word is pushed.                                                       *)
LEMMA Pushed ==
  ASSUME NEW q, NEW x, IsSeq(q)
  PROVE  /\ IsSeq(Append(q, x))
         /\ Len(Append(q, x)) = Len(q) + 1
         /\ Append(q, x)[Len(q) + 1] = x
         /\ \A i \in 1..Len(q) : Append(q, x)[i] = q[i]
         /\ Front(Append(q, x)) = q
PROOF
<1> DEFINE S == {q[i] : i \in DOMAIN q} \union {x}
           t == Append(q, x)
<1>1. q \in Seq(S) /\ x \in S /\ Len(q) \in Nat
  <2>1. q \in [1..Len(q) -> S] /\ Len(q) \in Nat
    BY LenProperties DEF IsSeq
  <2> QED BY <2>1, SeqDef
<1> HIDE DEF S
<1>2. t \in Seq(S)
  BY <1>1, AppendProperties
<1>3. Len(t) = Len(q) + 1
  BY <1>1, AppendProperties
<1>4. \A i \in 1..Len(q) : t[i] = q[i]
  BY <1>1, AppendProperties
<1>5. t[Len(q) + 1] = x
  BY <1>1, AppendProperties
<1>6. IsSeq(t)
  BY <1>2, SeqIs
<1> HIDE DEF t
<1>7. Front(t) = q
  <2>1. t \in Seq(S) /\ 1 \in 1..(Len(t) + 1) /\ Len(t) - 1 \in 0..Len(t)
    BY <1>1, <1>2, <1>3
  <2> DEFINE f == SubSeq(t, 1, Len(t) - 1)
  <2>2. f = Restrict(t, 1..(Len(t) - 1))
    BY <2>1, SubSeqRestrict
  <2>3. f = [i \in 1..Len(q) |-> q[i]]
    BY <1>1, <1>3, <1>4, <2>2 DEF Restrict
  <2>4. q = [i \in 1..Len(q) |-> q[i]]
    BY LenProperties DEF IsSeq
  <2> QED BY <2>3, <2>4 DEF Front
<1> QED BY <1>3, <1>4, <1>5, <1>6, <1>7 DEF t

(* The lower part of a stack.                                              *)
LEMMA Cut ==
  ASSUME NEW q, IsSeq(q), NEW m \in 0..Len(q)
  PROVE  /\ IsSeq(SubSeq(q, 1, m))
         /\ Len(SubSeq(q, 1, m)) = m
         /\ \A i \in 1..m : SubSeq(q, 1, m)[i] = q[i]
PROOF
<1> DEFINE S == {q[i] : i \in DOMAIN q}
           t == SubSeq(q, 1, m)
<1>1. q \in Seq(S) /\ Len(q) \in Nat
  BY LenProperties DEF IsSeq
<1>2. t = Restrict(q, 1..m)
  BY <1>1, SubSeqRestrict
<1>3. t = [i \in 1..m |-> q[i]]
  BY <1>2 DEF Restrict
<1>4. \A i \in 1..m : q[i] \in S
  BY <1>1, LenProperties
<1> HIDE DEF S
<1>5. [i \in 1..m |-> q[i]] \in [1..m -> S] /\ m \in Nat
  BY <1>1, <1>4
<1>6. t \in Seq(S)
  BY <1>3, <1>5, SeqDef
<1>7. Len(t) = m /\ \A i \in 1..m : t[i] = q[i]
  BY <1>1, <1>3, <1>5
<1> HIDE DEF t
<1> QED BY <1>6, <1>7, SeqIs DEF t

(* A word is popped.                                                       *)
LEMMA Popped ==
  ASSUME NEW q, IsSeq(q), Len(q) >= 1
  PROVE  /\ IsSeq(Front(q))
         /\ Len(Front(q)) = Len(q) - 1
         /\ \A i \in 1..(Len(q) - 1) : Front(q)[i] = q[i]
         /\ Last(q) = q[Len(q)]
PROOF
<1>1. Len(q) \in Nat /\ Len(q) - 1 \in 0..Len(q)
  BY SeqLen
<1>2. /\ IsSeq(SubSeq(q, 1, Len(q) - 1))
      /\ Len(SubSeq(q, 1, Len(q) - 1)) = Len(q) - 1
      /\ \A i \in 1..(Len(q) - 1) : SubSeq(q, 1, Len(q) - 1)[i] = q[i]
  BY <1>1, Cut
<1> QED BY <1>2 DEF Front, Last

(* A stub leaves out the 0 for exactly the vectors with an error code.     *)
LEMMA VectorIs ==
  \A v \in Vectors : v \in 0..255 /\ (v \in PushesErrorCode <=> v \in ErrorHandlers)
PROOF
<1> TAKE v \in Vectors
<1>1. v \in (0..31) \ {21, 29} \/ v \in {32, 33, 128}
  BY DEF Vectors, Exceptions, PIT_INT_IDX, SYSCALL_INT_IDX
<1>2. v \in 0..255 /\ v \notin {21, 29}
  BY <1>1
<1> QED BY <1>2 DEF PushesErrorCode, ErrorHandlers

(* The place interrupted is at least the third word on the stack.          *)
LEMMA BaseIs ==
  ASSUME NEW s, IsSeq(s.kstack)
  PROVE  /\ Base(s) \in Nat /\ Base(s) >= 3
         /\ s.eip[1] = "user" => Base(s) = 5
         /\ s.eip[1] # "user" => Base(s) = Len(s.kstack) + 3
BY SeqLen DEF Base

(* What is on the stack below the frame decides whether an interrupt was   *)
(* entered as it should be.                                                *)
LEMMA EntryBelow ==
  ASSUME NEW s, NEW k, NEW t, IsSeq(s.kstack), EntryOK(s, k), Len(t) >= Base(s),
         \A i \in 1..Base(s) : t[i] = k[i]
  PROVE  EntryOK(s, t)
PROOF
<1> DEFINE b == Base(s)
<1>1. b \in Nat /\ b >= 3 /\ (s.eip[1] # "user" => b = Len(s.kstack) + 3)
  BY BaseIs
<1>2. Len(s.kstack) \in Nat
  BY SeqLen
<1> HIDE DEF b
<1>3. t[b] = k[b] /\ t[b - 1] = k[b - 1] /\ t[2] = k[2]
  BY <1>1 DEF b
<1>4. s.eip[1] # "user" => \A i \in 1..Len(s.kstack) : t[i] = k[i]
  <2> SUFFICES ASSUME s.eip[1] # "user", NEW i \in 1..Len(s.kstack) PROVE t[i] = k[i]
    OBVIOUS
  <2>1. i \in 1..b
    BY <1>1, <1>2
  <2> QED BY <2>1 DEF b
<1> QED BY <1>3, <1>4 DEF EntryOK, b

(* x is the next word of the frame of the interrupt s, on the stack k.     *)
CanPush(s, k, h, x) ==
  /\ IsSeq(s.kstack) /\ IsSeq(k) /\ EntryOK(s, k) /\ FrameOK(s, k, h) /\ h \in Nat
  /\ (h = 0 => x = Error(s.vector)) /\ (h = 1 => x = Num(s.vector))
  /\ (h \in 3..(N + 2) => x = s.reg[cpu_state[N + 3 - h]])

IsPushed(s, k, h, x, t) ==
  /\ IsSeq(t) /\ EntryOK(s, t) /\ FrameOK(s, t, h + 1)
  /\ t[Base(s) + h + 1] = x
  /\ h >= 3 => t[Base(s) + 3] = k[Base(s) + 3]

(* The stub pushes the next word of the frame.                             *)
LEMMA FramePushed ==
  ASSUME NEW s, NEW k, NEW h, NEW x, CanPush(s, k, h, x)
  PROVE  IsPushed(s, k, h, x, Append(k, x))
PROOF
<1> DEFINE b == Base(s)
           t == Append(k, x)
<1>a. /\ h \in Nat /\ IsSeq(s.kstack) /\ IsSeq(k) /\ EntryOK(s, k) /\ FrameOK(s, k, h)
      /\ h = 0 => x = Error(s.vector)
      /\ h = 1 => x = Num(s.vector)
      /\ h \in 3..(N + 2) => x = s.reg[cpu_state[N + 3 - h]]
  BY DEF CanPush
<1>1. b \in Nat /\ b >= 3
  BY <1>a, BaseIs
<1> HIDE DEF b
<1>2. /\ IsSeq(t) /\ Len(t) = Len(k) + 1 /\ t[Len(k) + 1] = x
      /\ \A i \in 1..Len(k) : t[i] = k[i]
  BY <1>a, Pushed
<1> HIDE DEF t
<1>3. Len(k) = b + h
  BY <1>a DEF FrameOK, b
<1>4. Len(t) >= b /\ \A i \in 1..b : t[i] = k[i]
  BY <1>a, <1>1, <1>2, <1>3
<1>5. EntryOK(s, t)
  BY <1>a, <1>4, EntryBelow DEF b
<1>6. Len(t) = b + h + 1 /\ t[b + h + 1] = x /\ \A i \in 1..(b + h) : t[i] = k[i]
  BY <1>a, <1>1, <1>2, <1>3
<1>7. h + 1 >= 1 => t[b + 1] = Error(s.vector)
  <2>1. CASE h = 0
    BY <1>a, <1>1, <1>6, <2>1
  <2>2. CASE h >= 1
    <3>1. k[b + 1] = Error(s.vector)
      BY <1>a, <2>2 DEF FrameOK, b
    <3> QED BY <1>a, <1>1, <1>6, <2>2, <3>1
  <2> QED BY <1>a, <2>1, <2>2
<1>8. h + 1 >= 2 => t[b + 2] = Num(s.vector)
  <2>1. CASE h = 1
    BY <1>a, <1>1, <1>6, <2>1
  <2>2. CASE h >= 2
    <3>1. k[b + 2] = Num(s.vector)
      BY <1>a, <2>2 DEF FrameOK, b
    <3> QED BY <1>a, <1>1, <1>6, <2>2, <3>1
  <2> QED BY <1>a, <2>1, <2>2
<1>9. \A j \in 1..N : j <= h + 1 - 3 => t[b + 3 + j] = s.reg[cpu_state[N + 1 - j]]
  <2> SUFFICES ASSUME NEW j \in 1..N, j <= h - 2
               PROVE  t[b + 3 + j] = s.reg[cpu_state[N + 1 - j]]
    BY <1>a
  <2>1. CASE j = h - 2
    <3>1. h \in 3..(N + 2) /\ N + 3 - h = N + 1 - j /\ b + 3 + j = b + h + 1
      BY <1>a, <1>1, <2>1, InterruptsAssumption
    <3> QED BY <1>a, <1>6, <3>1
  <2>2. CASE j <= h - 3
    <3>1. k[b + 3 + j] = s.reg[cpu_state[N + 1 - j]]
      BY <1>a, <2>2 DEF FrameOK, b
    <3>2. b + 3 + j \in 1..(b + h)
      BY <1>a, <1>1, <2>2
    <3> QED BY <1>6, <3>1, <3>2
  <2> QED BY <1>a, <2>1, <2>2
<1>10. FrameOK(s, t, h + 1)
  <2>1. Len(t) = b + (h + 1)
    BY <1>a, <1>1, <1>6
  <2> QED BY <1>a, <1>7, <1>8, <1>9, <2>1 DEF FrameOK, b
<1>11. h >= 3 => t[b + 3] = k[b + 3]
  <2>1. h >= 3 => b + 3 \in 1..(b + h)
    BY <1>a, <1>1
  <2> QED BY <1>6, <2>1
<1>12. IsPushed(s, k, h, x, t)
  BY <1>2, <1>5, <1>6, <1>10, <1>11 DEF IsPushed, b
<1> QED BY <1>12 DEF t

(* The stub pops a word off the frame.                                     *)
LEMMA FramePopped ==
  ASSUME NEW s, NEW k, NEW h \in Nat,
         IsSeq(s.kstack), IsSeq(k), EntryOK(s, k), FrameOK(s, k, h), h >= 1
  PROVE  /\ IsSeq(Front(k))
         /\ EntryOK(s, Front(k))
         /\ FrameOK(s, Front(k), h - 1)
         /\ Last(k) = k[Base(s) + h]
         /\ \A i \in 1..(Base(s) + h - 1) : Front(k)[i] = k[i]
PROOF
<1> DEFINE b == Base(s)
           t == Front(k)
<1>1. b \in Nat /\ b >= 3
  BY BaseIs
<1> HIDE DEF b
<1>2. Len(k) = b + h /\ Len(k) >= 1
  BY <1>1 DEF FrameOK, b
<1>3. /\ IsSeq(t) /\ Len(t) = Len(k) - 1 /\ Last(k) = k[Len(k)]
      /\ \A i \in 1..(Len(k) - 1) : t[i] = k[i]
  BY <1>2, Popped
<1> HIDE DEF t
<1>4. Len(t) = b + (h - 1) /\ Last(k) = k[b + h] /\ \A i \in 1..(b + h - 1) : t[i] = k[i]
  BY <1>1, <1>2, <1>3
<1>5. Len(t) >= b /\ \A i \in 1..b : t[i] = k[i]
  BY <1>1, <1>4
<1>6. EntryOK(s, t)
  BY <1>5, EntryBelow DEF b
<1>7. h - 1 >= 1 => t[b + 1] = Error(s.vector)
  <2> SUFFICES ASSUME h - 1 >= 1 PROVE t[b + 1] = Error(s.vector)
    OBVIOUS
  <2>1. k[b + 1] = Error(s.vector) /\ b + 1 \in 1..(b + h - 1)
    BY <1>1 DEF FrameOK, b
  <2> QED BY <1>4, <2>1
<1>8. h - 1 >= 2 => t[b + 2] = Num(s.vector)
  <2> SUFFICES ASSUME h - 1 >= 2 PROVE t[b + 2] = Num(s.vector)
    OBVIOUS
  <2>1. k[b + 2] = Num(s.vector) /\ b + 2 \in 1..(b + h - 1)
    BY <1>1 DEF FrameOK, b
  <2> QED BY <1>4, <2>1
<1>9. \A j \in 1..N : j <= h - 1 - 3 => t[b + 3 + j] = s.reg[cpu_state[N + 1 - j]]
  <2> SUFFICES ASSUME NEW j \in 1..N, j <= h - 1 - 3
               PROVE  t[b + 3 + j] = s.reg[cpu_state[N + 1 - j]]
    OBVIOUS
  <2>1. k[b + 3 + j] = s.reg[cpu_state[N + 1 - j]] /\ b + 3 + j \in 1..(b + h - 1)
    BY <1>1 DEF FrameOK, b
  <2> QED BY <1>4, <2>1
<1>10. FrameOK(s, t, h - 1)
  BY <1>4, <1>7, <1>8, <1>9 DEF FrameOK, b
<1> QED BY <1>3, <1>4, <1>6, <1>10 DEF t, b

-----------------------------------------------------------------------------
(***************************************************************************)
(* The text of the stubs and of switch_to_process.                         *)
(***************************************************************************)

(* Short lists of instructions.                                            *)
LEMMA ShortSeqs ==
  ASSUME NEW a, NEW b
  PROVE  /\ IsSeq(<<>>) /\ Len(<<>>) = 0
         /\ IsSeq(<<a>>) /\ Len(<<a>>) = 1 /\ <<a>>[1] = a
         /\ IsSeq(<<a, b>>) /\ Len(<<a, b>>) = 2 /\ <<a, b>>[1] = a /\ <<a, b>>[2] = b
PROOF
<1> DEFINE S == {a, b}
<1>1. a \in S /\ b \in S
  OBVIOUS
<1> HIDE DEF S
<1>2. <<>> \in Seq(S) /\ <<a>> \in Seq(S) /\ <<a, b>> \in Seq(S)
  BY <1>1
<1>3. IsSeq(<<>>) /\ IsSeq(<<a>>) /\ IsSeq(<<a, b>>)
  BY <1>2, SeqIs
<1> QED BY <1>3

(* An instruction for each register.                                       *)
LEMMA EachRegister ==
  ASSUME NEW q, q = [i \in 1..N |-> q[i]]
  PROVE  IsSeq(q) /\ Len(q) = N
PROOF
<1> DEFINE S == {q[i] : i \in 1..N}
<1>1. N \in Nat
  BY InterruptsAssumption
<1>2. \A i \in 1..N : q[i] \in S
  OBVIOUS
<1> HIDE DEF S
<1>3. q \in [1..N -> S]
  BY <1>2
<1>4. q \in Seq(S)
  BY <1>1, <1>3, SeqDef
<1>5. Len(q) = N
  BY <1>1
<1> QED BY <1>4, <1>5, SeqIs

(* common_interrupt_handler, instruction by instruction.                   *)
LEMMA CommonText ==
  LET t == common_interrupt_handler
  IN  /\ IsSeq(t) /\ Len(t) = 5 + 2 * N
      /\ t[1] = <<"push esp">> /\ t[2] = <<"add [esp], 8">>
      /\ \A i \in 1..N : t[2 + i] = <<"push", cpu_state[N + 1 - i]>>
      /\ t[3 + N] = <<"call interrupt_handler">>
      /\ \A i \in 1..N : t[3 + N + i] = <<"pop", cpu_state[i]>>
      /\ t[4 + 2 * N] = <<"pop esp">> /\ t[5 + 2 * N] = <<"iret">>
PROOF
<1> DEFINE a1 == <<"push esp">>
           a2 == <<"add [esp], 8">>
           c1 == <<"call interrupt_handler">>
           d1 == <<"pop esp">>
           d2 == <<"iret">>
           a == <<a1, a2>>
           c == <<c1>>
           d == <<d1, d2>>
           t1 == a \o Pushes
           t2 == t1 \o c
           t3 == t2 \o Pops
           t4 == t3 \o d
<1>1. common_interrupt_handler = t4
  BY DEF common_interrupt_handler
<1>2. N \in Nat
  BY InterruptsAssumption
<1>3. /\ IsSeq(Pushes) /\ Len(Pushes) = N
      /\ \A i \in 1..N : Pushes[i] = <<"push", cpu_state[N + 1 - i]>>
  BY EachRegister DEF Pushes
<1>4. IsSeq(Pops) /\ Len(Pops) = N /\ \A i \in 1..N : Pops[i] = <<"pop", cpu_state[i]>>
  BY EachRegister DEF Pops
<1> HIDE DEF a1, a2, c1, d1, d2
<1>5. /\ IsSeq(a) /\ Len(a) = 2 /\ a[1] = a1 /\ a[2] = a2
      /\ IsSeq(c) /\ Len(c) = 1 /\ c[1] = c1
      /\ IsSeq(d) /\ Len(d) = 2 /\ d[1] = d1 /\ d[2] = d2
  BY ShortSeqs
<1> HIDE DEF a, c, d
<1>6. /\ IsSeq(t1) /\ Len(t1) = Len(a) + Len(Pushes)
      /\ \A k \in 1..Len(a) : t1[k] = a[k]
      /\ \A k \in 1..Len(Pushes) : t1[Len(a) + k] = Pushes[k]
  <2>1. IsSeq(a) /\ IsSeq(Pushes)
    BY <1>3, <1>5
  <2> QED BY <2>1, JoinedSeqs
<1> HIDE DEF t1
<1>7. /\ IsSeq(t2) /\ Len(t2) = Len(t1) + Len(c)
      /\ \A k \in 1..Len(t1) : t2[k] = t1[k]
      /\ \A k \in 1..Len(c) : t2[Len(t1) + k] = c[k]
  <2>1. IsSeq(t1) /\ IsSeq(c)
    BY <1>5, <1>6
  <2> QED BY <2>1, JoinedSeqs
<1> HIDE DEF t2
<1>8. /\ IsSeq(t3) /\ Len(t3) = Len(t2) + Len(Pops)
      /\ \A k \in 1..Len(t2) : t3[k] = t2[k]
      /\ \A k \in 1..Len(Pops) : t3[Len(t2) + k] = Pops[k]
  <2>1. IsSeq(t2) /\ IsSeq(Pops)
    BY <1>4, <1>7
  <2> QED BY <2>1, JoinedSeqs
<1> HIDE DEF t3
<1>9. /\ IsSeq(t4) /\ Len(t4) = Len(t3) + Len(d)
      /\ \A k \in 1..Len(t3) : t4[k] = t3[k]
      /\ \A k \in 1..Len(d) : t4[Len(t3) + k] = d[k]
  <2>1. IsSeq(t3) /\ IsSeq(d)
    BY <1>5, <1>8
  <2> QED BY <2>1, JoinedSeqs
<1> HIDE DEF t4
<1>10. Len(t1) = 2 + N /\ t1[1] = a1 /\ t1[2] = a2 /\ \A k \in 1..N : t1[2 + k] = Pushes[k]
  BY <1>2, <1>3, <1>5, <1>6
<1>11. Len(t2) = 3 + N /\ t2[3 + N] = c1 /\ \A k \in 1..(2 + N) : t2[k] = t1[k]
  BY <1>2, <1>5, <1>7, <1>10
<1>12. /\ Len(t3) = 3 + 2 * N /\ \A k \in 1..N : t3[3 + N + k] = Pops[k]
       /\ \A k \in 1..(3 + N) : t3[k] = t2[k]
  BY <1>2, <1>4, <1>8, <1>11
<1>13. /\ Len(t4) = 5 + 2 * N /\ t4[4 + 2 * N] = d1 /\ t4[5 + 2 * N] = d2
       /\ \A k \in 1..(3 + 2 * N) : t4[k] = t3[k]
  BY <1>2, <1>5, <1>9, <1>12
<1>14. t4[1] = a1 /\ t4[2] = a2
  BY <1>2, <1>10, <1>11, <1>12, <1>13
<1>15. \A i \in 1..N : t4[2 + i] = Pushes[i]
  <2> TAKE i \in 1..N
  <2>1. 2 + i \in 1..(2 + N) /\ 2 + i \in 1..(3 + N) /\ 2 + i \in 1..(3 + 2 * N)
    BY <1>2
  <2> QED BY <1>10, <1>11, <1>12, <1>13, <2>1
<1>16. t4[3 + N] = c1
  BY <1>2, <1>11, <1>12, <1>13
<1>17. \A i \in 1..N : t4[3 + N + i] = Pops[i]
  <2> TAKE i \in 1..N
  <2>1. 3 + N + i \in 1..(3 + 2 * N)
    BY <1>2
  <2> QED BY <1>12, <1>13, <2>1
<1> QED BY <1>1, <1>3, <1>4, <1>9, <1>13, <1>14, <1>15, <1>16, <1>17 DEF a1, a2, c1, d1, d2

(* The stub of a vector, with and without an error code of its own.        *)
LEMMA StubText ==
  ASSUME NEW v
  PROVE  LET t == Stub(v)
             d == Pad(v)
         IN  /\ d \in {0, 1}
             /\ d = 1 => t[1] = <<"push number", 0>>
             /\ t[1 + d] = <<"push number", v>>
             /\ \A k \in 1..(5 + 2 * N) : t[1 + d + k] = common_interrupt_handler[k]
PROOF
<1> DEFINE z == <<"push number", 0>>
           w == <<"push number", v>>
           e == IF v \in ErrorHandlers THEN <<>> ELSE <<z>>
           f == <<w>>
           c == common_interrupt_handler
           t1 == e \o f
           t2 == t1 \o c
           d == Pad(v)
<1>1. Stub(v) = t2
  BY DEF Stub
<1>2. d \in {0, 1}
  BY DEF Pad
<1> HIDE DEF z, w
<1>3. IsSeq(e) /\ Len(e) = d /\ (d = 1 => e[1] = z)
  <2>1. CASE v \in ErrorHandlers
    <3>1. e = <<>> /\ d = 0
      BY <2>1 DEF Pad
    <3> HIDE DEF e, d
    <3> QED BY <3>1, ShortSeqs
  <2>2. CASE v \notin ErrorHandlers
    <3>1. e = <<z>> /\ d = 1
      BY <2>2 DEF Pad
    <3> HIDE DEF e, d
    <3> QED BY <3>1, ShortSeqs
  <2> QED BY <2>1, <2>2
<1>4. IsSeq(f) /\ Len(f) = 1 /\ f[1] = w
  BY ShortSeqs
<1>5. IsSeq(c) /\ Len(c) = 5 + 2 * N
  BY CommonText
<1> HIDE DEF e, f, c, d
<1>6. /\ IsSeq(t1) /\ Len(t1) = Len(e) + Len(f)
      /\ \A k \in 1..Len(e) : t1[k] = e[k]
      /\ \A k \in 1..Len(f) : t1[Len(e) + k] = f[k]
  <2>1. IsSeq(e) /\ IsSeq(f)
    BY <1>3, <1>4
  <2> QED BY <2>1, JoinedSeqs
<1> HIDE DEF t1
<1>7. /\ \A k \in 1..Len(t1) : t2[k] = t1[k]
      /\ \A k \in 1..Len(c) : t2[Len(t1) + k] = c[k]
  <2>1. IsSeq(t1) /\ IsSeq(c)
    BY <1>5, <1>6
  <2> QED BY <2>1, JoinedSeqs
<1> HIDE DEF t2
<1>8. Len(t1) = 1 + d /\ t1[1 + d] = w /\ (d = 1 => t1[1] = z)
  BY <1>2, <1>3, <1>4, <1>6
<1>9. /\ d = 1 => t2[1] = z
      /\ t2[1 + d] = w
      /\ \A k \in 1..(5 + 2 * N) : t2[1 + d + k] = c[k]
  BY <1>2, <1>5, <1>7, <1>8
<1> QED BY <1>1, <1>2, <1>9 DEF z, w, c, d

(* switch_to_process, instruction by instruction.                          *)
LEMMA SwitchText ==
  LET t == switch_to_process
  IN  /\ t[1] = <<"mov cr3">> /\ t[2] = <<"mov esp">>
      /\ \A i \in 1..N : t[2 + i] = <<"mov", cpu_state[i]>>
      /\ t[3 + N] = <<"iret">>
PROOF
<1> DEFINE a1 == <<"mov cr3">>
           a2 == <<"mov esp">>
           c1 == <<"iret">>
           a == <<a1, a2>>
           m == [i \in 1..N |-> <<"mov", cpu_state[i]>>]
           c == <<c1>>
           t1 == a \o m
           t2 == t1 \o c
<1>1. switch_to_process = t2
  BY DEF switch_to_process
<1>2. N \in Nat
  BY InterruptsAssumption
<1>3. m = [i \in 1..N |-> m[i]] /\ \A i \in 1..N : m[i] = <<"mov", cpu_state[i]>>
  OBVIOUS
<1> HIDE DEF m
<1>4. IsSeq(m) /\ Len(m) = N
  BY <1>3, EachRegister
<1> HIDE DEF a1, a2, c1
<1>5. /\ IsSeq(a) /\ Len(a) = 2 /\ a[1] = a1 /\ a[2] = a2
      /\ IsSeq(c) /\ Len(c) = 1 /\ c[1] = c1
  BY ShortSeqs
<1> HIDE DEF a, c
<1>6. /\ IsSeq(t1) /\ Len(t1) = Len(a) + Len(m)
      /\ \A k \in 1..Len(a) : t1[k] = a[k]
      /\ \A k \in 1..Len(m) : t1[Len(a) + k] = m[k]
  <2>1. IsSeq(a) /\ IsSeq(m)
    BY <1>4, <1>5
  <2> QED BY <2>1, JoinedSeqs
<1> HIDE DEF t1
<1>7. /\ \A k \in 1..Len(t1) : t2[k] = t1[k]
      /\ \A k \in 1..Len(c) : t2[Len(t1) + k] = c[k]
  <2>1. IsSeq(t1) /\ IsSeq(c)
    BY <1>5, <1>6
  <2> QED BY <2>1, JoinedSeqs
<1> HIDE DEF t2
<1>8. Len(t1) = 2 + N /\ t1[1] = a1 /\ t1[2] = a2 /\ \A k \in 1..N : t1[2 + k] = m[k]
  BY <1>2, <1>4, <1>5, <1>6
<1>9. t2[1] = a1 /\ t2[2] = a2 /\ t2[3 + N] = c1 /\ \A k \in 1..N : t2[2 + k] = m[k]
  BY <1>2, <1>5, <1>7, <1>8
<1> QED BY <1>1, <1>3, <1>9 DEF a1, a2, c1

(* What the CPU executes n instructions after the common ones began.       *)
LEMMA Fetch ==
  ASSUME NEW v \in 0..255, NEW n \in 0..(6 + 2 * N), n + Pad(v) > 0, eip = StubAt(v, n + Pad(v))
  PROVE  /\ eip[1] = "stub" /\ Next1(eip) = StubAt(v, n + 1 + Pad(v))
         /\ n = 0 => Instruction = <<"push number", 0>>
         /\ n = 1 => Instruction = <<"push number", v>>
         /\ n = 2 => Instruction = <<"push esp">>
         /\ n = 3 => Instruction = <<"add [esp], 8">>
         /\ \A i \in 1..N : n = 3 + i => Instruction = <<"push", cpu_state[N + 1 - i]>>
         /\ n = 4 + N => Instruction = <<"call interrupt_handler">>
         /\ \A i \in 1..N : n = 4 + N + i => Instruction = <<"pop", cpu_state[i]>>
         /\ n = 5 + 2 * N => Instruction = <<"pop esp">>
         /\ n = 6 + 2 * N => Instruction = <<"iret">>
PROOF
<1> DEFINE d == Pad(v)
           t == Stub(v)
           c == common_interrupt_handler
<1>1. N \in Nat /\ n \in Nat /\ n <= 6 + 2 * N
  BY InterruptsAssumption
<1>2. /\ d \in {0, 1}
      /\ d = 1 => t[1] = <<"push number", 0>>
      /\ t[1 + d] = <<"push number", v>>
      /\ \A k \in 1..(5 + 2 * N) : t[1 + d + k] = c[k]
  BY StubText
<1>3. d \in Int /\ (d = 0 \/ d = 1)
  BY DEF Pad
<1>4. n + d > 0 /\ eip = StubAt(v, n + d)
  OBVIOUS
<1>5. Instruction = Text[eip[2]][eip[3]] /\ eip[1] = "stub" /\ eip[2] = v /\ eip[3] = n + d
  BY DEF StubAt, Instruction
<1>6. Instruction = t[n + d]
  BY <1>5 DEF Text
<1>7. Next1(eip) = StubAt(v, n + 1 + d)
  <2> HIDE DEF d
  <2>1. n + d \in Int /\ n + d + 1 = n + 1 + d
    BY <1>1, <1>3
  <2>2. Next1(eip) = StubAt(v, n + d + 1)
    BY <1>4, <2>1 DEF StubAt, Next1
  <2> QED BY <2>1, <2>2
<1>8. /\ c[1] = <<"push esp">> /\ c[2] = <<"add [esp], 8">>
      /\ \A i \in 1..N : c[2 + i] = <<"push", cpu_state[N + 1 - i]>>
      /\ c[3 + N] = <<"call interrupt_handler">>
      /\ \A i \in 1..N : c[3 + N + i] = <<"pop", cpu_state[i]>>
      /\ c[4 + 2 * N] = <<"pop esp">> /\ c[5 + 2 * N] = <<"iret">>
  BY CommonText
<1> HIDE DEF c, d, t
<1>9. n >= 2 => Instruction = c[n - 1]
  <2> SUFFICES ASSUME n >= 2 PROVE Instruction = c[n - 1]
    OBVIOUS
  <2>1. n - 1 \in 1..(5 + 2 * N) /\ 1 + d + (n - 1) = n + d
    BY <1>1, <1>3
  <2>2. t[1 + d + (n - 1)] = c[n - 1]
    BY <1>2, <2>1
  <2> QED BY <1>6, <2>1, <2>2
<1>10. n = 0 => Instruction = <<"push number", 0>>
  <2>1. n = 0 => d = 1 /\ n + d = 1
    BY <1>1, <1>3, <1>4
  <2> QED BY <1>2, <1>6, <2>1
<1>11. n = 1 => Instruction = <<"push number", v>>
  <2>1. n = 1 => n + d = 1 + d
    BY <1>1, <1>3
  <2> QED BY <1>2, <1>6, <2>1
<1>12. n = 2 => Instruction = <<"push esp">>
  <2>1. n = 2 => n >= 2 /\ n - 1 = 1
    OBVIOUS
  <2> QED BY <1>8, <1>9, <2>1
<1>13. n = 3 => Instruction = <<"add [esp], 8">>
  <2>1. n = 3 => n >= 2 /\ n - 1 = 2
    OBVIOUS
  <2> QED BY <1>8, <1>9, <2>1
<1>14. ASSUME NEW i \in 1..N, n = 3 + i
       PROVE  Instruction = <<"push", cpu_state[N + 1 - i]>>
  <2>1. n >= 2 /\ n - 1 = 2 + i
    BY <1>14
  <2> QED BY <1>8, <1>9, <2>1
<1>15. n = 4 + N => Instruction = <<"call interrupt_handler">>
  <2>1. n = 4 + N => n >= 2 /\ n - 1 = 3 + N
    BY <1>1
  <2> QED BY <1>8, <1>9, <2>1
<1>16. ASSUME NEW i \in 1..N, n = 4 + N + i
       PROVE  Instruction = <<"pop", cpu_state[i]>>
  <2>1. n >= 2 /\ n - 1 = 3 + N + i
    BY <1>1, <1>16
  <2> QED BY <1>8, <1>9, <2>1
<1>17. n = 5 + 2 * N => Instruction = <<"pop esp">>
  <2>1. n = 5 + 2 * N => n >= 2 /\ n - 1 = 4 + 2 * N
    BY <1>1
  <2> QED BY <1>8, <1>9, <2>1
<1>18. n = 6 + 2 * N => Instruction = <<"iret">>
  <2>1. n = 6 + 2 * N => n >= 2 /\ n - 1 = 5 + 2 * N
    BY <1>1
  <2> QED BY <1>8, <1>9, <2>1
<1> QED BY <1>5, <1>7, <1>10, <1>11, <1>12, <1>13, <1>14, <1>15, <1>16, <1>17, <1>18 DEF d

(* The same in switch_to_process.                                          *)
LEMMA FetchSwitch ==
  ASSUME NEW p, NEW n \in 1..(3 + N), eip = SwitchAt(p, n)
  PROVE  /\ eip[1] = "switch" /\ eip[2] = p /\ Next1(eip) = SwitchAt(p, n + 1)
         /\ n = 1 => Instruction = <<"mov cr3">>
         /\ n = 2 => Instruction = <<"mov esp">>
         /\ \A i \in 1..N : n = 2 + i => Instruction = <<"mov", cpu_state[i]>>
         /\ n = 3 + N => Instruction = <<"iret">>
PROOF
<1>1. eip[1] = "switch" /\ eip[2] = p /\ eip[3] = n /\ Next1(eip) = SwitchAt(p, n + 1)
  BY DEF SwitchAt, Next1
<1>2. Instruction = switch_to_process[n]
  BY <1>1 DEF Instruction
<1> QED BY <1>1, <1>2, SwitchText

(* Elsewhere there is no instruction of these.                             *)
LEMMA FetchOther == eip[1] \notin {"stub", "switch"} => Op = "other"
BY DEF Op, Instruction

-----------------------------------------------------------------------------
(***************************************************************************)
(* How a step changes the contexts: it changes the one of the CPU, adds    *)
(* one, takes one off, or leaves a single one.                             *)
(***************************************************************************)

Same(c, d) == c.eip = d.eip /\ c.reg = d.reg /\ c.kstack = d.kstack

(* What is interrupted is kept as it was.                                  *)
LEMMA SameContext ==
  ASSUME NEW c, NEW d, Same(c, d)
  PROVE  /\ ContextTyped(c) => ContextTyped(d)
         /\ \A last : First(c, last) => First(d, last)
         /\ \A s, last : Handles(s, c, last) => Handles(s, d, last)
PROOF
<1>1. c.eip = d.eip /\ c.reg = d.reg /\ c.kstack = d.kstack
  BY DEF Same
<1>2. ContextTyped(c) => ContextTyped(d)
  BY <1>1 DEF ContextTyped
<1>3. ASSUME NEW last, First(c, last) PROVE First(d, last)
  BY <1>1, <1>3 DEF First
<1>4. ASSUME NEW s, NEW n, StubOK(s, c, n) PROVE StubOK(s, d, n)
  BY <1>1, <1>4, Zenon DEF StubOK, Restored
<1>5. ASSUME NEW s, NEW n, HandlerOK(s, c, n) PROVE HandlerOK(s, d, n)
  BY <1>1, <1>5, Zenon DEF HandlerOK
<1>6. ASSUME NEW s, NEW last, Handles(s, c, last) PROVE Handles(s, d, last)
  BY <1>1, <1>4, <1>5, <1>6 DEF Handles
<1> QED BY <1>2, <1>3, <1>6

(* More processes are entered.                                             *)
LEMMA Later ==
  ASSUME NEW m \in Nat, NEW n \in Nat, m <= n
  PROVE  /\ \A c : First(c, m) => First(c, n)
         /\ \A s, c : Handles(s, c, m) => Handles(s, c, n)
PROOF
<1>1. \A p \in 0..m : p \in 0..n
  OBVIOUS
<1>2. ASSUME NEW c, First(c, m) PROVE First(c, n)
  BY <1>1, <1>2, Zenon DEF First
<1>3. ASSUME NEW s, NEW c, Handles(s, c, m) PROVE Handles(s, c, n)
  BY <1>1, <1>3, Zenon DEF Handles
<1> QED BY <1>2, <1>3

(* The contexts that are interrupted, and the one that is not.             *)
LEMMA TheContexts ==
  ASSUME Nested
  PROVE  /\ Len(saved) \in Nat /\ Depth = Len(saved) + 1
         /\ \A i \in 1..Len(saved) : ContextAt(i) = saved[i]
         /\ ContextAt(Depth) = Cpu
         /\ Last(saved) = saved[Len(saved)]
         /\ saved # <<>> => Len(saved) >= 1
         /\ saved = <<>> => Len(saved) = 0
PROOF
<1>1. IsSeq(saved)
  BY DEF Nested
<1>2. Len(saved) \in Nat
  BY <1>1, SeqLen
<1>3. saved # <<>> => Len(saved) >= 1
  <2>1. Len(saved) = 0 => saved = <<>>
    BY <1>1, ShortSeqs, SameSeq
  <2> QED BY <1>2, <2>1
<1> QED BY <1>2, <1>3 DEF Depth, ContextAt, Last

(* What the CPU is at, with nothing interrupted and otherwise.             *)
LEMMA TopIs ==
  ASSUME Nested
  PROVE  /\ ContextTyped(Cpu) /\ current \in Nat
         /\ saved = <<>> => First(Cpu, current)
         /\ saved # <<>> => /\ CauseOK(Last(saved)) /\ ContextTyped(Last(saved))
                            /\ Handles(Last(saved), Cpu, current)
PROOF
<1> PICK m \in Nat : m = Len(saved)
  BY TheContexts
<1>1. /\ Depth = m + 1 /\ (saved # <<>> => m >= 1) /\ (saved = <<>> => m = 0)
      /\ ContextAt(m + 1) = Cpu /\ Last(saved) = saved[m]
      /\ \A i \in 1..m : ContextAt(i) = saved[i]
  BY TheContexts
<1>2. /\ current \in Nat
      /\ \A i \in 1..Depth : ContextTyped(ContextAt(i))
      /\ First(ContextAt(1), current)
      /\ \A i \in 1..m : CauseOK(saved[i]) /\ Handles(saved[i], ContextAt(i + 1), current)
  BY DEF Nested
<1>3. ContextTyped(Cpu)
  <2>1. m + 1 \in 1..Depth
    BY <1>1
  <2> QED BY <1>1, <1>2, <2>1
<1>4. saved = <<>> => First(Cpu, current)
  BY <1>1, <1>2
<1>5. ASSUME saved # <<>>
      PROVE  /\ CauseOK(Last(saved)) /\ ContextTyped(Last(saved))
             /\ Handles(Last(saved), Cpu, current)
  <2>1. m \in 1..m /\ m \in 1..Depth
    BY <1>1, <1>5
  <2> QED BY <1>1, <1>2, <2>1
<1> QED BY <1>2, <1>3, <1>4, <1>5

(* A step of the CPU that interrupts nothing and returns from nothing.     *)
LEMMA TopStep ==
  ASSUME Nested, saved' = saved, current' \in Nat, current' >= current, ContextTyped(Cpu'),
         saved = <<>> => First(Cpu', current'),
         saved # <<>> => Handles(Last(saved), Cpu', current')
  PROVE  Nested'
PROOF
<1> PICK m \in Nat : m = Len(saved)
  BY TheContexts
<1>1. /\ Depth = m + 1 /\ \A i \in 1..m : ContextAt(i) = saved[i]
      /\ ContextAt(Depth) = Cpu /\ Last(saved) = saved[m]
      /\ saved # <<>> => m >= 1
      /\ saved = <<>> => m = 0
  BY TheContexts
<1>2. /\ Len(saved)' = m /\ Depth' = m + 1
      /\ \A i \in 1..m : ContextAt(i)' = saved[i]
      /\ ContextAt(m + 1)' = Cpu'
  BY <1>1 DEF Depth, ContextAt
<1>3. /\ IsSeq(saved) /\ current \in Nat
      /\ \A i \in 1..Depth : ContextTyped(ContextAt(i))
      /\ First(ContextAt(1), current)
      /\ \A i \in 1..m : CauseOK(saved[i]) /\ Handles(saved[i], ContextAt(i + 1), current)
  BY DEF Nested
<1>4. IsSeq(saved)' /\ current' \in Nat
  BY <1>3
<1>5. \A i \in 1..(m + 1) : ContextTyped(ContextAt(i)')
  <2> TAKE i \in 1..(m + 1)
  <2>1. CASE i = m + 1
    BY <1>2, <2>1
  <2>2. CASE i # m + 1
    <3>1. i \in 1..m /\ i \in 1..Depth
      BY <1>1, <2>2
    <3>2. ContextAt(i)' = ContextAt(i)
      BY <1>1, <1>2, <3>1
    <3> QED BY <1>3, <3>1, <3>2
  <2> QED BY <2>1, <2>2
<1>6. First(ContextAt(1)', current')
  <2>1. CASE saved = <<>>
    <3>1. ContextAt(1)' = Cpu'
      BY <1>1, <1>2, <2>1
    <3> QED BY <2>1, <3>1
  <2>2. CASE saved # <<>>
    <3>1. ContextAt(1)' = ContextAt(1)
      BY <1>1, <1>2, <2>2
    <3> QED BY <1>3, <3>1, Later
  <2> QED BY <2>1, <2>2
<1>7. ASSUME NEW i \in 1..m
      PROVE  CauseOK(saved[i]) /\ Handles(saved[i], ContextAt(i + 1)', current')
  <2>1. CauseOK(saved[i]) /\ Handles(saved[i], ContextAt(i + 1), current)
    BY <1>3
  <2>2. CASE i = m
    <3>1. ContextAt(i + 1)' = Cpu' /\ saved[i] = Last(saved) /\ saved # <<>>
      BY <1>1, <1>2, <2>2
    <3> QED BY <2>1, <3>1
  <2>3. CASE i # m
    <3>1. i + 1 \in 1..m
      BY <1>1, <2>3
    <3>2. ContextAt(i + 1)' = ContextAt(i + 1)
      BY <1>1, <1>2, <3>1
    <3> QED BY <1>3, <2>1, <3>2, Later
  <2> QED BY <2>2, <2>3
<1> QED BY <1>2, <1>4, <1>5, <1>6, <1>7 DEF Nested

(* Only the first context is ever in user mode, its kernel stack empty.    *)
LEMMA UserFirst ==
  ASSUME Nested, UserMode
  PROVE  saved = <<>> /\ kstack = <<>>
PROOF
<1>1. Cpu.eip = eip /\ Cpu.kstack = kstack /\ eip[1] = "user"
  BY DEF Cpu, UserMode
<1>2. saved # <<>> => FALSE
  <2> SUFFICES ASSUME saved # <<>> PROVE FALSE
    OBVIOUS
  <2>1. Handles(saved[Len(saved)], ContextAt(Len(saved) + 1), current) /\ ContextAt(Len(saved) + 1) = Cpu
    BY TheContexts DEF Nested
  <2>2. PICK s : Handles(s, Cpu, current)
    BY <2>1
  <2>3. \/ \E n \in 0..(6 + 2 * N) : StubOK(s, Cpu, n)
        \/ \E n \in 1..3 : HandlerOK(s, Cpu, n)
        \/ eip = Hlt(s.vector)
        \/ \E p \in 0..current : eip \in {SwitchAt(p, 1), SwitchAt(p, 2)}
    BY <1>1, <2>2 DEF Handles
  <2>4. ASSUME NEW n, StubOK(s, Cpu, n) PROVE FALSE
    BY <1>1, <2>4 DEF StubOK, StubAt
  <2>5. ASSUME NEW n, HandlerOK(s, Cpu, n) PROVE FALSE
    BY <1>1, <2>5 DEF HandlerOK, HandlerAt
  <2>6. eip # Hlt(s.vector) /\ \A p : eip \notin {SwitchAt(p, 1), SwitchAt(p, 2)}
    BY <1>1 DEF Hlt, SwitchAt
  <2> QED BY <2>3, <2>4, <2>5, <2>6
<1>3. kstack = <<>>
  <2>1. First(Cpu, current)
    BY <1>2, TheContexts DEF Nested
  <2>2. eip # Kmain /\ \A p, n : eip # SwitchAt(p, n)
    BY <1>1 DEF Kmain, SwitchAt
  <2> QED BY <1>1, <2>1, <2>2 DEF First
<1> QED BY <1>2, <1>3

(* The first words the CPU pushes for an interrupt.                        *)
LEMMA FirstWords ==
  ASSUME NEW a, NEW b, NEW c, NEW d, NEW e
  PROVE  /\ LET t == <<a, b, c>>
            IN  IsSeq(t) /\ Len(t) = 3 /\ t[1] = a /\ t[2] = b /\ t[3] = c
         /\ LET t == <<a, b, c, d, e>>
            IN  IsSeq(t) /\ Len(t) = 5 /\ t[1] = a /\ t[2] = b /\ t[3] = c /\ t[4] = d /\ t[5] = e
PROOF
<1> DEFINE S == {a, b, c, d, e}
<1>1. a \in S /\ b \in S /\ c \in S /\ d \in S /\ e \in S
  OBVIOUS
<1> HIDE DEF S
<1>2. <<a, b, c>> \in Seq(S) /\ <<a, b, c, d, e>> \in Seq(S)
  BY <1>1
<1>3. IsSeq(<<a, b, c>>) /\ IsSeq(<<a, b, c, d, e>>)
  BY <1>2, SeqIs
<1> QED BY <1>3

(* The stack the CPU leaves when it pushes the error code e last.          *)
Entered(s, e) ==
  (IF s.eip[1] = "user" THEN <<Ss, s.reg["esp"], Flags, Cs(3), s.eip>>
                        ELSE s.kstack \o <<Flags, Cs(0), s.eip>>) \o e

(* What the CPU pushes for an interrupt of user code or of the kernel.     *)
LEMMA EntryPushed ==
  ASSUME NEW s, NEW e, IsSeq(s.kstack), IsSeq(e), s.eip[1] = "user" => s.kstack = <<>>
  PROVE  LET k == Entered(s, e)
         IN  /\ IsSeq(k) /\ EntryOK(s, k) /\ Len(k) = Base(s) + Len(e)
             /\ \A i \in 1..Len(e) : k[Base(s) + i] = e[i]
PROOF
<1> DEFINE u == <<Ss, s.reg["esp"], Flags, Cs(3), s.eip>>
           w == <<Flags, Cs(0), s.eip>>
           r == s.kstack
           x == r \o w
           f == IF s.eip[1] = "user" THEN u ELSE x
           k == f \o e
           b == Base(s)
<1>1. b \in Nat /\ b >= 3 /\ (s.eip[1] = "user" => b = 5) /\ (s.eip[1] # "user" => b = Len(r) + 3)
  BY BaseIs
<1>2. /\ IsSeq(u) /\ Len(u) = 5 /\ u[2] = s.reg["esp"] /\ u[4] = Cs(3) /\ u[5] = s.eip
      /\ IsSeq(w) /\ Len(w) = 3 /\ w[2] = Cs(0) /\ w[3] = s.eip
  <2> PICK p1, p2, p3, p4, p5 :
        p1 = Ss /\ p2 = s.reg["esp"] /\ p3 = Flags /\ p4 = Cs(3) /\ p5 = s.eip
    OBVIOUS
  <2> PICK q : q = Cs(0)
    OBVIOUS
  <2>1. u = <<p1, p2, p3, p4, p5>> /\ w = <<p3, q, p5>>
    OBVIOUS
  <2> HIDE DEF u, w
  <2>2. IsSeq(u) /\ Len(u) = 5 /\ u[2] = p2 /\ u[4] = p4 /\ u[5] = p5
    BY <2>1, FirstWords
  <2>3. IsSeq(w) /\ Len(w) = 3 /\ w[2] = q /\ w[3] = p5
    BY <2>1, FirstWords
  <2> QED BY <2>2, <2>3
<1> HIDE DEF u, w, r, b
<1>3. IsSeq(r) /\ Len(r) \in Nat /\ Len(e) \in Nat
  BY SeqLen DEF r
<1>4. /\ IsSeq(x) /\ Len(x) = Len(r) + Len(w)
      /\ \A i \in 1..Len(r) : x[i] = r[i]
      /\ \A i \in 1..Len(w) : x[Len(r) + i] = w[i]
  <2>1. IsSeq(r) /\ IsSeq(w)
    BY <1>2, <1>3
  <2> QED BY <2>1, JoinedSeqs
<1> HIDE DEF x
<1>5. IsSeq(f) /\ Len(f) = b
  BY <1>1, <1>2, <1>3, <1>4
<1>6. /\ f[b] = s.eip /\ (s.eip[1] = "user" => f[b - 1] = Cs(3) /\ f[2] = s.reg["esp"])
      /\ s.eip[1] # "user" => f[b - 1] = Cs(0) /\ \A i \in 1..Len(r) : f[i] = r[i]
  <2>1. CASE s.eip[1] = "user"
    <3>1. f = u /\ b = 5 /\ b - 1 = 4
      BY <1>1, <2>1
    <3> HIDE DEF f
    <3> QED BY <1>2, <2>1, <3>1
  <2>2. CASE s.eip[1] # "user"
    <3>1. f = x /\ b = Len(r) + 3 /\ b - 1 = Len(r) + 2
      BY <1>1, <1>3, <2>2
    <3> HIDE DEF f
    <3>2. x[Len(r) + 3] = w[3] /\ x[Len(r) + 2] = w[2]
      BY <1>2, <1>4
    <3> QED BY <1>2, <1>4, <2>2, <3>1, <3>2
  <2> QED BY <2>1, <2>2
<1> HIDE DEF f
<1>7. /\ IsSeq(k) /\ Len(k) = Len(f) + Len(e)
      /\ \A i \in 1..Len(f) : k[i] = f[i]
      /\ \A i \in 1..Len(e) : k[Len(f) + i] = e[i]
  BY <1>5, JoinedSeqs
<1> HIDE DEF k
<1>8. EntryOK(s, f)
  <2>1. f[b - 1] = Cs(IF s.eip[1] = "user" THEN 3 ELSE 0)
    BY <1>6
  <2>2. s.eip[1] = "user" => f[2] = s.reg["esp"] /\ s.kstack = <<>>
    BY <1>6
  <2>3. s.eip[1] # "user" => \A i \in 1..Len(s.kstack) : f[i] = s.kstack[i]
    BY <1>6 DEF r
  <2>4. Len(f) >= b /\ f[b] = s.eip
    BY <1>1, <1>5, <1>6
  <2> QED BY <2>1, <2>2, <2>3, <2>4 DEF EntryOK, b
<1>9. Len(k) >= b /\ \A i \in 1..b : k[i] = f[i]
  BY <1>1, <1>3, <1>5, <1>7
<1>10. EntryOK(s, k)
  BY <1>8, <1>9, EntryBelow DEF b
<1>11. Entered(s, e) = k
  BY DEF Entered, k, f, x, u, w, r
<1> QED BY <1>5, <1>7, <1>10, <1>11 DEF b

(* An interrupt adds a context: its stub, about to push the number of the  *)
(* vector, or 0 first where the CPU pushed no error code.                  *)
LEMMA EnterStep ==
  ASSUME Nested, NEW v \in Vectors, Enter(v), current' = current,
         CauseOK([vector |-> v, eip |-> eip, reg |-> reg, kstack |-> kstack])
  PROVE  Nested'
PROOF
<1> PICK s : s = [vector |-> v, eip |-> eip, reg |-> reg, kstack |-> kstack]
  OBVIOUS
<1> PICK m \in Nat : m = Len(saved)
  BY TheContexts
<1>1. s.vector = v /\ s.eip = eip /\ s.reg = reg /\ s.kstack = kstack /\ CauseOK(s)
  OBVIOUS
<1>2. saved' = Append(saved, s) /\ eip' = StubAt(v, 1) /\ reg' = reg
  BY DEF Enter
<1> DEFINE e == IF v \in PushesErrorCode THEN <<ErrorCode(v)>> ELSE <<>>
<1>3. kstack' = Entered(s, e)
  BY <1>1 DEF Enter, UserMode, Entered
<1>4. s.eip[1] = "user" => saved = <<>> /\ s.kstack = <<>>
  BY <1>1, UserFirst DEF UserMode
<1>5. /\ Depth = m + 1 /\ \A i \in 1..m : ContextAt(i) = saved[i]
      /\ ContextAt(m + 1) = Cpu
      /\ saved # <<>> => m >= 1
      /\ saved = <<>> => m = 0
  BY TheContexts
<1>6. /\ IsSeq(saved) /\ current \in Nat
      /\ \A i \in 1..Depth : ContextTyped(ContextAt(i))
      /\ First(ContextAt(1), current)
      /\ \A i \in 1..m : CauseOK(saved[i]) /\ Handles(saved[i], ContextAt(i + 1), current)
  BY DEF Nested
<1>7. Same(Cpu, s)
  BY <1>1 DEF Same, Cpu
<1>8. ContextTyped(s) /\ ContextTyped(Cpu)
  <2>1. ContextTyped(Cpu)
    BY <1>5, <1>6
  <2> QED BY <1>7, <2>1, SameContext
<1>9. IsSeq(s.kstack) /\ s.reg = [r \in RegNames |-> s.reg[r]]
  BY <1>8 DEF ContextTyped
<1>10. IsSeq(e) /\ Len(e) = (IF v \in PushesErrorCode THEN 1 ELSE 0)
       /\ (v \in PushesErrorCode => e[1] = ErrorCode(v))
  <2>1. CASE v \in PushesErrorCode
    <3>1. e = <<ErrorCode(v)>>
      BY <2>1
    <3> HIDE DEF e
    <3> QED BY <2>1, <3>1, ShortSeqs
  <2>2. CASE v \notin PushesErrorCode
    <3>1. e = <<>>
      BY <2>2
    <3> HIDE DEF e
    <3> QED BY <2>2, <3>1, ShortSeqs
  <2> QED BY <2>1, <2>2
<1> HIDE DEF e
<1>11. /\ IsSeq(kstack') /\ EntryOK(s, kstack') /\ Len(kstack') = Base(s) + Len(e)
       /\ \A i \in 1..Len(e) : kstack'[Base(s) + i] = e[i]
  <2>1. IsSeq(s.kstack) /\ IsSeq(e) /\ (s.eip[1] = "user" => s.kstack = <<>>)
    BY <1>4, <1>9, <1>10
  <2> QED BY <1>3, <2>1, EntryPushed
<1>12. Cpu'.eip = StubAt(v, 1) /\ Cpu'.reg = s.reg /\ Cpu'.kstack = kstack'
  BY <1>1, <1>2 DEF Cpu
<1>13. ContextTyped(Cpu')
  BY <1>9, <1>11, <1>12 DEF ContextTyped
<1> DEFINE n == IF v \in PushesErrorCode THEN 1 ELSE 0
<1>14. n \in {0, 1} /\ n + Pad(v) = 1
  BY VectorIs DEF Pad
<1>15. FrameOK(s, kstack', n)
  <2>1. Base(s) \in Nat
    BY <1>9, BaseIs
  <2>2. CASE v \in PushesErrorCode
    <3>1. Len(e) = 1 /\ e[1] = Error(s.vector) /\ n = 1
      BY <1>1, <1>10, <2>2 DEF Error
    <3>2. Len(kstack') = Base(s) + 1 /\ kstack'[Base(s) + 1] = Error(s.vector)
      BY <1>11, <3>1
    <3> HIDE DEF n
    <3>3. \A j \in 1..N : ~(j <= n - 3)
      BY <3>1
    <3> QED BY <3>1, <3>2, <3>3 DEF FrameOK
  <2>3. CASE v \notin PushesErrorCode
    <3>1. Len(e) = 0 /\ n = 0
      BY <1>10, <2>3
    <3>2. Len(kstack') = Base(s) + 0
      BY <1>11, <3>1
    <3> HIDE DEF n
    <3>3. \A j \in 1..N : ~(j <= n - 3)
      BY <3>1
    <3> QED BY <3>1, <3>2, <3>3 DEF FrameOK
  <2> QED BY <2>2, <2>3
<1> HIDE DEF n
<1>16. StubOK(s, Cpu', n)
  <2>1. Cpu'.eip = StubAt(s.vector, n + Pad(s.vector))
    BY <1>1, <1>12, <1>14
  <2>2. n \in {0, 1, 2, 3} /\ n + Pad(s.vector) > 0 /\ n # 3
    BY <1>1, <1>14
  <2> QED BY <1>12, <1>15, <2>1, <2>2 DEF StubOK
<1>17. Handles(s, Cpu', current')
  <2>1. n \in 0..(6 + 2 * N)
    BY <1>14, InterruptsAssumption
  <2> QED BY <1>11, <1>12, <1>16, <2>1 DEF Handles
<1>18. /\ IsSeq(saved)' /\ Len(saved)' = m + 1
       /\ saved'[m + 1] = s /\ \A i \in 1..m : saved'[i] = saved[i]
  BY <1>2, <1>6, Pushed
<1>19. /\ Depth' = m + 2
       /\ \A i \in 1..m : ContextAt(i)' = saved[i]
       /\ ContextAt(m + 1)' = s /\ ContextAt(m + 2)' = Cpu'
  BY <1>18 DEF Depth, ContextAt
<1>20. \A i \in 1..(m + 2) : ContextTyped(ContextAt(i)')
  <2> TAKE i \in 1..(m + 2)
  <2>1. CASE i = m + 2
    BY <1>13, <1>19, <2>1
  <2>2. CASE i = m + 1
    BY <1>8, <1>19, <2>2
  <2>3. CASE i \in 1..m
    <3>1. i \in 1..Depth /\ ContextAt(i)' = ContextAt(i)
      BY <1>5, <1>19, <2>3
    <3> QED BY <1>6, <3>1
  <2> QED BY <2>1, <2>2, <2>3
<1>21. First(ContextAt(1)', current')
  <2>1. CASE m = 0
    <3>1. First(Cpu, current) /\ ContextAt(1)' = s
      BY <1>5, <1>6, <1>19, <2>1
    <3> QED BY <1>7, <3>1, SameContext
  <2>2. CASE m # 0
    <3>1. ContextAt(1)' = ContextAt(1)
      BY <1>5, <1>19, <2>2
    <3> QED BY <1>6, <3>1
  <2> QED BY <2>1, <2>2
<1>22. ASSUME NEW i \in 1..(m + 1)
       PROVE  CauseOK(saved'[i]) /\ Handles(saved'[i], ContextAt(i + 1)', current')
  <2>1. CASE i = m + 1
    BY <1>1, <1>17, <1>18, <1>19, <2>1
  <2>2. CASE i = m
    <3>1. /\ saved'[i] = saved[i] /\ ContextAt(i + 1)' = s
          /\ CauseOK(saved[i]) /\ Handles(saved[i], Cpu, current)
      BY <1>5, <1>6, <1>18, <1>19, <2>2
    <3> QED BY <1>7, <3>1, SameContext
  <2>3. CASE i \in 1..(m - 1)
    <3>1. i \in 1..m /\ i + 1 \in 1..m
      BY <2>3
    <3>2. saved'[i] = saved[i] /\ ContextAt(i + 1)' = ContextAt(i + 1)
      BY <1>5, <1>18, <1>19, <3>1
    <3> QED BY <1>6, <3>1, <3>2
  <2> QED BY <2>1, <2>2, <2>3
<1> QED BY <1>6, <1>18, <1>19, <1>20, <1>21, <1>22 DEF Nested

(* An iret takes the last context off and goes on with the one before.     *)
LEMMA BackStep ==
  ASSUME Nested, saved # <<>>, saved' = Front(saved), current' = current,
         Same(Last(saved), Cpu')
  PROVE  Nested'
PROOF
<1> PICK m \in Nat : m = Len(saved)
  BY TheContexts
<1>1. /\ Depth = m + 1 /\ \A i \in 1..m : ContextAt(i) = saved[i]
      /\ Last(saved) = saved[m] /\ m >= 1
  BY TheContexts
<1>2. /\ IsSeq(saved) /\ current \in Nat
      /\ \A i \in 1..Depth : ContextTyped(ContextAt(i))
      /\ First(ContextAt(1), current)
      /\ \A i \in 1..m : CauseOK(saved[i]) /\ Handles(saved[i], ContextAt(i + 1), current)
  BY DEF Nested
<1>3. /\ IsSeq(saved)' /\ Len(saved)' = m - 1
      /\ \A i \in 1..(m - 1) : saved'[i] = saved[i]
  BY <1>1, <1>2, Popped
<1>4. /\ Depth' = m
      /\ \A i \in 1..(m - 1) : ContextAt(i)' = saved[i]
      /\ ContextAt(m)' = Cpu'
  BY <1>1, <1>3 DEF Depth, ContextAt
<1>5. Same(ContextAt(m), Cpu') /\ m \in 1..m
  BY <1>1
<1>6. \A i \in 1..m : ContextTyped(ContextAt(i)')
  <2> TAKE i \in 1..m
  <2>1. i \in 1..Depth
    BY <1>1
  <2>2. CASE i = m
    BY <1>2, <1>4, <1>5, <2>1, <2>2, SameContext
  <2>3. CASE i # m
    <3>1. ContextAt(i)' = ContextAt(i)
      BY <1>1, <1>4, <2>3
    <3> QED BY <1>2, <2>1, <3>1
  <2> QED BY <2>2, <2>3
<1>7. First(ContextAt(1)', current')
  <2>1. CASE m = 1
    BY <1>2, <1>4, <1>5, <2>1, SameContext
  <2>2. CASE m # 1
    <3>1. ContextAt(1)' = ContextAt(1)
      BY <1>1, <1>4, <2>2
    <3> QED BY <1>2, <3>1
  <2> QED BY <2>1, <2>2
<1>8. ASSUME NEW i \in 1..(m - 1)
      PROVE  CauseOK(saved'[i]) /\ Handles(saved'[i], ContextAt(i + 1)', current')
  <2>1. /\ saved'[i] = saved[i] /\ CauseOK(saved[i])
        /\ Handles(saved[i], ContextAt(i + 1), current)
    BY <1>2, <1>3
  <2>2. CASE i = m - 1
    <3>1. ContextAt(i + 1)' = Cpu' /\ Same(ContextAt(i + 1), Cpu')
      BY <1>4, <1>5, <2>2
    <3> QED BY <2>1, <3>1, SameContext
  <2>3. CASE i # m - 1
    <3>1. i + 1 \in 1..(m - 1) /\ i + 1 \in 1..m
      BY <2>3
    <3>2. ContextAt(i + 1)' = ContextAt(i + 1)
      BY <1>1, <1>4, <3>1
    <3> QED BY <2>1, <3>2
  <2> QED BY <2>2, <2>3
<1> QED BY <1>2, <1>3, <1>4, <1>6, <1>7, <1>8 DEF Nested

(* switch_to_process gives up whatever was interrupted.                    *)
LEMMA FreshStep ==
  ASSUME saved' = <<>>, current' \in Nat, ContextTyped(Cpu'), First(Cpu', current')
  PROVE  Nested'
PROOF
<1>1. IsSeq(saved)' /\ Len(saved)' = 0
  BY ShortSeqs
<1>2. Depth' = 1 /\ ContextAt(1)' = Cpu'
  BY <1>1 DEF Depth, ContextAt
<1>3. \A i \in 1..1 : i = 1
  OBVIOUS
<1>4. \A i \in 1..Depth' : ContextTyped(ContextAt(i)')
  <2> SUFFICES ASSUME NEW i \in 1..1 PROVE ContextTyped(ContextAt(i)')
    BY <1>2
  <2>1. i = 1
    OBVIOUS
  <2> QED BY <1>2, <2>1
<1>5. First(ContextAt(1)', current')
  BY <1>2
<1>6. \A i \in 1..Len(saved)' : FALSE
  BY <1>1
<1> QED BY <1>1, <1>4, <1>5, <1>6 DEF Nested

-----------------------------------------------------------------------------
(***************************************************************************)
(* What the instructions do.                                               *)
(***************************************************************************)

(* Each instruction has one effect.                                        *)
LEMMA Effects ==
  ASSUME Execute
  PROVE  /\ Op = "push number" =>
              /\ kstack' = Append(kstack, Num(Arg))
              /\ eip' = Next1(eip) /\ UNCHANGED <<reg, saved, current>>
         /\ Op = "push esp" =>
              /\ kstack' = Append(kstack, Num(Len(kstack)))
              /\ eip' = Next1(eip) /\ UNCHANGED <<reg, saved, current>>
         /\ Op = "push" =>
              /\ kstack' = Append(kstack, reg[Arg])
              /\ eip' = Next1(eip) /\ UNCHANGED <<reg, saved, current>>
         /\ Op = "add [esp], 8" => Add
         /\ Op = "call interrupt_handler" => Call
         /\ Op = "pop" => Pop
         /\ Op = "pop esp" => PopEsp
         /\ Op = "iret" => Iret
         /\ Op \in {"mov cr3", "mov esp", "mov"} => Load
         /\ Op # "other"
PROOF
<1> DEFINE o == Op
<1>1. Push \/ Add \/ Call \/ Pop \/ PopEsp \/ Iret \/ Load
  BY DEF Execute
<1>2. Push => /\ o \in {"push", "push number", "push esp"}
              /\ kstack' = Append(kstack, CASE o = "push" -> reg[Arg]
                                            [] o = "push number" -> Num(Arg)
                                            [] o = "push esp" -> Num(Len(kstack)))
              /\ eip' = Next1(eip)
              /\ UNCHANGED <<reg, saved, current>>
  BY DEF Push
<1>3. /\ Add => o = "add [esp], 8"
      /\ Call => o = "call interrupt_handler"
      /\ Pop => o = "pop"
      /\ PopEsp => o = "pop esp"
      /\ Iret => o = "iret"
      /\ Load => o \in {"mov cr3", "mov esp", "mov"}
  BY DEF Add, Call, Pop, PopEsp, Iret, Load
<1> HIDE DEF o
<1>4. Push => /\ o = "push number" => kstack' = Append(kstack, Num(Arg))
              /\ o = "push esp" => kstack' = Append(kstack, Num(Len(kstack)))
              /\ o = "push" => kstack' = Append(kstack, reg[Arg])
  <2> DEFINE a == reg[Arg]
             b == Num(Arg)
             c == Num(Len(kstack))
  <2>1. Push => kstack' = Append(kstack, CASE o = "push" -> a [] o = "push number" -> b
                                           [] o = "push esp" -> c)
    BY <1>2
  <2> HIDE DEF a, b, c
  <2>2. /\ o = "push number" => kstack' = Append(kstack, b) \/ ~Push
        /\ o = "push esp" => kstack' = Append(kstack, c) \/ ~Push
        /\ o = "push" => kstack' = Append(kstack, a) \/ ~Push
    BY <2>1
  <2> QED BY <2>2 DEF a, b, c
<1> QED BY <1>1, <1>2, <1>3, <1>4 DEF o

(* The CPU is in the stub of the interrupt last taken.                     *)
LEMMA InStub ==
  ASSUME Nested, eip[1] = "stub"
  PROVE  /\ saved # <<>> /\ CauseOK(Last(saved)) /\ ContextTyped(Last(saved)) /\ ContextTyped(Cpu)
         /\ EntryOK(Last(saved), kstack) /\ reg["esp"] = Last(saved).reg["esp"]
         /\ \E n \in 0..(6 + 2 * N) : StubOK(Last(saved), Cpu, n)
PROOF
<1>1. Cpu.eip = eip /\ Cpu.kstack = kstack /\ Cpu.reg = reg
  BY DEF Cpu
<1>2. eip # Kmain /\ (\A p, n : eip # SwitchAt(p, n)) /\ \A p : eip # User(p) /\ eip # Hlt(p)
  BY DEF Kmain, SwitchAt, User, Hlt
<1>3. saved # <<>>
  <2> SUFFICES ASSUME saved = <<>> PROVE FALSE
    OBVIOUS
  <2>1. First(Cpu, current)
    BY TopIs
  <2> QED BY <1>1, <1>2, <2>1 DEF First
<1> PICK s : s = Last(saved)
  OBVIOUS
<1>4. CauseOK(s) /\ Handles(s, Cpu, current) /\ ContextTyped(s) /\ ContextTyped(Cpu)
  BY <1>3, TopIs
<1>5. \A n : ~HandlerOK(s, Cpu, n)
  BY <1>1 DEF HandlerOK, HandlerAt
<1>6. /\ EntryOK(s, Cpu.kstack) /\ Cpu.reg["esp"] = s.reg["esp"]
      /\ \E n \in 0..(6 + 2 * N) : StubOK(s, Cpu, n)
  BY <1>1, <1>2, <1>4, <1>5 DEF Handles
<1> QED BY <1>1, <1>3, <1>4, <1>6

(* The CPU is in interrupt_handler, for the interrupt last taken.          *)
LEMMA InHandler ==
  ASSUME Nested, NEW v, NEW n, eip = HandlerAt(v, n)
  PROVE  /\ saved # <<>> /\ CauseOK(Last(saved)) /\ ContextTyped(Last(saved)) /\ ContextTyped(Cpu)
         /\ EntryOK(Last(saved), kstack) /\ reg["esp"] = Last(saved).reg["esp"]
         /\ HandlerOK(Last(saved), Cpu, n) /\ v = Last(saved).vector
PROOF
<1>1. Cpu.eip = eip /\ Cpu.kstack = kstack /\ Cpu.reg = reg
  BY DEF Cpu
<1>2. /\ eip # Kmain /\ (\A p, k : eip # SwitchAt(p, k) /\ eip # StubAt(p, k))
      /\ \A p : eip # User(p) /\ eip # Hlt(p)
  BY DEF Kmain, SwitchAt, User, Hlt, HandlerAt, StubAt
<1>3. saved # <<>>
  <2> SUFFICES ASSUME saved = <<>> PROVE FALSE
    OBVIOUS
  <2>1. First(Cpu, current)
    BY TopIs
  <2> QED BY <1>1, <1>2, <2>1 DEF First
<1> PICK s : s = Last(saved)
  OBVIOUS
<1>4. CauseOK(s) /\ Handles(s, Cpu, current) /\ ContextTyped(s) /\ ContextTyped(Cpu)
  BY <1>3, TopIs
<1>5. \A k : ~StubOK(s, Cpu, k)
  BY <1>1, <1>2 DEF StubOK
<1>6. /\ EntryOK(s, Cpu.kstack) /\ Cpu.reg["esp"] = s.reg["esp"]
      /\ \E k \in 1..3 : HandlerOK(s, Cpu, k)
  BY <1>1, <1>2, <1>4, <1>5 DEF Handles
<1>7. ASSUME NEW k \in 1..3, HandlerOK(s, Cpu, k)
       PROVE  k = n /\ v = s.vector
  <2>1. HandlerAt(s.vector, k) = HandlerAt(v, n)
    BY <1>1, <1>7 DEF HandlerOK
  <2> QED BY <2>1 DEF HandlerAt
<1> QED BY <1>1, <1>3, <1>4, <1>6, <1>7

(* The next instruction of the stub, with the stack as it should be there. *)
LEMMA StubGoesOn ==
  ASSUME NEW s, NEW n \in 0..(6 + 2 * N), IsSeq(kstack'), reg' = [r \in RegNames |-> reg'[r]],
         EntryOK(s, kstack'), reg'["esp"] = s.reg["esp"], StubOK(s, Cpu', n)
  PROVE  ContextTyped(Cpu') /\ Handles(s, Cpu', current') /\ eip'[1] # "switch"
PROOF
<1>1. Cpu'.eip = eip' /\ Cpu'.kstack = kstack' /\ Cpu'.reg = reg'
  BY DEF Cpu
<1>2. eip' = StubAt(s.vector, n + Pad(s.vector))
  BY <1>1 DEF StubOK
<1>3. eip'[1] # "switch"
  BY <1>2 DEF StubAt
<1> QED BY <1>1, <1>3 DEF ContextTyped, Handles

(* Where the CPU is in the stub, and what surrounds it.                    *)
LEMMA AtStub ==
  ASSUME Nested, eip[1] = "stub", NEW s, s = Last(saved), NEW n \in 0..(6 + 2 * N),
         StubOK(s, Cpu, n)
  PROVE  /\ s.vector \in Vectors /\ IsSeq(s.kstack) /\ IsSeq(kstack)
         /\ s.reg = [r \in RegNames |-> s.reg[r]] /\ reg = [r \in RegNames |-> reg[r]]
         /\ EntryOK(s, kstack) /\ reg["esp"] = s.reg["esp"]
         /\ Base(s) \in Nat /\ Base(s) >= 3 /\ n \in Nat /\ N \in Nat
         /\ n + Pad(s.vector) > 0 /\ eip = StubAt(s.vector, n + Pad(s.vector))
         /\ Next1(eip) = StubAt(s.vector, n + 1 + Pad(s.vector))
PROOF
<1>1. Cpu.eip = eip /\ Cpu.kstack = kstack /\ Cpu.reg = reg
  BY DEF Cpu
<1>2. /\ CauseOK(s) /\ ContextTyped(s) /\ ContextTyped(Cpu)
      /\ EntryOK(s, kstack) /\ reg["esp"] = s.reg["esp"]
  BY InStub
<1>3. s.vector \in Vectors /\ IsSeq(s.kstack) /\ IsSeq(kstack)
  BY <1>1, <1>2 DEF CauseOK, ContextTyped
<1>4. s.reg = [r \in RegNames |-> s.reg[r]] /\ reg = [r \in RegNames |-> reg[r]]
  BY <1>1, <1>2 DEF ContextTyped
<1>5. Base(s) \in Nat /\ Base(s) >= 3
  BY <1>3, BaseIs
<1>6. N \in Nat /\ n \in Nat
  BY InterruptsAssumption
<1>7. Pad(s.vector) \in {0, 1}
  BY DEF Pad
<1>8. n > 0 \/ n + Pad(s.vector) > 0
  BY <1>6 DEF StubOK
<1>9. n + Pad(s.vector) > 0
  <2> DEFINE d == Pad(s.vector)
  <2>1. d = 0 \/ d = 1
    BY <1>7
  <2>2. n > 0 \/ n + d > 0
    BY <1>8
  <2> HIDE DEF d
  <2>3. n + d > 0
    BY <1>6, <2>1, <2>2
  <2> QED BY <2>3 DEF d
<1>10. eip = StubAt(s.vector, n + Pad(s.vector))
  BY <1>1 DEF StubOK
<1>11. Next1(eip) = StubAt(s.vector, n + 1 + Pad(s.vector))
  <2>1. s.vector \in 0..255
    BY <1>3, VectorIs
  <2> QED BY <1>9, <1>10, <2>1, Fetch
<1> QED BY <1>2, <1>3, <1>4, <1>5, <1>6, <1>9, <1>10, <1>11

(* What is on the stack and in the registers, by how far the stub is.      *)
LEMMA StubParts ==
  ASSUME NEW s, NEW c, NEW n \in Nat, StubOK(s, c, n)
  PROVE  /\ n <= 3 => /\ FrameOK(s, c.kstack, n) /\ c.reg = s.reg
                      /\ n = 3 => c.kstack[Base(s) + 3] = Num(Base(s) + 2)
         /\ n >= 4 /\ n <= 4 + N => /\ FrameOK(s, c.kstack, n - 1) /\ c.reg = s.reg
                                    /\ c.kstack[Base(s) + 3] = Num(Base(s))
         /\ n >= 5 + N /\ n <= 5 + 2 * N => /\ FrameOK(s, c.kstack, 8 + 2 * N - n)
                                            /\ Restored(s, c, n - 5 - N)
                                            /\ c.kstack[Base(s) + 3] = Num(Base(s))
         /\ n = 6 + 2 * N => FrameOK(s, c.kstack, 0) /\ Restored(s, c, N)
PROOF
<1> DEFINE p1 == /\ FrameOK(s, c.kstack, n) /\ c.reg = s.reg
                 /\ n = 3 => c.kstack[Base(s) + 3] = Num(Base(s) + 2)
           p2 == /\ FrameOK(s, c.kstack, n - 1) /\ c.reg = s.reg
                 /\ c.kstack[Base(s) + 3] = Num(Base(s))
           p3 == /\ FrameOK(s, c.kstack, 8 + 2 * N - n) /\ Restored(s, c, n - 5 - N)
                 /\ c.kstack[Base(s) + 3] = Num(Base(s))
           p4 == FrameOK(s, c.kstack, 0) /\ Restored(s, c, N)
<1>1. \/ n \in {0, 1, 2, 3} /\ p1
      \/ n \in 4..(4 + N) /\ p2
      \/ n \in (5 + N)..(5 + 2 * N) /\ p3
      \/ n = 6 + 2 * N /\ p4
  BY DEF StubOK
<1> HIDE DEF p1, p2, p3, p4
<1>2. N \in Nat
  BY InterruptsAssumption
<1>3. /\ n <= 3 => p1
      /\ n >= 4 /\ n <= 4 + N => p2
      /\ n >= 5 + N /\ n <= 5 + 2 * N => p3
      /\ n = 6 + 2 * N => p4
  BY <1>1, <1>2
<1> QED BY <1>3 DEF p1, p2, p3, p4

(* While it pushes the registers.                                          *)
LEMMA StubMiddle ==
  ASSUME NEW s, NEW c, NEW n \in 4..(4 + N), c.eip = StubAt(s.vector, n + Pad(s.vector)),
         FrameOK(s, c.kstack, n - 1), c.reg = s.reg, c.kstack[Base(s) + 3] = Num(Base(s))
  PROVE  StubOK(s, c, n)
BY Zenon DEF StubOK

(* The stub pushes the number of the vector, and 0 where the CPU pushed no *)
(* error code.                                                             *)
LEMMA PushesNumber ==
  ASSUME Nested, Execute, eip[1] = "stub", NEW s, s = Last(saved), NEW n \in 0..1,
         StubOK(s, Cpu, n)
  PROVE  /\ saved' = saved /\ current' = current
         /\ ContextTyped(Cpu') /\ Handles(s, Cpu', current') /\ eip'[1] # "switch"
PROOF
<1>1. n \in 0..(6 + 2 * N)
  BY InterruptsAssumption
<1>2. /\ s.vector \in Vectors /\ IsSeq(s.kstack) /\ IsSeq(kstack)
      /\ s.reg = [r \in RegNames |-> s.reg[r]] /\ reg = [r \in RegNames |-> reg[r]]
      /\ EntryOK(s, kstack) /\ reg["esp"] = s.reg["esp"]
      /\ Base(s) \in Nat /\ Base(s) >= 3 /\ n \in Nat /\ N \in Nat
      /\ n + Pad(s.vector) > 0 /\ eip = StubAt(s.vector, n + Pad(s.vector))
      /\ Next1(eip) = StubAt(s.vector, n + 1 + Pad(s.vector))
  BY <1>1, AtStub
<1>3. s.vector \in 0..255
  BY <1>2, VectorIs
<1>4. Cpu.kstack = kstack /\ Cpu.reg = reg
  BY DEF Cpu
<1>5. FrameOK(s, kstack, n) /\ reg = s.reg
  BY <1>2, <1>4, StubParts
<1>6. /\ n = 0 => Instruction = <<"push number", 0>>
      /\ n = 1 => Instruction = <<"push number", s.vector>>
  BY <1>1, <1>2, <1>3, Fetch
<1>7. Op = "push number" /\ (n = 0 => Arg = 0) /\ (n = 1 => Arg = s.vector)
  <2>1. n = 0 \/ n = 1
    OBVIOUS
  <2>2. ASSUME NEW k, Instruction = <<"push number", k>>
        PROVE  Op = "push number" /\ Arg = k
    BY <2>2 DEF Op, Arg
  <2> QED BY <1>6, <2>1, <2>2
<1>8. /\ kstack' = Append(kstack, Num(Arg))
      /\ eip' = Next1(eip) /\ reg' = reg /\ saved' = saved /\ current' = current
  BY <1>7, Effects
<1> PICK x : x = Num(Arg)
  OBVIOUS
<1>9. n = 0 => x = Error(s.vector)
  <2> SUFFICES ASSUME n = 0 PROVE x = Error(s.vector)
    OBVIOUS
  <2>1. Pad(s.vector) # 0
    BY <1>2
  <2>2. s.vector \notin PushesErrorCode
    BY <1>2, <2>1, VectorIs DEF Pad
  <2> QED BY <1>7, <2>2 DEF Error
<1>10. n = 1 => x = Num(s.vector)
  BY <1>7
<1>11. n \notin 3..(N + 2)
  OBVIOUS
<1>12. /\ IsSeq(kstack') /\ EntryOK(s, kstack') /\ FrameOK(s, kstack', n + 1)
  <2>1. kstack' = Append(kstack, x)
    BY <1>8
  <2>2. CanPush(s, kstack, n, x)
    BY <1>2, <1>5, <1>9, <1>10, <1>11 DEF CanPush
  <2>3. IsPushed(s, kstack, n, x, Append(kstack, x))
    BY <2>2, FramePushed
  <2> QED BY <2>1, <2>3 DEF IsPushed
<1>13. Cpu'.eip = eip' /\ Cpu'.kstack = kstack' /\ Cpu'.reg = reg'
  BY DEF Cpu
<1>14. StubOK(s, Cpu', n + 1)
  <2>1. n + 1 \in {0, 1, 2, 3} /\ n + 1 # 3 /\ n + 1 + Pad(s.vector) > 0
    <3>1. Pad(s.vector) \in {0, 1}
      BY DEF Pad
    <3> QED BY <1>2, <3>1
  <2> QED BY <1>2, <1>5, <1>8, <1>12, <1>13, <2>1 DEF StubOK
<1>15. n + 1 \in 0..(6 + 2 * N)
  BY <1>2
<1> QED BY <1>2, <1>5, <1>8, <1>12, <1>14, <1>15, StubGoesOn

(* The stub pushes esp, the height of the stack.                           *)
LEMMA PushesEsp ==
  ASSUME Nested, Execute, eip[1] = "stub", NEW s, s = Last(saved), NEW n, n = 2,
         StubOK(s, Cpu, n)
  PROVE  /\ saved' = saved /\ current' = current
         /\ ContextTyped(Cpu') /\ Handles(s, Cpu', current') /\ eip'[1] # "switch"
PROOF
<1>1. n \in 0..(6 + 2 * N)
  BY InterruptsAssumption
<1>2. /\ s.vector \in Vectors /\ IsSeq(s.kstack) /\ IsSeq(kstack)
      /\ s.reg = [r \in RegNames |-> s.reg[r]] /\ reg = [r \in RegNames |-> reg[r]]
      /\ EntryOK(s, kstack) /\ reg["esp"] = s.reg["esp"]
      /\ Base(s) \in Nat /\ Base(s) >= 3 /\ n \in Nat /\ N \in Nat
      /\ n + Pad(s.vector) > 0 /\ eip = StubAt(s.vector, n + Pad(s.vector))
      /\ Next1(eip) = StubAt(s.vector, n + 1 + Pad(s.vector))
  BY <1>1, AtStub
<1>3. s.vector \in 0..255
  BY <1>2, VectorIs
<1>4. Cpu.kstack = kstack /\ Cpu.reg = reg
  BY DEF Cpu
<1>5. FrameOK(s, kstack, n) /\ reg = s.reg
  BY <1>2, <1>4, StubParts
<1>6. Instruction = <<"push esp">>
  BY <1>1, <1>2, <1>3, Fetch
<1>7. Op = "push esp"
  BY <1>6 DEF Op
<1>8. /\ kstack' = Append(kstack, Num(Len(kstack)))
      /\ eip' = Next1(eip) /\ reg' = reg /\ saved' = saved /\ current' = current
  BY <1>7, Effects
<1> PICK x : x = Num(Len(kstack))
  OBVIOUS
<1>9. x = Num(Base(s) + 2)
  BY <1>5 DEF FrameOK
<1>10. n # 0 /\ n # 1 /\ n \notin 3..(N + 2) /\ n \in Nat
  OBVIOUS
<1>11. /\ IsSeq(kstack') /\ EntryOK(s, kstack') /\ FrameOK(s, kstack', n + 1)
       /\ kstack'[Base(s) + n + 1] = x
  <2>1. kstack' = Append(kstack, x)
    BY <1>8
  <2>2. CanPush(s, kstack, n, x)
    BY <1>2, <1>5, <1>10 DEF CanPush
  <2>3. IsPushed(s, kstack, n, x, Append(kstack, x))
    BY <2>2, FramePushed
  <2> QED BY <2>1, <2>3 DEF IsPushed
<1>12. kstack'[Base(s) + 3] = Num(Base(s) + 2)
  <2>1. Base(s) + n + 1 = Base(s) + 3
    BY <1>2
  <2> QED BY <1>9, <1>11, <2>1
<1>13. Cpu'.eip = eip' /\ Cpu'.kstack = kstack' /\ Cpu'.reg = reg'
  BY DEF Cpu
<1>14. StubOK(s, Cpu', n + 1)
  <2>1. n + 1 \in {0, 1, 2, 3} /\ n + 1 + Pad(s.vector) > 0
    <3>1. Pad(s.vector) \in {0, 1}
      BY DEF Pad
    <3> QED BY <1>2, <3>1
  <2> QED BY <1>2, <1>5, <1>8, <1>11, <1>12, <1>13, <2>1 DEF StubOK
<1>15. n + 1 \in 0..(6 + 2 * N)
  BY <1>2
<1> QED BY <1>2, <1>5, <1>8, <1>11, <1>14, <1>15, StubGoesOn

(* The stub makes of it the height the stack had when it was interrupted.  *)
LEMMA AddsEight ==
  ASSUME Nested, Execute, eip[1] = "stub", NEW s, s = Last(saved), NEW n, n = 3,
         StubOK(s, Cpu, n)
  PROVE  /\ saved' = saved /\ current' = current
         /\ ContextTyped(Cpu') /\ Handles(s, Cpu', current') /\ eip'[1] # "switch"
PROOF
<1>1. n \in 0..(6 + 2 * N)
  BY InterruptsAssumption
<1>2. /\ s.vector \in Vectors /\ IsSeq(s.kstack) /\ IsSeq(kstack)
      /\ s.reg = [r \in RegNames |-> s.reg[r]] /\ reg = [r \in RegNames |-> reg[r]]
      /\ EntryOK(s, kstack) /\ reg["esp"] = s.reg["esp"]
      /\ Base(s) \in Nat /\ Base(s) >= 3 /\ n \in Nat /\ N \in Nat
      /\ n + Pad(s.vector) > 0 /\ eip = StubAt(s.vector, n + Pad(s.vector))
      /\ Next1(eip) = StubAt(s.vector, n + 1 + Pad(s.vector))
  BY <1>1, AtStub
<1>3. s.vector \in 0..255
  BY <1>2, VectorIs
<1>4. Cpu.kstack = kstack /\ Cpu.reg = reg
  BY DEF Cpu
<1>5. FrameOK(s, kstack, n) /\ reg = s.reg /\ kstack[Base(s) + 3] = Num(Base(s) + 2)
  BY <1>2, <1>4, StubParts
<1>6. Instruction = <<"add [esp], 8">>
  BY <1>1, <1>2, <1>3, Fetch
<1>7. Op = "add [esp], 8"
  BY <1>6 DEF Op
<1>8. /\ kstack' = Append(Front(kstack), Num(Last(kstack)[2] - 2))
      /\ eip' = Next1(eip) /\ reg' = reg /\ saved' = saved /\ current' = current
  BY <1>7, Effects DEF Add, Top
<1> PICK k : k = Front(kstack)
  OBVIOUS
<1>9. n >= 1 /\ n \in Nat
  OBVIOUS
<1>10. /\ IsSeq(k) /\ EntryOK(s, k) /\ FrameOK(s, k, n - 1) /\ Last(kstack) = kstack[Base(s) + n]
  BY <1>2, <1>5, <1>9, FramePopped
<1>11. Num(Last(kstack)[2] - 2) = Num(Base(s))
  <2>1. Last(kstack) = Num(Base(s) + 2)
    BY <1>5, <1>10
  <2>2. Last(kstack)[2] - 2 = Base(s)
    BY <1>2, <2>1 DEF Num
  <2> QED BY <2>2
<1> PICK x : x = Num(Base(s))
  OBVIOUS
<1> PICK h \in Nat : h = n - 1
  BY <1>9
<1>12. h = 2 /\ h # 0 /\ h # 1 /\ h \notin 3..(N + 2) /\ h + 1 = n + 1 - 1
  OBVIOUS
<1>13. /\ IsSeq(kstack') /\ EntryOK(s, kstack') /\ FrameOK(s, kstack', h + 1)
       /\ kstack'[Base(s) + h + 1] = x
  <2>1. kstack' = Append(k, x)
    BY <1>8, <1>11
  <2>2. CanPush(s, k, h, x)
    BY <1>2, <1>10, <1>12 DEF CanPush
  <2>3. IsPushed(s, k, h, x, Append(k, x))
    BY <2>2, FramePushed
  <2> QED BY <2>1, <2>3 DEF IsPushed
<1>14. kstack'[Base(s) + 3] = Num(Base(s))
  <2>1. Base(s) + h + 1 = Base(s) + 3
    BY <1>2, <1>12
  <2> QED BY <1>13, <2>1
<1>15. Cpu'.eip = eip' /\ Cpu'.kstack = kstack' /\ Cpu'.reg = reg'
  BY DEF Cpu
<1>16. StubOK(s, Cpu', n + 1)
  <2>1. n + 1 \in 4..(4 + N)
    BY <1>2
  <2>2. FrameOK(s, kstack', n + 1 - 1)
    BY <1>12, <1>13
  <2> PICK q \in 4..(4 + N) : q = n + 1
    BY <2>1
  <2>3. FrameOK(s, Cpu'.kstack, q - 1)
    BY <2>2, <1>15
  <2>4. Cpu'.eip = StubAt(s.vector, q + Pad(s.vector))
    BY <1>2, <1>5, <1>8, <1>14, <1>15
  <2>5. Cpu'.reg = s.reg /\ Cpu'.kstack[Base(s) + 3] = Num(Base(s))
    BY <1>2, <1>5, <1>8, <1>14, <1>15
  <2> QED BY <2>3, <2>4, <2>5, StubMiddle
<1>17. n + 1 \in 0..(6 + 2 * N)
  BY <1>2
<1> QED BY <1>2, <1>5, <1>8, <1>13, <1>16, <1>17, StubGoesOn

(* The stub pushes a register.                                             *)
LEMMA PushesRegister ==
  ASSUME Nested, Execute, eip[1] = "stub", NEW s, s = Last(saved), NEW n \in 4..(3 + N),
         StubOK(s, Cpu, n)
  PROVE  /\ saved' = saved /\ current' = current
         /\ ContextTyped(Cpu') /\ Handles(s, Cpu', current') /\ eip'[1] # "switch"
PROOF
<1>1. n \in 0..(6 + 2 * N)
  BY InterruptsAssumption
<1>2. /\ s.vector \in Vectors /\ IsSeq(s.kstack) /\ IsSeq(kstack)
      /\ s.reg = [r \in RegNames |-> s.reg[r]] /\ reg = [r \in RegNames |-> reg[r]]
      /\ EntryOK(s, kstack) /\ reg["esp"] = s.reg["esp"]
      /\ Base(s) \in Nat /\ Base(s) >= 3 /\ n \in Nat /\ N \in Nat
      /\ n + Pad(s.vector) > 0 /\ eip = StubAt(s.vector, n + Pad(s.vector))
      /\ Next1(eip) = StubAt(s.vector, n + 1 + Pad(s.vector))
  BY <1>1, AtStub
<1>3. s.vector \in 0..255
  BY <1>2, VectorIs
<1>4. Cpu.kstack = kstack /\ Cpu.reg = reg
  BY DEF Cpu
<1>5. FrameOK(s, kstack, n - 1) /\ reg = s.reg /\ kstack[Base(s) + 3] = Num(Base(s))
  <2>1. n >= 4 /\ n <= 4 + N
    BY <1>2
  <2> QED BY <1>2, <1>4, <2>1, StubParts
<1> PICK i \in 1..N : i = n - 3
  BY <1>2
<1> PICK h \in Nat : h = n - 1
  BY <1>2
<1>6. Instruction = <<"push", cpu_state[N + 1 - i]>>
  <2>1. n = 3 + i
    BY <1>2
  <2> QED BY <1>1, <1>2, <1>3, <2>1, Fetch
<1>7. Op = "push" /\ Arg = cpu_state[N + 1 - i]
  BY <1>6 DEF Op, Arg
<1> PICK x : x = reg[Arg]
  OBVIOUS
<1>8. /\ kstack' = Append(kstack, x)
      /\ eip' = Next1(eip) /\ reg' = reg /\ saved' = saved /\ current' = current
  BY <1>7, Effects
<1>9. h # 0 /\ h # 1 /\ h >= 3 /\ N + 3 - h = N + 1 - i /\ h + 1 = n /\ h + 1 = n + 1 - 1
  BY <1>2
<1>10. x = s.reg[cpu_state[N + 3 - h]]
  BY <1>5, <1>7, <1>9
<1>11. /\ IsSeq(kstack') /\ EntryOK(s, kstack') /\ FrameOK(s, kstack', h + 1)
       /\ kstack'[Base(s) + 3] = kstack[Base(s) + 3]
  <2>1. FrameOK(s, kstack, h)
    BY <1>5
  <2>2. CanPush(s, kstack, h, x)
    BY <1>2, <1>9, <1>10, <2>1 DEF CanPush
  <2>3. IsPushed(s, kstack, h, x, Append(kstack, x))
    BY <2>2, FramePushed
  <2> QED BY <1>8, <1>9, <2>3 DEF IsPushed
<1>12. kstack'[Base(s) + 3] = Num(Base(s))
  BY <1>5, <1>11
<1>13. Cpu'.eip = eip' /\ Cpu'.kstack = kstack' /\ Cpu'.reg = reg'
  BY DEF Cpu
<1>14. StubOK(s, Cpu', n + 1)
  <2>1. n + 1 \in 4..(4 + N)
    BY <1>2
  <2>2. FrameOK(s, kstack', n + 1 - 1)
    BY <1>9, <1>11
  <2> PICK q \in 4..(4 + N) : q = n + 1
    BY <2>1
  <2>3. FrameOK(s, Cpu'.kstack, q - 1)
    BY <2>2, <1>13
  <2>4. Cpu'.eip = StubAt(s.vector, q + Pad(s.vector))
    BY <1>2, <1>5, <1>8, <1>12, <1>13
  <2>5. Cpu'.reg = s.reg /\ Cpu'.kstack[Base(s) + 3] = Num(Base(s))
    BY <1>2, <1>5, <1>8, <1>12, <1>13
  <2> QED BY <2>3, <2>4, <2>5, StubMiddle
<1>15. n + 1 \in 0..(6 + 2 * N)
  BY <1>2
<1> QED BY <1>2, <1>5, <1>8, <1>11, <1>14, <1>15, StubGoesOn

(* The stub calls interrupt_handler, for the vector it pushed.             *)
LEMMA CallsHandler ==
  ASSUME Nested, Execute, eip[1] = "stub", NEW s, s = Last(saved), NEW n, n = 4 + N,
         StubOK(s, Cpu, n)
  PROVE  /\ saved' = saved /\ current' = current
         /\ ContextTyped(Cpu') /\ Handles(s, Cpu', current') /\ eip'[1] # "switch"
PROOF
<1>1. n \in 0..(6 + 2 * N)
  BY InterruptsAssumption
<1>2. /\ s.vector \in Vectors /\ IsSeq(s.kstack) /\ IsSeq(kstack)
      /\ s.reg = [r \in RegNames |-> s.reg[r]] /\ reg = [r \in RegNames |-> reg[r]]
      /\ EntryOK(s, kstack) /\ reg["esp"] = s.reg["esp"]
      /\ Base(s) \in Nat /\ Base(s) >= 3 /\ n \in Nat /\ N \in Nat
      /\ n + Pad(s.vector) > 0 /\ eip = StubAt(s.vector, n + Pad(s.vector))
      /\ Next1(eip) = StubAt(s.vector, n + 1 + Pad(s.vector))
  BY <1>1, AtStub
<1>3. s.vector \in 0..255
  BY <1>2, VectorIs
<1>4. Cpu.kstack = kstack /\ Cpu.reg = reg
  BY DEF Cpu
<1>5. FrameOK(s, kstack, n - 1) /\ reg = s.reg /\ kstack[Base(s) + 3] = Num(Base(s))
  <2>1. n >= 4 /\ n <= 4 + N
    BY <1>2
  <2> QED BY <1>2, <1>4, <2>1, StubParts
<1> PICK h \in Nat : h = n - 1
  BY <1>2
<1>6. Instruction = <<"call interrupt_handler">>
  BY <1>1, <1>2, <1>3, Fetch
<1>7. Op = "call interrupt_handler"
  BY <1>6 DEF Op
<1>8. /\ kstack' = Append(kstack, Next1(eip))
      /\ eip' = HandlerAt(kstack[Len(kstack) - N - 1][2], 1)
      /\ reg' = reg /\ saved' = saved /\ current' = current
  BY <1>7, Effects DEF Call
<1>9. h = N + 3 /\ h # 0 /\ h # 1 /\ h \notin 3..(N + 2) /\ h + 1 = N + 4
  BY <1>2
<1>10. FrameOK(s, kstack, h)
  BY <1>5
<1>11. eip' = HandlerAt(s.vector, 1)
  <2>1. Len(kstack) = Base(s) + h /\ kstack[Base(s) + 2] = Num(s.vector)
    BY <1>9, <1>10 DEF FrameOK
  <2>2. Len(kstack) - N - 1 = Base(s) + 2
    <3>1. N \in Nat /\ Base(s) \in Nat /\ Len(kstack) = Base(s) + (N + 3)
      BY <1>2, <1>9, <2>1
    <3> QED BY <3>1
  <2>3. kstack[Len(kstack) - N - 1][2] = s.vector
    BY <2>1, <2>2 DEF Num
  <2> QED BY <1>8, <1>9, <2>3 DEF IsPushed
<1> PICK x : x = StubAt(s.vector, 5 + N + Pad(s.vector))
  OBVIOUS
<1>12. /\ IsSeq(kstack') /\ EntryOK(s, kstack') /\ FrameOK(s, kstack', h + 1)
       /\ kstack'[Base(s) + h + 1] = x
       /\ kstack'[Base(s) + 3] = kstack[Base(s) + 3]
  <2>1. n + 1 = 5 + N
    BY <1>2
  <2>2. kstack' = Append(kstack, x)
    BY <1>2, <1>8, <2>1
  <2>3. CanPush(s, kstack, h, x)
    BY <1>2, <1>9, <1>10 DEF CanPush
  <2>4. IsPushed(s, kstack, h, x, Append(kstack, x))
    BY <2>3, FramePushed
  <2>5. IsPushed(s, kstack, h, x, kstack')
    BY <2>2, <2>4
  <2>6. h >= 3
    BY <1>2, <1>9
  <2> QED BY <2>5, <2>6, Zenon DEF IsPushed
<1>13. kstack'[Base(s) + 3] = Num(Base(s)) /\ kstack'[Base(s) + N + 4] = x
  <2>1. Base(s) + h + 1 = Base(s) + N + 4
    BY <1>2, <1>9
  <2> QED BY <1>5, <1>12, <2>1
<1>14. Cpu'.eip = eip' /\ Cpu'.kstack = kstack' /\ Cpu'.reg = reg'
  BY DEF Cpu
<1>15. HandlerOK(s, Cpu', 1)
  BY <1>9, <1>11, <1>12, <1>13, <1>14 DEF HandlerOK
<1>16. ContextTyped(Cpu')
  BY <1>2, <1>8, <1>12, <1>14 DEF ContextTyped
<1>17. Handles(s, Cpu', current')
  BY <1>5, <1>8, <1>12, <1>14, <1>15 DEF Handles
<1>18. eip'[1] # "switch"
  BY <1>11 DEF HandlerAt
<1> QED BY <1>8, <1>16, <1>17, <1>18

(* The stub pops a register.                                               *)
LEMMA PopsRegister ==
  ASSUME Nested, Execute, eip[1] = "stub", NEW s, s = Last(saved), NEW n \in (5 + N)..(4 + 2 * N),
         StubOK(s, Cpu, n)
  PROVE  /\ saved' = saved /\ current' = current
         /\ ContextTyped(Cpu') /\ Handles(s, Cpu', current') /\ eip'[1] # "switch"
PROOF
<1>1. n \in 0..(6 + 2 * N)
  BY InterruptsAssumption
<1>2. /\ s.vector \in Vectors /\ IsSeq(s.kstack) /\ IsSeq(kstack)
      /\ s.reg = [r \in RegNames |-> s.reg[r]] /\ reg = [r \in RegNames |-> reg[r]]
      /\ EntryOK(s, kstack) /\ reg["esp"] = s.reg["esp"]
      /\ Base(s) \in Nat /\ Base(s) >= 3 /\ n \in Nat /\ N \in Nat
      /\ n + Pad(s.vector) > 0 /\ eip = StubAt(s.vector, n + Pad(s.vector))
      /\ Next1(eip) = StubAt(s.vector, n + 1 + Pad(s.vector))
  BY <1>1, AtStub
<1>3. s.vector \in 0..255
  BY <1>2, VectorIs
<1>4. Cpu.kstack = kstack /\ Cpu.reg = reg
  BY DEF Cpu
<1> PICK i \in 1..N : i = n - 4 - N
  BY <1>2
<1> PICK h \in Nat : h = 4 + N - i
  BY <1>2
<1>5. FrameOK(s, kstack, h) /\ Restored(s, Cpu, i - 1) /\ kstack[Base(s) + 3] = Num(Base(s))
  <2>1. n >= 5 + N /\ n <= 5 + 2 * N /\ h = 8 + 2 * N - n /\ i - 1 = n - 5 - N
    BY <1>2
  <2> QED BY <1>2, <1>4, <2>1, StubParts
<1>6. Instruction = <<"pop", cpu_state[i]>>
  <2>1. n = 4 + N + i
    BY <1>2
  <2> QED BY <1>1, <1>2, <1>3, <2>1, Fetch
<1>7. Op = "pop" /\ Arg = cpu_state[i]
  BY <1>6 DEF Op, Arg
<1>8. /\ kstack' = Front(kstack)
      /\ reg' = [reg EXCEPT ![cpu_state[i]] = Last(kstack)]
      /\ eip' = Next1(eip) /\ saved' = saved /\ current' = current
  BY <1>7, Effects DEF Pop, Top
<1>9. h >= 4
  BY <1>2
<1>10. /\ IsSeq(kstack') /\ EntryOK(s, kstack') /\ FrameOK(s, kstack', h - 1)
       /\ Last(kstack) = kstack[Base(s) + h]
       /\ \A j \in 1..(Base(s) + h - 1) : kstack'[j] = kstack[j]
  <2>1. h >= 1
    BY <1>9
  <2> QED BY <1>2, <1>5, <1>8, <2>1, FramePopped
<1>11. Last(kstack) = s.reg[cpu_state[i]]
  <2> PICK j \in 1..N : j = N + 1 - i
    BY <1>2
  <2>1. j <= h - 3 /\ Base(s) + 3 + j = Base(s) + h /\ N + 1 - j = i
    BY <1>2
  <2>2. kstack[Base(s) + 3 + j] = s.reg[cpu_state[N + 1 - j]]
    BY <1>5, <2>1 DEF FrameOK
  <2> QED BY <1>10, <2>1, <2>2
<1>12. kstack'[Base(s) + 3] = Num(Base(s))
  <2>1. Base(s) + 3 \in 1..(Base(s) + h - 1)
    BY <1>2, <1>9
  <2> QED BY <1>5, <1>10, <2>1
<1>13. \A r \in GPR : r \in RegNames /\ r # "esp"
  BY InterruptsAssumption DEF GPR, RegNames, cpu_state
<1>14. cpu_state[i] \in GPR
  BY DEF GPR
<1>15. /\ reg' = [r \in RegNames |-> reg'[r]]
       /\ reg'["esp"] = s.reg["esp"]
       /\ reg'[cpu_state[i]] = s.reg[cpu_state[i]]
       /\ \A r \in RegNames : r # cpu_state[i] => reg'[r] = reg[r]
  <2>1. "esp" \in RegNames /\ cpu_state[i] \in RegNames /\ cpu_state[i] # "esp"
    BY <1>13, <1>14 DEF RegNames
  <2> PICK c : c = cpu_state[i]
    OBVIOUS
  <2>2. reg' = [reg EXCEPT ![c] = s.reg[c]] /\ DOMAIN reg = RegNames /\ c \in RegNames /\ c # "esp"
    BY <1>2, <1>8, <1>11, <2>1
  <2>3. reg' = [r \in RegNames |-> reg'[r]] /\ reg'[c] = s.reg[c]
        /\ \A r \in RegNames : r # c => reg'[r] = reg[r]
    BY <2>2
  <2> QED BY <1>2, <2>1, <2>2, <2>3
<1>16. Cpu'.eip = eip' /\ Cpu'.kstack = kstack' /\ Cpu'.reg = reg'
  BY DEF Cpu
<1>17. Restored(s, Cpu', i)
  <2> SUFFICES ASSUME NEW j \in 1..i PROVE reg'[cpu_state[j]] = s.reg[cpu_state[j]]
    BY <1>16 DEF Restored
  <2>1. j \in 1..N /\ cpu_state[j] \in RegNames
    <3>1. j \in 1..N
      BY <1>2
    <3>2. cpu_state[j] \in GPR
      BY <3>1 DEF GPR
    <3> QED BY <1>13, <3>1, <3>2
  <2>2. CASE cpu_state[j] = cpu_state[i]
    BY <1>15, <2>2
  <2>3. CASE cpu_state[j] # cpu_state[i]
    <3>1. j # i
      BY <2>3
    <3>2. j \in 1..(i - 1)
      BY <3>1
    <3>3. reg[cpu_state[j]] = s.reg[cpu_state[j]]
      BY <1>4, <1>5, <3>2 DEF Restored
    <3> QED BY <1>15, <2>1, <2>3, <3>3
  <2> QED BY <2>2, <2>3
<1>18. StubOK(s, Cpu', n + 1)
  <2>1. n + 1 \in (5 + N)..(5 + 2 * N) /\ 8 + 2 * N - (n + 1) = h - 1 /\ n + 1 - 5 - N = i
    BY <1>2
  <2> QED BY <1>2, <1>8, <1>10, <1>12, <1>16, <1>17, <2>1 DEF StubOK
<1>19. n + 1 \in 0..(6 + 2 * N)
  BY <1>2
<1> QED BY <1>8, <1>10, <1>15, <1>18, <1>19, StubGoesOn

(* The stub takes the rest of its frame down with pop esp.                 *)
LEMMA PopsEsp ==
  ASSUME Nested, Execute, eip[1] = "stub", NEW s, s = Last(saved), NEW n, n = 5 + 2 * N,
         StubOK(s, Cpu, n)
  PROVE  /\ saved' = saved /\ current' = current
         /\ ContextTyped(Cpu') /\ Handles(s, Cpu', current') /\ eip'[1] # "switch"
PROOF
<1>1. n \in 0..(6 + 2 * N)
  BY InterruptsAssumption
<1>2. /\ s.vector \in Vectors /\ IsSeq(s.kstack) /\ IsSeq(kstack)
      /\ s.reg = [r \in RegNames |-> s.reg[r]] /\ reg = [r \in RegNames |-> reg[r]]
      /\ EntryOK(s, kstack) /\ reg["esp"] = s.reg["esp"]
      /\ Base(s) \in Nat /\ Base(s) >= 3 /\ n \in Nat /\ N \in Nat
      /\ n + Pad(s.vector) > 0 /\ eip = StubAt(s.vector, n + Pad(s.vector))
      /\ Next1(eip) = StubAt(s.vector, n + 1 + Pad(s.vector))
  BY <1>1, AtStub
<1>3. s.vector \in 0..255
  BY <1>2, VectorIs
<1>4. Cpu.kstack = kstack /\ Cpu.reg = reg
  BY DEF Cpu
<1>5. FrameOK(s, kstack, 3) /\ Restored(s, Cpu, N) /\ kstack[Base(s) + 3] = Num(Base(s))
  <2>1. n >= 5 + N /\ n <= 5 + 2 * N /\ 3 = 8 + 2 * N - n /\ N = n - 5 - N
    BY <1>2
  <2> QED BY <1>2, <1>4, <2>1, StubParts
<1>6. Instruction = <<"pop esp">>
  BY <1>1, <1>2, <1>3, Fetch
<1>7. Op = "pop esp"
  BY <1>6 DEF Op
<1>8. /\ kstack' = SubSeq(kstack, 1, Last(kstack)[2])
      /\ eip' = Next1(eip) /\ reg' = reg /\ saved' = saved /\ current' = current
  BY <1>7, Effects DEF PopEsp, Top
<1>9. Len(kstack) = Base(s) + 3
  BY <1>5 DEF FrameOK
<1>10. Last(kstack)[2] = Base(s)
  <2>1. Last(kstack) = Num(Base(s))
    BY <1>5, <1>9 DEF Last
  <2> QED BY <2>1 DEF Num
<1> PICK b \in Nat : b = Base(s)
  BY <1>2
<1>11. kstack' = SubSeq(kstack, 1, b) /\ b \in 0..Len(kstack)
  BY <1>2, <1>8, <1>9, <1>10
<1>12. IsSeq(kstack') /\ Len(kstack') = b /\ \A j \in 1..b : kstack'[j] = kstack[j]
  BY <1>2, <1>11, Cut
<1>13. EntryOK(s, kstack')
  <2>1. Len(kstack') >= Base(s) /\ \A j \in 1..Base(s) : kstack'[j] = kstack[j]
    BY <1>2, <1>12
  <2> QED BY <1>2, <2>1, EntryBelow
<1>14. FrameOK(s, kstack', 0)
  <2>1. Len(kstack') = Base(s) + 0 /\ \A j \in 1..N : ~(j <= 0 - 3)
    BY <1>2, <1>12
  <2> QED BY <2>1 DEF FrameOK
<1>15. Cpu'.eip = eip' /\ Cpu'.kstack = kstack' /\ Cpu'.reg = reg'
  BY DEF Cpu
<1>16. StubOK(s, Cpu', n + 1)
  <2>1. n + 1 = 6 + 2 * N
    BY <1>2
  <2>2. Restored(s, Cpu', N)
    BY <1>4, <1>5, <1>8, <1>15 DEF Restored
  <2> QED BY <1>2, <1>8, <1>14, <1>15, <2>1, <2>2 DEF StubOK
<1>17. n + 1 \in 0..(6 + 2 * N)
  BY <1>2
<1> QED BY <1>2, <1>8, <1>12, <1>13, <1>16, <1>17, StubGoesOn

(* The stub's iret goes back to what was interrupted.                      *)
LEMMA Returns ==
  ASSUME Nested, Execute, eip[1] = "stub", NEW s, s = Last(saved), NEW n, n = 6 + 2 * N,
         StubOK(s, Cpu, n)
  PROVE  /\ Op = "iret" /\ saved' = Front(saved) /\ current' = current
         /\ eip' = s.eip /\ reg' = s.reg /\ kstack' = s.kstack
PROOF
<1>1. n \in 0..(6 + 2 * N)
  BY InterruptsAssumption
<1>2. /\ s.vector \in Vectors /\ IsSeq(s.kstack) /\ IsSeq(kstack)
      /\ s.reg = [r \in RegNames |-> s.reg[r]] /\ reg = [r \in RegNames |-> reg[r]]
      /\ EntryOK(s, kstack) /\ reg["esp"] = s.reg["esp"]
      /\ Base(s) \in Nat /\ Base(s) >= 3 /\ n \in Nat /\ N \in Nat
      /\ n + Pad(s.vector) > 0 /\ eip = StubAt(s.vector, n + Pad(s.vector))
      /\ Next1(eip) = StubAt(s.vector, n + 1 + Pad(s.vector))
  BY <1>1, AtStub
<1>3. s.vector \in 0..255
  BY <1>2, VectorIs
<1>4. Cpu.kstack = kstack /\ Cpu.reg = reg
  BY DEF Cpu
<1>5. FrameOK(s, kstack, 0) /\ Restored(s, Cpu, N)
  BY <1>2, <1>4, StubParts
<1>6. Instruction = <<"iret">>
  BY <1>1, <1>2, <1>3, Fetch
<1>7. Op = "iret"
  BY <1>6 DEF Op
<1>8. Len(kstack) = Base(s)
  BY <1>2, <1>5 DEF FrameOK
<1> PICK b \in Nat : b = Base(s)
  BY <1>2
<1>9. Len(kstack) - 0 = b /\ Len(kstack) - 1 = b - 1 /\ Len(kstack) - 3 = b - 3
  BY <1>8
<1> DEFINE toUser == kstack[b - 1] = Cs(3)
           popped == IF toUser THEN 5 ELSE 3
<1>10. /\ eip' = kstack[b] /\ current' = current
       /\ reg' = IF toUser THEN [reg EXCEPT !["esp"] = kstack[b - 3]] ELSE reg
       /\ kstack' = SubSeq(kstack, 1, b - popped)
       /\ saved' = IF eip[1] = "stub" THEN Front(saved) ELSE saved
  <2>1. Iret
    BY <1>7, Effects
  <2> QED BY <1>8, <1>9, <2>1 DEF Iret
<1>11. saved' = Front(saved)
  BY <1>10
<1>12. /\ kstack[b] = s.eip
       /\ s.eip[1] = "user" => kstack[b - 1] = Cs(3)
       /\ s.eip[1] # "user" => kstack[b - 1] = Cs(0)
       /\ s.eip[1] = "user" => kstack[2] = s.reg["esp"] /\ s.kstack = <<>>
       /\ s.eip[1] # "user" => \A i \in 1..Len(s.kstack) : kstack[i] = s.kstack[i]
  BY <1>2 DEF EntryOK
<1>13. toUser <=> s.eip[1] = "user"
  <2>1. Cs(3) # Cs(0)
    BY DEF Cs
  <2> QED BY <1>12, <2>1
<1>14. (s.eip[1] = "user" => b = 5) /\ (s.eip[1] # "user" => b = Len(s.kstack) + 3)
  BY <1>2, BaseIs
<1>15. reg = s.reg
  <2>1. \A i \in 1..N : reg[cpu_state[i]] = s.reg[cpu_state[i]]
    BY <1>4, <1>5 DEF Restored
  <2>2. \A r \in RegNames : reg[r] = s.reg[r]
    BY <1>2, <2>1 DEF RegNames, GPR
  <2> QED BY <1>2, <2>2
<1>16. reg' = s.reg
  <2>1. CASE toUser
    <3>1. kstack[b - 3] = s.reg["esp"]
      <4>1. b - 3 = 2
        BY <1>13, <1>14, <2>1
      <4> QED BY <1>12, <1>13, <2>1, <4>1
    <3>2. reg' = [reg EXCEPT !["esp"] = s.reg["esp"]]
      BY <1>10, <2>1, <3>1
    <3>3. s.reg = [r \in RegNames |-> s.reg[r]] /\ "esp" \in RegNames
      BY <1>2 DEF RegNames
    <3> QED BY <1>15, <3>2, <3>3
  <2>2. CASE ~toUser
    BY <1>10, <1>15, <2>2
  <2> QED BY <2>1, <2>2
<1>17. kstack' = s.kstack
  <2>1. CASE toUser
    <3>1. popped = 5
      BY <2>1
    <3> HIDE DEF popped
    <3>2. s.eip[1] = "user"
      BY <1>13, <2>1
    <3>3. b - popped = 0
      BY <1>14, <3>1, <3>2
    <3>4. kstack' = SubSeq(kstack, 1, 0)
      BY <1>10, <3>3
    <3>5. SubSeq(kstack, 1, 0) = <<>>
      BY SubSeqEmpty
    <3> QED BY <1>12, <3>2, <3>4, <3>5
  <2>2. CASE ~toUser
    <3>1. Len(s.kstack) \in Nat
      BY <1>2, SeqLen
    <3>2. popped = 3
      BY <2>2
    <3> HIDE DEF popped
    <3>3. s.eip[1] # "user"
      BY <1>13, <2>2
    <3>4. b - popped = Len(s.kstack) /\ Len(s.kstack) \in 0..Len(kstack)
      BY <1>8, <1>14, <3>1, <3>2, <3>3
    <3>5. kstack' = SubSeq(kstack, 1, Len(s.kstack))
      BY <1>10, <3>4
    <3> PICK m \in 0..Len(kstack) : m = Len(s.kstack)
      BY <3>4
    <3>6. /\ IsSeq(SubSeq(kstack, 1, m)) /\ Len(SubSeq(kstack, 1, m)) = m
          /\ \A i \in 1..m : SubSeq(kstack, 1, m)[i] = kstack[i]
      BY <1>2, Cut
    <3>7. kstack' = SubSeq(kstack, 1, m)
      BY <3>5
    <3>8. IsSeq(kstack') /\ Len(kstack') = Len(s.kstack)
          /\ \A i \in 1..Len(kstack') : kstack'[i] = s.kstack[i]
      BY <1>12, <3>3, <3>6, <3>7
    <3> QED BY <1>2, <3>8, SameSeq
  <2> QED BY <2>1, <2>2
<1>18. eip' = s.eip
  BY <1>10, <1>12
<1> QED BY <1>7, <1>10, <1>11, <1>16, <1>17, <1>18

(* What an instruction of a stub does.                                     *)
LEMMA StubStep ==
  ASSUME Nested, Execute, eip[1] = "stub"
  PROVE  \/ /\ saved' = saved /\ current' = current
            /\ ContextTyped(Cpu') /\ Handles(Last(saved), Cpu', current') /\ eip'[1] # "switch"
         \/ /\ saved # <<>> /\ saved' = Front(saved) /\ current' = current
            /\ eip' = Last(saved).eip /\ reg' = Last(saved).reg /\ kstack' = Last(saved).kstack
PROOF
<1> PICK s : s = Last(saved)
  OBVIOUS
<1>1. saved # <<>> /\ \E n \in 0..(6 + 2 * N) : StubOK(s, Cpu, n)
  BY InStub
<1> PICK n \in 0..(6 + 2 * N) : StubOK(s, Cpu, n)
  BY <1>1
<1>2. N \in Nat
  BY InterruptsAssumption
<1>3. CASE n \in 0..1
  BY <1>3, PushesNumber
<1>4. CASE n = 2
  BY <1>4, PushesEsp
<1>5. CASE n = 3
  BY <1>5, AddsEight
<1>6. CASE n \in 4..(3 + N)
  BY <1>6, PushesRegister
<1>7. CASE n = 4 + N
  BY <1>7, CallsHandler
<1>8. CASE n \in (5 + N)..(4 + 2 * N)
  BY <1>8, PopsRegister
<1>9. CASE n = 5 + 2 * N
  BY <1>9, PopsEsp
<1>10. CASE n = 6 + 2 * N
  BY <1>1, <1>10, Returns
<1>11. \/ n \in 0..1 \/ n = 2 \/ n = 3 \/ n \in 4..(3 + N) \/ n = 4 + N
       \/ n \in (5 + N)..(4 + 2 * N) \/ n = 5 + 2 * N \/ n = 6 + 2 * N
  BY <1>2
<1> QED BY <1>3, <1>4, <1>5, <1>6, <1>7, <1>8, <1>9, <1>10, <1>11
-----------------------------------------------------------------------------
(***************************************************************************)
(* switch_to_process.                                                      *)
(***************************************************************************)

(* How far switch_to_process is with the process p.                        *)
SwitchOK(p, n) ==
  /\ eip = SwitchAt(p, n)
  /\ n >= 3 => /\ saved = <<>>
               /\ kstack = PreparedFrame(p)
               /\ \A i \in 1..(n - 3) : reg[cpu_state[i]] = Context(p)[cpu_state[i]]

(* The CPU is in switch_to_process, for a process entered by now.          *)
LEMMA InSwitch ==
  ASSUME Nested, eip[1] = "switch"
  PROVE  \E p \in 0..current : \E n \in 1..(3 + N) : SwitchOK(p, n)
PROOF
<1>1. Cpu.eip = eip /\ Cpu.kstack = kstack /\ Cpu.reg = reg
  BY DEF Cpu
<1>2. /\ eip # Kmain /\ (\A v, k : eip # StubAt(v, k) /\ eip # HandlerAt(v, k))
      /\ \A p : eip # User(p) /\ eip # Hlt(p)
  BY DEF Kmain, User, Hlt, HandlerAt, StubAt
<1>3. N \in Nat /\ current \in Nat
  BY InterruptsAssumption, TopIs
<1>4. ASSUME NEW p \in 0..current, eip \in {SwitchAt(p, 1), SwitchAt(p, 2)}
      PROVE  \E n \in 1..(3 + N) : SwitchOK(p, n)
  <2> PICK n \in 1..2 : eip = SwitchAt(p, n)
    BY <1>4
  <2>1. n \in 1..(3 + N) /\ ~(n >= 3)
    BY <1>3
  <2> QED BY <2>1 DEF SwitchOK
<1>5. CASE saved = <<>>
  <2>1. First(Cpu, current)
    BY <1>5, TopIs
  <2>2. CASE \E p \in 0..current : eip \in {SwitchAt(p, 1), SwitchAt(p, 2)}
    BY <1>4, <2>2
  <2>3. CASE \E p \in 0..current, j \in 0..N :
               /\ eip = SwitchAt(p, 3 + j)
               /\ kstack = PreparedFrame(p)
               /\ \A i \in 1..j : reg[cpu_state[i]] = Context(p)[cpu_state[i]]
    <3> PICK p \in 0..current, j \in 0..N :
               /\ eip = SwitchAt(p, 3 + j)
               /\ kstack = PreparedFrame(p)
               /\ \A i \in 1..j : reg[cpu_state[i]] = Context(p)[cpu_state[i]]
      BY <2>3
    <3> PICK n : n = 3 + j
      OBVIOUS
    <3>1. n \in 1..(3 + N) /\ n - 3 = j
      BY <1>3
    <3>2. SwitchOK(p, n)
      BY <1>5, <3>1 DEF SwitchOK
    <3> QED BY <3>1, <3>2
  <2> QED BY <1>1, <1>2, <2>1, <2>2, <2>3 DEF First
<1>6. CASE saved # <<>>
  <2> PICK s : s = Last(saved)
    OBVIOUS
  <2>1. Handles(s, Cpu, current)
    BY <1>6, TopIs
  <2>2. \A n : ~StubOK(s, Cpu, n) /\ ~HandlerOK(s, Cpu, n)
    BY <1>1, <1>2 DEF StubOK, HandlerOK
  <2>3. \E p \in 0..current : eip \in {SwitchAt(p, 1), SwitchAt(p, 2)}
    BY <1>1, <1>2, <2>1, <2>2 DEF Handles
  <2> QED BY <1>4, <2>3
<1> QED BY <1>5, <1>6

(* It goes on with the context of p, or has entered p.                     *)
LEMMA SwitchStep ==
  ASSUME Nested, Execute, eip[1] = "switch"
  PROVE  /\ Nested' /\ current' = current
         /\ saved' = saved \/ saved' = <<>>
         /\ \/ eip'[1] = "switch" /\ eip'[2] = eip[2] /\ Op # "iret"
            \/ /\ Op = "iret" /\ saved = <<>> /\ saved' = <<>>
               /\ eip' = User(eip[2]) /\ reg' = Context(eip[2]) /\ kstack' = <<>>
PROOF
<1> PICK p \in 0..current, n \in 1..(3 + N) : SwitchOK(p, n)
  BY InSwitch
<1>1. N \in Nat /\ current \in Nat /\ ContextTyped(Cpu) /\ p \in Nat /\ n \in Nat
  BY InterruptsAssumption, TopIs
<1>2. Cpu.eip = eip /\ Cpu.kstack = kstack /\ Cpu.reg = reg
  BY DEF Cpu
<1>3. Cpu'.eip = eip' /\ Cpu'.kstack = kstack' /\ Cpu'.reg = reg'
  BY DEF Cpu
<1>4. IsSeq(kstack) /\ reg = [r \in RegNames |-> reg[r]]
  BY <1>1, <1>2 DEF ContextTyped
<1>5. eip = SwitchAt(p, n) /\ eip[2] = p /\ Next1(eip) = SwitchAt(p, n + 1)
  BY FetchSwitch DEF SwitchOK
<1>6. \A k : SwitchAt(p, k)[1] = "switch" /\ SwitchAt(p, k)[2] = p
  BY DEF SwitchAt
<1>7. CASE n = 1
  <2>1. Op = "mov cr3"
    <3>1. Instruction = <<"mov cr3">>
      BY <1>5, <1>7, FetchSwitch
    <3> QED BY <3>1 DEF Op
  <2>2. eip' = SwitchAt(p, 2) /\ reg' = reg /\ kstack' = kstack /\ saved' = saved /\ current' = current
    <3>1. Load
      BY <2>1, Effects
    <3>2. Op # "mov" /\ Op # "mov esp"
      BY <2>1
    <3>3. n + 1 = 2
      BY <1>7
    <3> QED BY <1>5, <3>1, <3>2, <3>3 DEF Load
  <2>4. ContextTyped(Cpu')
    BY <1>3, <1>4, <2>2 DEF ContextTyped
  <2>5. First(Cpu', current')
    BY <1>3, <2>2 DEF First
  <2>6. \A s : Handles(s, Cpu', current')
    BY <1>3, <2>2 DEF Handles
  <2>7. Nested'
    BY <1>1, <2>2, <2>4, <2>5, <2>6, TopStep
  <2> QED BY <1>5, <1>6, <2>1, <2>2, <2>7
<1>8. CASE n = 2
  <2>1. Op = "mov esp"
    <3>1. Instruction = <<"mov esp">>
      BY <1>5, <1>8, FetchSwitch
    <3> QED BY <3>1 DEF Op
  <2>2. eip' = SwitchAt(p, 3) /\ reg' = reg /\ kstack' = PreparedFrame(p) /\ saved' = <<>>
        /\ current' = current
    <3>1. Load
      BY <2>1, Effects
    <3>2. Op # "mov"
      BY <2>1
    <3>3. n + 1 = 3
      BY <1>8
    <3> QED BY <1>5, <2>1, <3>1, <3>2, <3>3 DEF Load
  <2>3. ContextTyped(Cpu')
    <3>1. IsSeq(PreparedFrame(p))
      BY FirstWords DEF PreparedFrame
    <3> QED BY <1>3, <1>4, <2>2, <3>1 DEF ContextTyped
  <2>4. First(Cpu', current')
    <3> PICK j \in 0..N : j = 0
      BY <1>1
    <3>1. 3 + j = 3 /\ \A i \in 1..j : FALSE
      OBVIOUS
    <3>2. /\ eip' = SwitchAt(p, 3 + j) /\ kstack' = PreparedFrame(p)
          /\ \A i \in 1..j : reg'[cpu_state[i]] = Context(p)[cpu_state[i]]
      BY <2>2, <3>1
    <3> QED BY <1>3, <2>2, <3>2 DEF First
  <2>5. Nested'
    BY <1>1, <2>2, <2>3, <2>4, FreshStep
  <2> QED BY <1>5, <1>6, <2>1, <2>2, <2>5
<1>9. CASE n \in 3..(2 + N)
  <2> PICK i \in 1..N : n = 2 + i
    BY <1>1, <1>9
  <2> PICK c : c = cpu_state[i]
    OBVIOUS
  <2>1. Instruction = <<"mov", c>>
    BY <1>5, FetchSwitch
  <2>2. Op = "mov" /\ Arg = c
    BY <2>1 DEF Op, Arg
  <2>3. eip' = SwitchAt(p, n + 1) /\ reg' = [reg EXCEPT ![c] = Context(p)[c]] /\ kstack' = kstack
        /\ saved' = saved /\ current' = current
    <3>1. Load
      BY <2>2, Effects
    <3>2. Op # "mov esp"
      BY <2>2
    <3> QED BY <1>5, <2>2, <3>1, <3>2 DEF Load
  <2>4. saved = <<>> /\ kstack = PreparedFrame(p)
        /\ \A k \in 1..(n - 3) : reg[cpu_state[k]] = Context(p)[cpu_state[k]]
    <3>1. n >= 3
      BY <1>9
    <3> QED BY <3>1 DEF SwitchOK
  <2>5. c \in RegNames
    BY DEF RegNames, GPR
  <2>6. reg' = [r \in RegNames |-> reg'[r]] /\ reg'[c] = Context(p)[c]
        /\ \A r \in RegNames : r # c => reg'[r] = reg[r]
    BY <1>4, <2>3, <2>5
  <2>7. ContextTyped(Cpu')
    BY <1>3, <1>4, <2>3, <2>6 DEF ContextTyped
  <2>8. \A k \in 1..i : reg'[cpu_state[k]] = Context(p)[cpu_state[k]]
    <3> TAKE k \in 1..i
    <3>1. k \in 1..N /\ cpu_state[k] \in RegNames
      <4>1. k \in 1..N
        BY <1>1
      <4> QED BY <4>1 DEF RegNames, GPR
    <3>2. CASE cpu_state[k] = c
      BY <2>6, <3>2
    <3>3. CASE cpu_state[k] # c
      <4>1. k # i
        BY <3>3
      <4>2. k \in 1..(n - 3)
        BY <4>1
      <4> QED BY <2>4, <2>6, <3>1, <3>3, <4>2
    <3> QED BY <3>2, <3>3
  <2>9. First(Cpu', current')
    <3>1. n + 1 = 3 + i /\ i \in 0..N
      BY <1>1
    <3>2. /\ eip' = SwitchAt(p, 3 + i) /\ kstack' = PreparedFrame(p)
          /\ \A k \in 1..i : reg'[cpu_state[k]] = Context(p)[cpu_state[k]]
      BY <2>3, <2>4, <2>8, <3>1
    <3> QED BY <1>3, <2>3, <3>1, <3>2 DEF First
  <2>10. Nested'
    BY <1>1, <2>3, <2>4, <2>7, <2>9, FreshStep
  <2> QED BY <1>5, <1>6, <2>2, <2>3, <2>10
<1>10. CASE n = 3 + N
  <2>1. Op = "iret"
    <3>1. Instruction = <<"iret">>
      BY <1>5, <1>10, FetchSwitch
    <3> QED BY <3>1 DEF Op
  <2>2. saved = <<>> /\ kstack = PreparedFrame(p)
        /\ \A k \in 1..N : reg[cpu_state[k]] = Context(p)[cpu_state[k]]
    <3>1. n >= 3 /\ n - 3 = N
      BY <1>1, <1>10
    <3> QED BY <3>1 DEF SwitchOK
  <2>3. /\ Len(kstack) = 5 /\ kstack[5] = User(p) /\ kstack[4] = Cs(3)
        /\ kstack[2] = Context(p)["esp"]
    BY <2>2, FirstWords DEF PreparedFrame
  <2>4. /\ eip' = kstack[5] /\ current' = current
        /\ reg' = [reg EXCEPT !["esp"] = kstack[2]]
        /\ kstack' = SubSeq(kstack, 1, 0) /\ saved' = saved
    <3>1. Iret
      BY <2>1, Effects
    <3>2. Len(kstack) - 0 = 5 /\ Len(kstack) - 1 = 4 /\ Len(kstack) - 3 = 2 /\ Len(kstack) - 5 = 0
      BY <2>3
    <3> QED BY <2>3, <3>1, <3>2 DEF Iret
  <2>5. kstack' = <<>>
    BY <2>4, SubSeqEmpty
  <2>6. reg' = Context(p)
    <3>1. RegNames = DOMAIN Context(p) /\ Context(p) = [r \in RegNames |-> Context(p)[r]]
      BY DEF RegNames, Context
    <3> PICK x : x = Context(p)
      OBVIOUS
    <3>2. reg' = [reg EXCEPT !["esp"] = x["esp"]] /\ "esp" \in RegNames
      BY <2>3, <2>4 DEF RegNames
    <3>3. \A r \in RegNames : r # "esp" => reg[r] = x[r]
      BY <2>2 DEF RegNames, GPR
    <3>4. \A r \in RegNames : reg'[r] = x[r]
      BY <1>4, <3>2, <3>3
    <3> QED BY <1>4, <3>1, <3>2, <3>4
  <2>7. ContextTyped(Cpu')
    <3>1. reg' = [r \in RegNames |-> reg'[r]]
      BY <1>4, <2>4
    <3>2. IsSeq(<<>>)
      BY ShortSeqs
    <3> QED BY <1>3, <2>5, <3>1, <3>2 DEF ContextTyped
  <2>8. First(Cpu', current')
    BY <1>3, <2>3, <2>4, <2>5 DEF First
  <2>9. Nested'
    BY <1>1, <2>2, <2>4, <2>7, <2>8, FreshStep
  <2> QED BY <1>5, <2>1, <2>2, <2>3, <2>4, <2>5, <2>6, <2>9
<1>11. n = 1 \/ n = 2 \/ n \in 3..(2 + N) \/ n = 3 + N
  BY <1>1
<1> QED BY <1>7, <1>8, <1>9, <1>10, <1>11

-----------------------------------------------------------------------------
(***************************************************************************)
(* interrupt_handler and what it calls.                                    *)
(***************************************************************************)

(* A handler goes on, its return address and its arguments untouched.      *)
LEMMA HandlerGoesOn ==
  ASSUME Nested, NEW v, NEW n, NEW k \in 1..3, eip = HandlerAt(v, n), eip' = HandlerAt(v, k),
         k = 3 => v = PIT_INT_IDX, saved' = saved, current' = current, kstack' = kstack,
         reg' = [r \in RegNames |-> reg'[r]], reg'["esp"] = reg["esp"]
  PROVE  Nested' /\ eip'[1] # "switch"
PROOF
<1> PICK s : s = Last(saved)
  OBVIOUS
<1>1. /\ saved # <<>> /\ ContextTyped(Cpu)
      /\ EntryOK(s, kstack) /\ reg["esp"] = s.reg["esp"]
      /\ HandlerOK(s, Cpu, n) /\ v = s.vector
  BY InHandler
<1>2. current \in Nat
  BY TopIs
<1>3. Cpu.kstack = kstack /\ Cpu'.eip = eip' /\ Cpu'.kstack = kstack' /\ Cpu'.reg = reg'
  BY DEF Cpu
<1>4. HandlerOK(s, Cpu', k)
  BY <1>1, <1>3 DEF HandlerOK
<1>5. Handles(s, Cpu', current')
  BY <1>1, <1>3, <1>4 DEF Handles
<1>6. ContextTyped(Cpu')
  BY <1>1, <1>3 DEF ContextTyped
<1>7. Nested'
  BY <1>1, <1>2, <1>5, <1>6, TopStep
<1>8. eip'[1] # "switch"
  BY DEF HandlerAt
<1> QED BY <1>7, <1>8

(* Compiled code changes the general registers.                            *)
LEMMA BeginStep ==
  ASSUME Nested, NEW v, Begin(v)
  PROVE  Nested' /\ saved' = saved /\ current' = current /\ eip[1] # "switch" /\ eip'[1] # "switch"
PROOF
<1>1. /\ eip = HandlerAt(v, 1) /\ eip' = HandlerAt(v, 2)
      /\ reg' = [r \in DOMAIN reg |-> IF r \in GPR THEN <<"compiled", Len(saved), 0>> ELSE reg[r]]
      /\ kstack' = kstack /\ saved' = saved /\ current' = current
  BY DEF Begin, At
<1>2. reg = [r \in RegNames |-> reg[r]]
  BY TopIs DEF ContextTyped, Cpu
<1>3. "esp" \in RegNames /\ "esp" \notin GPR
  BY InterruptsAssumption DEF RegNames, GPR, cpu_state
<1>4. reg' = [r \in RegNames |-> reg'[r]] /\ reg'["esp"] = reg["esp"]
  <2> PICK x : x = <<"compiled", Len(saved), 0>>
    OBVIOUS
  <2>1. reg' = [r \in RegNames |-> IF r \in GPR THEN x ELSE reg[r]]
    BY <1>1, <1>2
  <2> QED BY <1>3, <2>1
<1>5. eip[1] # "switch"
  BY <1>1 DEF HandlerAt
<1>6. 2 \in 1..3
  OBVIOUS
<1>7. Nested' /\ eip'[1] # "switch"
  BY <1>1, <1>4, <1>6, HandlerGoesOn
<1> QED BY <1>1, <1>5, <1>7

(* pit_handler acknowledges the tick.                                      *)
LEMMA AcknowledgeStep ==
  ASSUME Nested, NEW v, Acknowledge(v)
  PROVE  Nested' /\ saved' = saved /\ current' = current /\ eip[1] # "switch" /\ eip'[1] # "switch"
PROOF
<1>1. /\ eip = HandlerAt(v, 2) /\ eip' = HandlerAt(v, 3) /\ v = PIT_INT_IDX
      /\ reg' = reg /\ kstack' = kstack /\ saved' = saved /\ current' = current
  BY DEF Acknowledge, At
<1>2. reg = [r \in RegNames |-> reg[r]]
  BY TopIs DEF ContextTyped, Cpu
<1>3. eip[1] # "switch"
  BY <1>1 DEF HandlerAt
<1>4. 3 \in 1..3
  OBVIOUS
<1>5. Nested' /\ eip'[1] # "switch"
  BY <1>1, <1>2, <1>4, HandlerGoesOn
<1> QED BY <1>1, <1>3, <1>5

(* schedule() calls switch_to_process for the next process.                *)
LEMMA SwitchesTo ==
  ASSUME Nested, NEW v, Switch(v)
  PROVE  Nested' /\ saved' = saved /\ eip'[1] = "switch" /\ eip'[2] = current'
PROOF
<1>1. /\ current' = current + 1 /\ eip' = SwitchAt(current + 1, 1)
      /\ reg' = reg /\ kstack' = kstack /\ saved' = saved
  BY DEF Switch
<1>2. current \in Nat /\ ContextTyped(Cpu)
  BY TopIs
<1>3. Cpu.kstack = kstack /\ Cpu.reg = reg /\ Cpu'.eip = eip' /\ Cpu'.kstack = kstack' /\ Cpu'.reg = reg'
  BY DEF Cpu
<1>4. ContextTyped(Cpu')
  BY <1>1, <1>2, <1>3 DEF ContextTyped
<1> PICK p \in Nat : p = current + 1
  BY <1>2
<1>5. current' = p /\ p \in 0..p /\ eip' = SwitchAt(p, 1)
  BY <1>1
<1>6. First(Cpu', current') /\ \A s : Handles(s, Cpu', current')
  BY <1>3, <1>5 DEF First, Handles
<1>7. Nested'
  BY <1>1, <1>2, <1>4, <1>6, TopStep
<1> QED BY <1>1, <1>5, <1>7 DEF SwitchAt

(* interrupt_handler returns to the stub that called it.                   *)
LEMMA ReturnStep ==
  ASSUME Nested, NEW v, Return(v)
  PROVE  Nested' /\ saved' = saved /\ current' = current /\ eip[1] # "switch" /\ eip'[1] # "switch"
PROOF
<1> PICK n \in 2..3 : eip = HandlerAt(v, n)
  BY DEF Return, At
<1> PICK s : s = Last(saved)
  OBVIOUS
<1>1. /\ eip' = Last(kstack) /\ kstack' = Front(kstack)
      /\ reg' = reg /\ saved' = saved /\ current' = current
  BY DEF Return, Top
<1>2. /\ saved # <<>> /\ CauseOK(s) /\ ContextTyped(s) /\ ContextTyped(Cpu)
      /\ EntryOK(s, kstack) /\ reg["esp"] = s.reg["esp"]
      /\ HandlerOK(s, Cpu, n) /\ v = s.vector
  BY InHandler
<1>3. Cpu.eip = eip /\ Cpu.kstack = kstack /\ Cpu.reg = reg
  BY DEF Cpu
<1>4. IsSeq(kstack) /\ reg = [r \in RegNames |-> reg[r]] /\ IsSeq(s.kstack)
  BY <1>2, <1>3 DEF ContextTyped
<1>5. Base(s) \in Nat /\ Base(s) >= 3 /\ N \in Nat
  BY <1>4, BaseIs, InterruptsAssumption
<1> PICK h \in Nat : h = N + 4
  BY <1>5
<1>6. FrameOK(s, kstack, h) /\ kstack[Base(s) + 3] = Num(Base(s))
      /\ kstack[Base(s) + h] = StubAt(s.vector, 5 + N + Pad(s.vector))
  <2>1. Base(s) + h = Base(s) + N + 4
    BY <1>5
  <2> QED BY <1>2, <1>3, <2>1 DEF HandlerOK
<1>7. /\ IsSeq(kstack') /\ EntryOK(s, kstack') /\ FrameOK(s, kstack', h - 1)
      /\ Last(kstack) = kstack[Base(s) + h]
      /\ \A j \in 1..(Base(s) + h - 1) : kstack'[j] = kstack[j]
  <2>1. h >= 1
    BY <1>5
  <2> QED BY <1>1, <1>2, <1>4, <1>6, <2>1, FramePopped
<1>8. kstack'[Base(s) + 3] = Num(Base(s))
  <2>1. Base(s) + 3 \in 1..(Base(s) + h - 1)
    BY <1>5
  <2> QED BY <1>6, <1>7, <2>1
<1>9. Cpu'.eip = eip' /\ Cpu'.kstack = kstack' /\ Cpu'.reg = reg'
  BY DEF Cpu
<1> PICK k : k = 5 + N
  OBVIOUS
<1>10. k \in (5 + N)..(5 + 2 * N) /\ 8 + 2 * N - k = h - 1 /\ k - 5 - N = 0 /\ k \in 0..(6 + 2 * N)
  BY <1>5
<1>11. Restored(s, Cpu', 0)
  BY DEF Restored
<1>12. StubOK(s, Cpu', k)
  <2>1. eip' = StubAt(s.vector, k + Pad(s.vector))
    BY <1>1, <1>6, <1>7
  <2>2. FrameOK(s, kstack', 8 + 2 * N - k) /\ Restored(s, Cpu', k - 5 - N)
    BY <1>7, <1>10, <1>11
  <2> QED BY <1>8, <1>9, <1>10, <2>1, <2>2 DEF StubOK
<1>13. ContextTyped(Cpu') /\ Handles(s, Cpu', current') /\ eip'[1] # "switch"
  BY <1>1, <1>2, <1>4, <1>7, <1>10, <1>12, StubGoesOn
<1>14. eip[1] # "switch"
  BY DEF HandlerAt
<1>15. current \in Nat
  BY TopIs
<1>16. Nested'
  BY <1>1, <1>2, <1>13, <1>15, TopStep
<1> QED BY <1>1, <1>13, <1>14, <1>16

(* A fault handler gives up.                                               *)
LEMMA HaltStep ==
  ASSUME Nested, NEW v, Halt(v)
  PROVE  Nested' /\ saved' = saved /\ current' = current /\ eip[1] # "switch" /\ eip'[1] # "switch"
PROOF
<1> PICK s : s = Last(saved)
  OBVIOUS
<1>1. /\ eip = HandlerAt(v, 2) /\ eip' = Hlt(v)
      /\ reg' = reg /\ kstack' = kstack /\ saved' = saved /\ current' = current
  BY DEF Halt, At
<1>2. saved # <<>> /\ ContextTyped(Cpu) /\ v = s.vector /\ current \in Nat
  BY <1>1, InHandler, TopIs
<1>3. Cpu.kstack = kstack /\ Cpu.reg = reg /\ Cpu'.eip = eip' /\ Cpu'.kstack = kstack' /\ Cpu'.reg = reg'
  BY DEF Cpu
<1>4. ContextTyped(Cpu')
  BY <1>1, <1>2, <1>3 DEF ContextTyped
<1>5. Handles(s, Cpu', current')
  BY <1>1, <1>2, <1>3 DEF Handles
<1>6. Nested'
  BY <1>1, <1>2, <1>4, <1>5, TopStep
<1> QED BY <1>1, <1>6 DEF HandlerAt, Hlt

-----------------------------------------------------------------------------
(***************************************************************************)
(* switch_to_process enters the process schedule() chose last.             *)
(***************************************************************************)

(* The CPU goes on, or goes over to switch_to_process for a new process.   *)
LEMMA SwitchesStay ==
  ASSUME Nested, SwitchesOK, saved' = saved,
         \/ /\ current' = current /\ (eip[1] = "switch" <=> eip'[1] = "switch")
            /\ eip'[1] = "switch" => eip'[2] = eip[2]
         \/ eip'[1] = "switch" /\ eip'[2] = current'
  PROVE  SwitchesOK'
PROOF
<1> PICK m \in Nat : m = Len(saved)
  BY TheContexts
<1>1. Depth = m + 1 /\ (\A i \in 1..m : ContextAt(i) = saved[i]) /\ ContextAt(m + 1).eip = eip
  BY TheContexts DEF Cpu
<1>2. /\ Depth' = m + 1 /\ \A i \in 1..m : ContextAt(i)' = saved[i]
      /\ ContextAt(m + 1)'.eip = eip'
  BY <1>1 DEF Depth, ContextAt, Cpu
<1>3. ASSUME NEW i \in 1..(m + 1), ContextAt(i)'.eip[1] = "switch"
      PROVE  \/ ContextAt(i)'.eip[2] = current'
             \/ \E j \in (i + 1)..(m + 1) : ContextAt(j)'.eip[1] = "switch"
  <2>1. CASE eip'[1] = "switch" /\ eip'[2] = current'
    <3>1. CASE i = m + 1
      BY <1>2, <2>1, <3>1
    <3>2. CASE i # m + 1
      <4>1. m + 1 \in (i + 1)..(m + 1)
        BY <3>2
      <4> QED BY <1>2, <2>1, <4>1
    <3> QED BY <3>1, <3>2
  <2>2. CASE /\ current' = current /\ (eip[1] = "switch" <=> eip'[1] = "switch")
             /\ eip'[1] = "switch" => eip'[2] = eip[2]
    <3>1. \A j \in 1..(m + 1) : ContextAt(j)'.eip[1] = "switch" <=> ContextAt(j).eip[1] = "switch"
      <4> TAKE j \in 1..(m + 1)
      <4>1. j \in 1..m \/ j = m + 1
        OBVIOUS
      <4> QED BY <1>1, <1>2, <2>2, <4>1
    <3>2. ContextAt(i)'.eip[2] = ContextAt(i).eip[2]
      <4>1. i \in 1..m \/ i = m + 1
        OBVIOUS
      <4> QED BY <1>1, <1>2, <1>3, <2>2, <4>1
    <3>3. ContextAt(i).eip[2] = current \/ \E j \in (i + 1)..(m + 1) : ContextAt(j).eip[1] = "switch"
      BY <1>1, <1>3, <3>1 DEF SwitchesOK, Switching
    <3>4. \A j \in (i + 1)..(m + 1) : j \in 1..(m + 1)
      OBVIOUS
    <3> QED BY <2>2, <3>1, <3>2, <3>3, <3>4
  <2> QED BY <2>1, <2>2
<1>4. \A i \in 1..Depth' : ContextAt(i)'.eip[1] = "switch" =>
        \/ ContextAt(i)'.eip[2] = current'
        \/ \E j \in (i + 1)..Depth' : ContextAt(j)'.eip[1] = "switch"
  BY <1>2, <1>3
<1> QED BY <1>4 DEF SwitchesOK, Switching

(* Nothing is interrupted any more.                                        *)
LEMMA SwitchesFresh ==
  ASSUME saved' = <<>>, eip'[1] = "switch" => eip'[2] = current'
  PROVE  SwitchesOK'
PROOF
<1>1. Len(saved)' = 0
  BY ShortSeqs
<1>2. Depth' = 1 /\ ContextAt(1)' = Cpu'
  BY <1>1 DEF Depth, ContextAt
<1>3. Cpu'.eip = eip'
  BY DEF Cpu
<1>4. \A i \in 1..Depth' : ContextAt(i)'.eip[1] = "switch" => ContextAt(i)'.eip[2] = current'
  <2> SUFFICES ASSUME NEW i \in 1..1, ContextAt(i)'.eip[1] = "switch"
               PROVE  ContextAt(i)'.eip[2] = current'
    BY <1>2
  <2>1. i = 1
    OBVIOUS
  <2> QED BY <1>2, <1>3, <2>1
<1> QED BY <1>4 DEF SwitchesOK, Switching

(* An interrupt comes, or the stub of one returns.                         *)
LEMMA SwitchesNest ==
  ASSUME Nested, SwitchesOK, current' = current
  PROVE  /\ \A s : saved' = Append(saved, s) /\ s.eip = eip /\ eip'[1] # "switch" => SwitchesOK'
         /\ saved # <<>> /\ saved' = Front(saved) /\ eip[1] # "switch" /\ eip' = Last(saved).eip
              => SwitchesOK'
PROOF
<1> PICK m \in Nat : m = Len(saved)
  BY TheContexts
<1>1. /\ Depth = m + 1 /\ (\A i \in 1..m : ContextAt(i) = saved[i]) /\ ContextAt(m + 1).eip = eip
      /\ Last(saved) = saved[m] /\ (saved # <<>> => m >= 1)
  BY TheContexts DEF Cpu
<1>2. IsSeq(saved)
  BY DEF Nested
<1>3. \A i \in 1..(m + 1) : ContextAt(i).eip[1] = "switch" =>
        ContextAt(i).eip[2] = current \/ \E j \in (i + 1)..(m + 1) : ContextAt(j).eip[1] = "switch"
  BY <1>1 DEF SwitchesOK, Switching
<1>4. Cpu'.eip = eip'
  BY DEF Cpu
<1>5. ASSUME NEW s, saved' = Append(saved, s), s.eip = eip, eip'[1] # "switch"
      PROVE  SwitchesOK'
  <2>1. /\ Len(saved)' = m + 1
        /\ \A i \in 1..m : saved'[i] = saved[i]
        /\ saved'[m + 1] = s
    BY <1>2, <1>5, Pushed
  <2>2. /\ Depth' = m + 2
        /\ \A i \in 1..(m + 1) : ContextAt(i)'.eip = ContextAt(i).eip
        /\ ContextAt(m + 2)'.eip = eip'
    <3>1. Depth' = m + 2 /\ (\A i \in 1..(m + 1) : ContextAt(i)' = saved'[i]) /\ ContextAt(m + 2)' = Cpu'
      BY <2>1 DEF Depth, ContextAt
    <3>2. ASSUME NEW i \in 1..(m + 1) PROVE saved'[i].eip = ContextAt(i).eip
      <4>1. i \in 1..m \/ i = m + 1
        OBVIOUS
      <4> QED BY <1>1, <1>5, <2>1, <4>1
    <3> QED BY <1>4, <3>1, <3>2
  <2>3. ASSUME NEW i \in 1..(m + 2), ContextAt(i)'.eip[1] = "switch"
        PROVE  \/ ContextAt(i)'.eip[2] = current'
               \/ \E j \in (i + 1)..(m + 2) : ContextAt(j)'.eip[1] = "switch"
    <3>1. i \in 1..(m + 1)
      <4>1. i # m + 2
        BY <1>5, <2>2, <2>3
      <4> QED BY <4>1
    <3>2. ContextAt(i).eip[2] = current \/ \E j \in (i + 1)..(m + 1) : ContextAt(j).eip[1] = "switch"
      BY <1>3, <2>2, <2>3, <3>1
    <3>3. \A j \in (i + 1)..(m + 1) : j \in 1..(m + 1) /\ j \in (i + 1)..(m + 2)
      OBVIOUS
    <3> QED BY <2>2, <3>1, <3>2, <3>3
  <2> QED BY <2>2, <2>3 DEF SwitchesOK, Switching
<1>6. ASSUME saved # <<>>, saved' = Front(saved), eip[1] # "switch", eip' = Last(saved).eip
      PROVE  SwitchesOK'
  <2>1. /\ Len(saved)' = m - 1 /\ m >= 1
        /\ \A i \in 1..(m - 1) : saved'[i] = saved[i]
    BY <1>1, <1>2, <1>6, Popped
  <2>2. /\ Depth' = m
        /\ \A i \in 1..m : ContextAt(i)'.eip = ContextAt(i).eip
    <3>1. Depth' = m /\ (\A i \in 1..(m - 1) : ContextAt(i)' = saved[i]) /\ ContextAt(m)' = Cpu'
      BY <2>1 DEF Depth, ContextAt
    <3> SUFFICES ASSUME NEW i \in 1..m PROVE ContextAt(i)'.eip = ContextAt(i).eip
      BY <3>1
    <3>2. i \in 1..(m - 1) \/ i = m
      OBVIOUS
    <3> QED BY <1>1, <1>4, <1>6, <3>1, <3>2
  <2>3. ASSUME NEW i \in 1..m, ContextAt(i)'.eip[1] = "switch"
        PROVE  \/ ContextAt(i)'.eip[2] = current'
               \/ \E j \in (i + 1)..m : ContextAt(j)'.eip[1] = "switch"
    <3>1. ContextAt(i).eip[2] = current \/ \E j \in (i + 1)..(m + 1) : ContextAt(j).eip[1] = "switch"
      BY <1>3, <2>2, <2>3
    <3>2. ContextAt(m + 1).eip[1] # "switch"
      BY <1>1, <1>6
    <3>3. \A j \in (i + 1)..(m + 1) : j = m + 1 \/ (j \in (i + 1)..m /\ j \in 1..m)
      OBVIOUS
    <3> QED BY <2>2, <3>1, <3>2, <3>3
  <2> QED BY <2>2, <2>3 DEF SwitchesOK, Switching
<1> QED BY <1>5, <1>6

-----------------------------------------------------------------------------
(***************************************************************************)
(* Every step.                                                             *)
(***************************************************************************)

(* The iret of a stub takes the interrupt off.                             *)
LEMMA StubIret ==
  ASSUME Nested, Execute, eip[1] = "stub", saved' = saved
  PROVE  Op # "iret"
PROOF
<1> SUFFICES ASSUME Op = "iret" PROVE FALSE
  OBVIOUS
<1>1. saved' = Front(saved)
  <2>1. Iret
    BY Effects
  <2> QED BY <2>1 DEF Iret
<1>2. IsSeq(saved) /\ Len(saved) >= 1
  BY InStub, TheContexts DEF Nested
<1>3. Len(Front(saved)) = Len(saved) - 1 /\ Len(saved) \in Nat
  BY <1>2, Popped, SeqLen
<1>4. Front(saved) = saved
  BY <1>1
<1> QED BY <1>3, <1>4

(* The CPU executes an instruction of a stub or of switch_to_process.      *)
LEMMA ExecuteStep ==
  ASSUME Nested, SwitchesOK, Execute
  PROVE  /\ Nested' /\ SwitchesOK'
         /\ Op = "iret" =>
              IF eip[1] = "switch"
              THEN eip' = User(current) /\ reg' = Context(current) /\ kstack' = <<>>
              ELSE LET s == Last(saved)
                   IN  eip' = s.eip /\ reg' = s.reg /\ kstack' = s.kstack
PROOF
<1>1. current \in Nat
  BY TopIs
<1>2. Cpu'.eip = eip' /\ Cpu'.kstack = kstack' /\ Cpu'.reg = reg'
  BY DEF Cpu
<1>3. CASE eip[1] = "stub"
  <2>1. saved # <<>>
    BY <1>3, InStub
  <2>2. CASE /\ saved' = saved /\ current' = current
             /\ ContextTyped(Cpu') /\ Handles(Last(saved), Cpu', current') /\ eip'[1] # "switch"
    <3>1. Nested'
      BY <1>1, <2>1, <2>2, TopStep
    <3>2. SwitchesOK'
      BY <1>3, <2>2, SwitchesStay
    <3>3. Op # "iret"
      BY <1>3, <2>2, StubIret
    <3> QED BY <3>1, <3>2, <3>3
  <2>3. CASE /\ saved' = Front(saved) /\ current' = current
             /\ eip' = Last(saved).eip /\ reg' = Last(saved).reg /\ kstack' = Last(saved).kstack
    <3>1. Same(Last(saved), Cpu')
      BY <1>2, <2>3 DEF Same
    <3>2. Nested'
      BY <2>1, <2>3, <3>1, BackStep
    <3>3. SwitchesOK'
      BY <1>3, <2>1, <2>3, SwitchesNest
    <3> QED BY <1>3, <2>3, <3>2, <3>3
  <2> QED BY <1>3, <2>2, <2>3, StubStep
<1>4. CASE eip[1] = "switch"
  <2>1. /\ Nested' /\ current' = current
        /\ saved' = saved \/ saved' = <<>>
        /\ \/ eip'[1] = "switch" /\ eip'[2] = eip[2] /\ Op # "iret"
           \/ /\ Op = "iret" /\ saved = <<>> /\ saved' = <<>>
              /\ eip' = User(eip[2]) /\ reg' = Context(eip[2]) /\ kstack' = <<>>
    BY <1>4, SwitchStep
  <2>2. eip[2] = current
    <3>1. Depth \in Nat /\ Depth \in 1..Depth /\ ContextAt(Depth).eip = eip
      BY TheContexts DEF Cpu
    <3>2. \A j \in (Depth + 1)..Depth : FALSE
      BY <3>1
    <3> QED BY <1>4, <3>1, <3>2 DEF SwitchesOK, Switching
  <2>3. CASE eip'[1] = "switch" /\ eip'[2] = eip[2] /\ Op # "iret"
    <3>1. SwitchesOK'
      BY <1>4, <2>1, <2>2, <2>3, SwitchesStay, SwitchesFresh
    <3> QED BY <2>1, <2>3, <3>1
  <2>4. CASE /\ Op = "iret" /\ saved = <<>> /\ saved' = <<>>
             /\ eip' = User(eip[2]) /\ reg' = Context(eip[2]) /\ kstack' = <<>>
    <3>1. eip'[1] # "switch"
      BY <2>4 DEF User
    <3>2. SwitchesOK'
      BY <2>4, <3>1, SwitchesFresh
    <3> QED BY <1>4, <2>1, <2>2, <2>4, <3>2
  <2> QED BY <2>1, <2>3, <2>4
<1>5. eip[1] = "stub" \/ eip[1] = "switch"
  BY Effects, FetchOther
<1> QED BY <1>3, <1>4, <1>5

(* A handler takes a step: it returns, schedules another process or halts. *)
LEMMA HandleStep ==
  ASSUME Nested, SwitchesOK, Handle
  PROVE  Nested' /\ SwitchesOK' /\ Op = "other"
PROOF
<1> PICK v : v = eip[2]
  OBVIOUS
<1>1. Begin(v) \/ Switch(v) \/ Acknowledge(v) \/ Return(v) \/ Halt(v)
  BY DEF Handle
<1>2. Op = "other"
  <2>1. (\E n : At(v, n)) \/ eip = Kmain
    BY <1>1 DEF Begin, Switch, Acknowledge, Return, Halt
  <2>2. eip[1] \notin {"stub", "switch"}
    BY <2>1 DEF At, HandlerAt, Kmain
  <2> QED BY <2>2, FetchOther
<1>3. CASE Switch(v)
  <2>1. Nested' /\ saved' = saved /\ eip'[1] = "switch" /\ eip'[2] = current'
    BY <1>3, SwitchesTo
  <2>2. SwitchesOK'
    BY <2>1, SwitchesStay
  <2> QED BY <1>2, <2>1, <2>2
<1>4. CASE Begin(v) \/ Acknowledge(v) \/ Return(v) \/ Halt(v)
  <2>1. Nested' /\ saved' = saved /\ current' = current /\ eip[1] # "switch" /\ eip'[1] # "switch"
    BY <1>4, BeginStep, AcknowledgeStep, ReturnStep, HaltStep
  <2>2. SwitchesOK'
    BY <2>1, SwitchesStay
  <2> QED BY <1>2, <2>1, <2>2
<1> QED BY <1>1, <1>3, <1>4

(* The context the CPU would save for the vector v.                        *)
Interrupted(v) == [vector |-> v, eip |-> eip, reg |-> reg, kstack |-> kstack]

(* An interrupt, an int instruction or an exception.                       *)
LEMMA EntersStep ==
  ASSUME Nested, SwitchesOK, NEW v, Enter(v), CauseOK(Interrupted(v))
  PROVE  Nested' /\ SwitchesOK' /\ Len(saved)' = Len(saved) + 1
PROOF
<1> PICK s : s = Interrupted(v)
  OBVIOUS
<1>1. s.vector = v /\ s.eip = eip /\ CauseOK(s)
  BY DEF Interrupted
<1>2. v \in Vectors
  BY <1>1 DEF CauseOK
<1>3. saved' = Append(saved, s) /\ eip' = StubAt(v, 1) /\ current' = current
  BY DEF Enter, Interrupted
<1>4. Nested'
  BY <1>2, <1>3, EnterStep DEF Interrupted
<1>5. eip'[1] # "switch"
  BY <1>3 DEF StubAt
<1>6. SwitchesOK'
  BY <1>1, <1>3, <1>5, SwitchesNest
<1>7. Len(saved)' = Len(saved) + 1
  BY <1>3, Pushed DEF Nested
<1> QED BY <1>4, <1>6, <1>7

(* No fault of page_fault_handler while it handles one of its own.         *)
NotAgain(v) == v = 14 /\ eip = HandlerAt(14, 2) => ~OfHandler

(* Why the CPU enters the kernel.                                          *)
LEMMA EnteredFor ==
  ASSUME SetupOK, PicTypeOK
  PROVE  /\ Interrupt => \E q \in Lines : /\ Deliverable(q)
                                          /\ Enter(32 + q) /\ CauseOK(Interrupted(32 + q))
                                          /\ NotAgain(32 + q)
                                          /\ irr' = irr \ {q} /\ isr' = isr \union {q}
         /\ \A n \in 0..255 : Ready /\ IntInstruction(n) =>
              \E v \in {13, SYSCALL_INT_IDX} :
                 Enter(v) /\ CauseOK(Interrupted(v)) /\ NotAgain(v)
         /\ Fault => \E v \in Exceptions :
                       Enter(v) /\ CauseOK(Interrupted(v)) /\ NotAgain(v)
PROOF
<1>1. \A v : Interrupted(v).vector = v /\ Interrupted(v).eip = eip
  BY DEF Interrupted
<1>2. ASSUME Interrupt
      PROVE  \E q \in Lines : /\ Deliverable(q)
                              /\ Enter(32 + q) /\ CauseOK(Interrupted(32 + q))
                              /\ NotAgain(32 + q)
                              /\ irr' = irr \ {q} /\ isr' = isr \union {q}
  <2>1. Ready
    BY <1>2 DEF Interrupt, InterruptsEnabled
  <2>2. HardwareVectors = {32 + q : q \in {l \in Lines : Deliverable(l)}} /\ pic1.base = 32
    BY <2>1, TheirVectors
  <2> PICK v \in HardwareVectors :
             /\ Enter(v)
             /\ irr' = irr \ {v - pic1.base} /\ isr' = isr \union {v - pic1.base}
    BY <1>2 DEF Interrupt
  <2> PICK q \in {l \in Lines : Deliverable(l)} : v = 32 + q
    BY <2>2
  <2>3. q \in {0, 1} /\ v - pic1.base = q
    BY <2>2 DEF Lines, Timer, Keyboard
  <2>4. CauseOK(Interrupted(32 + q))
    <3>1. 32 + q \in {32, 33}
      BY <2>3
    <3> QED BY <1>1, <3>1 DEF CauseOK, Vectors, PIT_INT_IDX
  <2>5. NotAgain(32 + q)
    BY <2>3 DEF NotAgain
  <2> QED BY <2>3, <2>4, <2>5
<1>3. ASSUME NEW n \in 0..255, Ready, IntInstruction(n)
      PROVE  \E v \in {13, SYSCALL_INT_IDX} :
                Enter(v) /\ CauseOK(Interrupted(v)) /\ NotAgain(v)
  <2>1. idt = idt_init
    BY <1>3, TheirVectors
  <2>2. n \in DOMAIN idt /\ idt[n].level = 3 => n = SYSCALL_INT_IDX
    BY <2>1 DEF idt_init, create_idt_gate
  <2> PICK v \in {13, SYSCALL_INT_IDX} : Enter(v) /\ eip[1] = "user"
    BY <1>3, <2>2 DEF IntInstruction, UserMode
  <2>3. CauseOK(Interrupted(v))
    BY <1>1 DEF CauseOK, Vectors, Exceptions, SYSCALL_INT_IDX
  <2>4. NotAgain(v)
    BY DEF NotAgain, HandlerAt
  <2> QED BY <2>3, <2>4
<1>4. ASSUME Fault
      PROVE  \E v \in Exceptions : Enter(v) /\ CauseOK(Interrupted(v)) /\ NotAgain(v)
  <2>1. CASE eip[1] = "user" /\ \E v \in Faults : Enter(v)
    <3> PICK v \in Exceptions : Enter(v)
      BY <2>1, InterruptsAssumption DEF Exceptions
    <3>1. CauseOK(Interrupted(v))
      BY <1>1, <2>1 DEF CauseOK, Vectors
    <3>2. NotAgain(v)
      BY <2>1 DEF NotAgain, HandlerAt
    <3> QED BY <3>1, <3>2
  <2>2. CASE /\ eip = HandlerAt(SYSCALL_INT_IDX, 2) \/ (eip = HandlerAt(14, 2) /\ ~OfHandler)
             /\ Enter(14)
    <3>1. 14 \in Exceptions
      BY DEF Exceptions
    <3>2. CauseOK(Interrupted(14))
      BY <1>1, <2>2, <3>1 DEF CauseOK, Vectors
    <3>3. NotAgain(14)
      BY <2>2 DEF NotAgain, HandlerAt, SYSCALL_INT_IDX
    <3> QED BY <2>2, <3>1, <3>2, <3>3
  <2> QED BY <1>4, <2>1, <2>2 DEF Fault, UserMode
<1> QED BY <1>2, <1>3, <1>4

(* Outside of the instructions the CPU stays as it is.                     *)
LEMMA CpuStays ==
  ASSUME UNCHANGED <<eip, reg, kstack, current, saved>>
  PROVE  (Nested => Nested') /\ (SwitchesOK => SwitchesOK')
PROOF
<1>1. Depth' = Depth /\ \A i : ContextAt(i)' = ContextAt(i)
  BY DEF Depth, ContextAt, Cpu
<1> QED BY <1>1 DEF Nested, SwitchesOK, Switching

(* The lines stay the two that are modelled.                               *)
LEMMA LinesStay ==
  ASSUME SetupOK, PicTypeOK, [Next]_vars
  PROVE  PicTypeOK'
PROOF
<1>1. CASE Write
  BY <1>1 DEF Write, PicTypeOK
<1>2. CASE Interrupt
  BY <1>2, EnteredFor DEF PicTypeOK
<1>3. CASE Instructions
  <2>1. irr' = irr /\ (isr' = isr \/ isr' = Acknowledged(isr))
    BY <1>3 DEF Instructions, Execute, IntInstruction, Fault, Handle, Begin, Switch, Acknowledge,
                Return, Halt
  <2> QED BY <2>1 DEF PicTypeOK, Acknowledged
<1>4. ASSUME NEW q \in Lines, RaiseLine(q)
      PROVE  PicTypeOK'
  BY <1>4 DEF RaiseLine, Raise, PicTypeOK
<1>5. CASE UNCHANGED vars
  BY <1>5 DEF vars, PicTypeOK
<1> QED BY <1>1, <1>2, <1>3, <1>4, <1>5 DEF Next

(* Every step keeps the contexts apart; an iret goes back to the one       *)
(* before, or to the process switch_to_process has prepared.               *)
LEMMA EntryKeeps ==
  ASSUME EntryIInv, [Next]_vars
  PROVE  /\ EntryIInv'
         /\ Op = "iret" /\ eip' # eip /\ Len(saved') <= Len(saved) =>
              IF eip[1] = "switch"
              THEN eip' = User(current) /\ reg' = Context(current) /\ kstack' = <<>>
              ELSE LET s == Last(saved)
                   IN  eip' = s.eip /\ reg' = s.reg /\ kstack' = s.kstack
PROOF
<1>1. SetupOK /\ PicTypeOK /\ Nested /\ SwitchesOK
  BY DEF EntryIInv
<1>2. SetupOK'
  BY <1>1, ChipsStay, SetupKeeps, SetupStays DEF vars
<1>3. PicTypeOK'
  BY <1>1, LinesStay
<1>4. Len(saved) \in Nat
  BY <1>1, TheContexts
<1>5. ASSUME NEW v, Enter(v), CauseOK(Interrupted(v))
      PROVE  Nested' /\ SwitchesOK' /\ ~(Len(saved') <= Len(saved))
  <2>1. Nested' /\ SwitchesOK' /\ Len(saved)' = Len(saved) + 1
    BY <1>1, <1>5, EntersStep
  <2> QED BY <1>4, <2>1
<1>6. CASE UNCHANGED <<eip, reg, kstack, current, saved>>
  BY <1>1, <1>2, <1>3, <1>6, CpuStays DEF EntryIInv
<1>7. CASE Interrupt
  <2>1. Nested' /\ SwitchesOK' /\ ~(Len(saved') <= Len(saved))
    BY <1>1, <1>5, <1>7, EnteredFor
  <2> QED BY <1>2, <1>3, <2>1 DEF EntryIInv
<1>8. CASE Instructions
  <2>1. Ready
    BY <1>8 DEF Instructions
  <2>2. CASE Execute
    BY <1>1, <1>2, <1>3, <2>2, ExecuteStep DEF EntryIInv
  <2>3. CASE (\E n \in 0..255 : IntInstruction(n)) \/ Fault
    <3>1. Nested' /\ SwitchesOK' /\ ~(Len(saved') <= Len(saved))
      BY <1>1, <1>5, <2>1, <2>3, EnteredFor
    <3> QED BY <1>2, <1>3, <3>1 DEF EntryIInv
  <2>4. CASE Handle
    BY <1>1, <1>2, <1>3, <2>4, HandleStep DEF EntryIInv
  <2> QED BY <1>8, <2>2, <2>3, <2>4 DEF Instructions
<1>9. Write \/ (\E q \in Lines : RaiseLine(q)) \/ UNCHANGED vars
        => UNCHANGED <<eip, reg, kstack, current, saved>>
  BY DEF Write, RaiseLine, vars, cpu
<1> QED BY <1>6, <1>7, <1>8, <1>9 DEF Next

(* However the kernel is entered, left and entered again, the contexts it  *)
(* interrupted are nested, each with what its stub pushed for it.          *)
THEOREM EntryInvariance == Spec => []EntryIInv
PROOF
<1>1. Init => EntryIInv
  <2> SUFFICES ASSUME Init PROVE EntryIInv
    OBVIOUS
  <2>1. SetupOK
    <3>1. setup = 0 /\ Expected = 0
      BY DEF Init, Expected
    <3>2. pic1 \in Chip /\ pic1.expects = 0 /\ pic2 \in Chip /\ pic2.expects = 0
      BY DEF Init, Chip
    <3>3. pit \in Channel
      BY DEF Init, Channel
    <3> QED BY <3>1, <3>2, <3>3 DEF SetupOK
  <2>2. PicTypeOK
    BY DEF Init, PicInit, PicTypeOK
  <2>3. /\ eip = Kmain /\ reg = Context(0) /\ kstack = <<>> /\ current = 0 /\ saved = <<>>
    BY DEF Init
  <2>4. Cpu.eip = eip /\ Cpu.kstack = kstack /\ Cpu.reg = reg
    BY DEF Cpu
  <2>5. IsSeq(saved) /\ IsSeq(kstack) /\ Len(saved) = 0
    BY <2>3, ShortSeqs
  <2>6. Depth = 1 /\ ContextAt(1) = Cpu /\ \A i \in 1..1 : i = 1
    BY <2>5 DEF Depth, ContextAt
  <2>7. ContextTyped(Cpu)
    BY <2>3, <2>4, <2>5 DEF ContextTyped, Context, RegNames
  <2>8. First(Cpu, current)
    BY <2>3, <2>4 DEF First
  <2>9. \A i \in 1..Len(saved) : FALSE
    BY <2>5
  <2>10. Nested
    BY <2>3, <2>5, <2>6, <2>7, <2>8, <2>9 DEF Nested
  <2>11. ~(eip[1] = "switch")
    BY <2>3 DEF Kmain
  <2>12. SwitchesOK
    BY <2>4, <2>6, <2>11 DEF SwitchesOK, Switching
  <2> QED BY <2>1, <2>2, <2>10, <2>12 DEF EntryIInv
<1>2. EntryIInv /\ [Next]_vars => EntryIInv'
  BY EntryKeeps
<1> QED BY <1>1, <1>2, PTL DEF Spec

(* An iret gives back what was interrupted, whatever came in between.      *)
THEOREM InterruptedGoesOn == Spec => ContextRestored
PROOF
<1>1. EntryIInv /\ [Next]_vars =>
        [Op = "iret" /\ eip' # eip /\ Len(saved') <= Len(saved) =>
           IF eip[1] = "switch"
           THEN eip' = User(current) /\ reg' = Context(current) /\ kstack' = <<>>
           ELSE LET s == Last(saved)
                IN  eip' = s.eip /\ reg' = s.reg /\ kstack' = s.kstack]_vars
  BY EntryKeeps
<1> QED BY <1>1, EntryInvariance, PTL DEF Spec, ContextRestored

(* interrupt_handler finds the vector, the error code and the registers    *)
(* where its parameters are.                                               *)
THEOREM ArgumentsInPlace == Spec => []HandlerArguments
PROOF
<1>1. EntryIInv => HandlerArguments
  <2> SUFFICES ASSUME Nested, eip[1] = "handler", eip[3] = 1
               PROVE  LET arg(k) == kstack[Len(kstack) - k]
                          s      == Last(saved)
                          error  == IF s.vector \in PushesErrorCode THEN ErrorCode(s.vector)
                                                                    ELSE Num(0)
                      IN  /\ \A i \in 1..N : arg(i) = s.reg[cpu_state[i]]
                          /\ arg(N + 1) = Num(Len(kstack) - N - 4)
                          /\ arg(N + 2) = Num(s.vector)
                          /\ arg(N + 3) = error
                          /\ arg(N + 4) = s.eip
                          /\ s.eip[1] = "user" => arg(N + 7) = s.reg["esp"]
    BY DEF EntryIInv, HandlerArguments
  <2> PICK s : s = Last(saved)
    OBVIOUS
  <2>1. \E v : eip = HandlerAt(v, 1)
    <3>1. First(Cpu, current) \/ Handles(s, Cpu, current)
      BY TopIs
    <3>2. Cpu.eip = eip
      BY DEF Cpu
    <3>3. \A v, k : eip # StubAt(v, k) /\ eip # SwitchAt(v, k) /\ eip # Hlt(v) /\ eip # User(v)
      BY DEF StubAt, SwitchAt, Hlt, User
    <3>4. eip # Kmain
      BY DEF Kmain
    <3>5. ~First(Cpu, current)
      BY <3>2, <3>3, <3>4 DEF First
    <3>6. \A n : ~StubOK(s, Cpu, n)
      BY <3>2, <3>3 DEF StubOK
    <3>7. \E n : HandlerOK(s, Cpu, n)
      BY <3>1, <3>2, <3>3, <3>5, <3>6 DEF Handles
    <3>8. \E n : eip = HandlerAt(s.vector, n)
      BY <3>2, <3>7 DEF HandlerOK
    <3> QED BY <3>8 DEF HandlerAt
  <2> PICK v : eip = HandlerAt(v, 1)
    BY <2>1
  <2>2. /\ EntryOK(s, kstack) /\ HandlerOK(s, Cpu, 1) /\ ContextTyped(s)
    BY InHandler
  <2>3. IsSeq(s.kstack)
    BY <2>2 DEF ContextTyped
  <2>4. Base(s) \in Nat /\ Base(s) >= 3 /\ N \in Nat /\ (s.eip[1] = "user" => Base(s) = 5)
    BY <2>3, BaseIs, InterruptsAssumption
  <2> PICK b \in Nat : b = Base(s)
    BY <2>4
  <2>5. FrameOK(s, kstack, N + 4) /\ kstack[b + 3] = Num(b)
    BY <2>2 DEF HandlerOK, Cpu
  <2>6. /\ Len(kstack) = b + (N + 4) /\ kstack[b + 1] = Error(s.vector) /\ kstack[b + 2] = Num(s.vector)
        /\ \A j \in 1..N : kstack[b + 3 + j] = s.reg[cpu_state[N + 1 - j]]
    <3> PICK h \in Nat : h = N + 4
      BY <2>4
    <3>1. h >= 1 /\ h >= 2 /\ \A j \in 1..N : j <= h - 3
      BY <2>4
    <3>2. FrameOK(s, kstack, h) /\ b = Base(s)
      BY <2>5
    <3>3. Len(kstack) = b + h /\ kstack[b + 1] = Error(s.vector) /\ kstack[b + 2] = Num(s.vector)
      BY <3>1, <3>2 DEF FrameOK
    <3>4. \A j \in 1..N : kstack[b + 3 + j] = s.reg[cpu_state[N + 1 - j]]
      BY <3>1, <3>2 DEF FrameOK
    <3> QED BY <3>3, <3>4
  <2>7. /\ Len(kstack) - (N + 1) = b + 3 /\ Len(kstack) - (N + 2) = b + 2
        /\ Len(kstack) - (N + 3) = b + 1 /\ Len(kstack) - (N + 4) = b
        /\ Len(kstack) - (N + 7) = b - 3 /\ Len(kstack) - N - 4 = b
    <3> PICK l \in Nat : l = Len(kstack) /\ l = b + (N + 4)
      BY <2>4, <2>6
    <3>1. /\ l - (N + 1) = b + 3 /\ l - (N + 2) = b + 2 /\ l - (N + 3) = b + 1
          /\ l - (N + 4) = b /\ l - (N + 7) = b - 3 /\ l - N - 4 = b
      BY <2>4
    <3> QED BY <3>1
  <2>8. \A i \in 1..N : kstack[Len(kstack) - i] = s.reg[cpu_state[i]]
    <3> TAKE i \in 1..N
    <3> PICK j \in 1..N : j = N + 1 - i
      BY <2>4
    <3>1. Len(kstack) - i = b + 3 + j /\ N + 1 - j = i
      BY <2>4, <2>6
    <3> QED BY <2>6, <3>1
  <2>9. s.eip[1] = "user" => kstack[b - 3] = s.reg["esp"]
    <3> SUFFICES ASSUME s.eip[1] = "user" PROVE kstack[b - 3] = s.reg["esp"]
      OBVIOUS
    <3>1. b - 3 = 2
      BY <2>4
    <3> QED BY <2>2, <3>1 DEF EntryOK
  <2>10. kstack[b] = s.eip
    BY <2>2 DEF EntryOK
  <2>11. Error(s.vector) = IF s.vector \in PushesErrorCode THEN ErrorCode(s.vector) ELSE Num(0)
    BY DEF Error
  <2> HIDE DEF Error
  <2> QED BY <2>5, <2>6, <2>7, <2>8, <2>9, <2>10, <2>11
<1> QED BY <1>1, EntryInvariance, PTL

-----------------------------------------------------------------------------
(***************************************************************************)
(* How deep interrupts nest.                                               *)
(***************************************************************************)

(* The ticks being handled are some of the interrupts that are.            *)
LEMMA TicksAre ==
  ASSUME NEW q, IsSeq(q)
  PROVE  /\ Ticks(q) \in SUBSET (1..Len(q)) /\ IsFiniteSet(Ticks(q)) /\ Cardinality(Ticks(q)) \in Nat
         /\ \A i \in 1..Len(q) : i \in Ticks(q) <=> q[i].vector = PIT_INT_IDX
PROOF
<1>1. Len(q) \in Nat /\ DOMAIN q = 1..Len(q)
  BY SeqLen
<1>2. Ticks(q) \in SUBSET (1..Len(q)) /\ \A i \in 1..Len(q) : i \in Ticks(q) <=> q[i].vector = PIT_INT_IDX
  BY <1>1 DEF Ticks
<1>3. IsFiniteSet(1..Len(q))
  BY <1>1, FS_Interval
<1>4. IsFiniteSet(Ticks(q))
  BY <1>2, <1>3, FS_Subset
<1>5. Cardinality(Ticks(q)) \in Nat
  BY <1>4, FS_CardinalityType
<1> QED BY <1>2, <1>4, <1>5

(* No interrupt comes and none is acknowledged; some may have been handled *)
(* or given up.                                                            *)
LEMMA LinesFewer ==
  ASSUME LinesOK, IsSeq(saved), IsSeq(saved)', Len(saved)' <= Len(saved),
         \A i \in 1..Len(saved)' : saved'[i] = saved[i] /\ (Unserved(i)' => Unserved(i)),
         isr' = isr, Timer \in irr' => Timer \in irr, late' \in Nat,
         Ticks(saved') # {} => late' = late
  PROVE  LinesOK'
PROOF
<1> PICK m \in Nat, n \in Nat : m = Len(saved) /\ n = Len(saved)' /\ n <= m
  BY SeqLen
<1> PICK kept : kept = saved'
  OBVIOUS
<1>1. Len(kept) = n /\ IsSeq(kept) /\ \A i \in 1..n : i \in 1..m /\ kept[i] = saved[i]
  OBVIOUS
<1>2. \A i \in 1..n : Unserved(i)' => Unserved(i)
  OBVIOUS
<1>3. Keys' \subseteq Keys
  BY <1>1 DEF Keys
<1>4. Ticks(kept) \subseteq Ticks(saved)
  BY <1>1, TicksAre
<1>5. /\ IsFiniteSet(Ticks(saved)) /\ Cardinality(Ticks(kept)) \in Nat
      /\ Cardinality(Ticks(saved)) \in Nat
  BY <1>1, TicksAre
<1>6. Cardinality(Ticks(kept)) <= Cardinality(Ticks(saved))
  BY <1>4, <1>5, FS_Subset
<1>7. ASSUME Ticks(kept) # {}
      PROVE  Cardinality(Ticks(kept)) + Pending' <= 1 + late'
  <2>1. late' = late /\ late \in Nat /\ Cardinality(Ticks(saved)) + Pending <= 1 + late
    BY <1>4, <1>7 DEF LinesOK
  <2>2. Pending \in {0, 1} /\ Pending' \in {0, 1} /\ (Pending' = 1 => Pending = 1)
    BY DEF Pending
  <2> QED BY <1>5, <1>6, <2>1, <2>2
<1>8. /\ \A i \in 1..n : Unserved(i)' => Timer \in isr'
      /\ \A i, j \in 1..n : Unserved(i)' /\ Unserved(j)' => i = j
  BY <1>1, <1>2 DEF LinesOK
<1>9. (Keys' # {} => Keyboard \in isr') /\ \A i, j \in Keys' : i = j
  BY <1>3 DEF LinesOK
<1> QED BY <1>1, <1>7, <1>8, <1>9 DEF LinesOK

(* A device raises its line.                                               *)
LEMMA LinesRaised ==
  ASSUME LinesOK, Nested, NEW q \in Lines, RaiseLine(q)
  PROVE  LinesOK'
PROOF
<1>1. /\ saved' = saved /\ eip' = eip /\ reg' = reg /\ kstack' = kstack /\ isr' = isr
      /\ irr' = irr \union {q}
  BY DEF RaiseLine, Raise
<1>2. Keys' = Keys /\ \A i : Unserved(i)' = Unserved(i)
  BY <1>1 DEF Keys, Unserved, ContextAt, Cpu
<1>3. late \in Nat
  BY DEF LinesOK
<1>4. CASE q = Timer /\ Ticks(saved) # {}
  <2>1. late' = late + 1 /\ Timer \notin irr
    BY <1>4 DEF RaiseLine, Raise
  <2>2. Pending = 0 /\ Pending' \in {0, 1}
    BY <2>1 DEF Pending
  <2>3. Cardinality(Ticks(saved)) \in Nat
    BY TicksAre DEF Nested
  <2>4. Cardinality(Ticks(saved)) + Pending <= 1 + late
    BY <1>4 DEF LinesOK
  <2>5. Cardinality(Ticks(saved)) + Pending' <= 1 + late' /\ late' \in Nat
    BY <1>3, <2>1, <2>2, <2>3, <2>4
  <2>6. Cardinality(Ticks(saved)') + Pending' <= 1 + late'
    BY <1>1, <2>5
  <2> QED BY <1>1, <1>2, <2>5, <2>6 DEF LinesOK
<1>5. CASE ~(q = Timer /\ Ticks(saved) # {})
  <2>1. late' = late
    BY <1>5 DEF RaiseLine
  <2>2. Ticks(saved) # {} => Pending' = Pending
    BY <1>1, <1>5 DEF Pending
  <2>3. Ticks(saved) # {} => Cardinality(Ticks(saved)) + Pending' <= 1 + late'
    BY <2>1, <2>2 DEF LinesOK
  <2>4. Ticks(saved)' # {} => Cardinality(Ticks(saved)') + Pending' <= 1 + late'
    BY <1>1, <2>3
  <2> QED BY <1>1, <1>2, <1>3, <2>1, <2>4 DEF LinesOK
<1> QED BY <1>4, <1>5

(* pit_handler acknowledges its tick: no line is served before it.         *)
LEMMA LinesAcknowledged ==
  ASSUME LinesOK, Nested, NEW v, Acknowledge(v), late' = late
  PROVE  LinesOK'
PROOF
<1> PICK m \in Nat : m = Len(saved)
  BY TheContexts
<1>1. /\ eip = HandlerAt(v, 2) /\ eip' = HandlerAt(v, 3) /\ v = PIT_INT_IDX
      /\ saved' = saved /\ irr' = irr /\ isr' = Acknowledged(isr)
  BY DEF Acknowledge, At
<1>2. saved # <<>> /\ v = Last(saved).vector
  BY <1>1, InHandler
<1>3. /\ m \in 1..m /\ saved[m].vector = PIT_INT_IDX /\ \A i \in 1..m : ContextAt(i) = saved[i]
      /\ ContextAt(m + 1).eip = eip
  BY <1>1, <1>2, TheContexts DEF Cpu
<1>4. /\ \A i \in 1..m : ContextAt(i)' = saved[i]
      /\ ContextAt(m + 1)'.eip = eip'
  BY <1>1 DEF ContextAt, Cpu
<1>5. Unserved(m)
  BY <1>1, <1>3 DEF Unserved, Unacknowledged
<1>6. isr' = isr \ {Timer}
  BY <1>1, <1>3, <1>5 DEF LinesOK, Acknowledged, Highest
<1>7. ASSUME NEW i \in 1..m PROVE ~Unserved(i)'
  <2>1. CASE i = m
    BY <1>1, <1>4, <2>1 DEF Unserved, Unacknowledged, HandlerAt, StubAt
  <2>2. CASE i # m
    <3>1. ~Unserved(i)
      BY <1>3, <1>5, <2>2 DEF LinesOK
    <3>2. i + 1 \in 1..m
      BY <2>2
    <3>3. Unserved(i)' = Unserved(i)
      BY <1>1, <1>3, <1>4, <3>2 DEF Unserved
    <3> QED BY <3>1, <3>3
  <2> QED BY <2>1, <2>2
<1>8. Keys' = Keys /\ Pending' = Pending
  BY <1>1 DEF Keys, Pending
<1>9. Keyboard # Timer
  BY DEF Keyboard, Timer
<1>10. /\ (Keys' # {} => Keyboard \in isr') /\ \A i, j \in Keys' : i = j
  BY <1>6, <1>8, <1>9 DEF LinesOK
<1>11. late' \in Nat /\ (Ticks(saved)' # {} => Cardinality(Ticks(saved)') + Pending' <= 1 + late')
  BY <1>1, <1>8 DEF LinesOK
<1> QED BY <1>1, <1>7, <1>10, <1>11 DEF LinesOK

(* An interrupt: a line is accepted only while none before it is served,   *)
(* and a system call or an exception is none of a line.                    *)
LEMMA LinesEntered ==
  ASSUME LinesOK, Nested, NEW v, Enter(v), late' = late,
         \/ v \notin {32, 33} /\ irr' = irr /\ isr' = isr
         \/ \E q \in Lines : /\ v = 32 + q /\ Deliverable(q)
                             /\ irr' = irr \ {q} /\ isr' = isr \union {q}
  PROVE  LinesOK'
PROOF
<1> PICK s : s = Interrupted(v)
  OBVIOUS
<1> PICK m \in Nat : m = Len(saved)
  BY TheContexts
<1> PICK kept : kept = saved'
  OBVIOUS
<1>1. kept = Append(saved, s) /\ eip' = StubAt(v, 1) /\ s.vector = v /\ s.eip = eip /\ IsSeq(saved)
  BY DEF Enter, Interrupted, Nested
<1>2. /\ IsSeq(kept) /\ Len(kept) = m + 1 /\ kept[m + 1] = s
      /\ \A i \in 1..m : kept[i] = saved[i]
  BY <1>1, Pushed
<1>3. (\A i \in 1..m : ContextAt(i) = saved[i]) /\ ContextAt(m + 1).eip = eip
  BY TheContexts DEF Cpu
<1>4. /\ \A i \in 1..(m + 1) : ContextAt(i)' = kept[i]
      /\ ContextAt(m + 2)'.eip = eip'
  <2>1. Len(saved)' = m + 1
    BY <1>2
  <2> QED BY <2>1 DEF ContextAt, Cpu
<1>5. \A i \in 1..(m + 1) : ContextAt(i)'.eip = ContextAt(i).eip
  <2> TAKE i \in 1..(m + 1)
  <2>1. i \in 1..m \/ i = m + 1
    OBVIOUS
  <2> QED BY <1>1, <1>2, <1>3, <1>4, <2>1
<1>6. \A i \in 1..m : Unserved(i)' = Unserved(i)
  <2> TAKE i \in 1..m
  <2>1. i + 1 \in 1..(m + 1)
    OBVIOUS
  <2>2. saved'[i] = saved[i] /\ ContextAt(i + 1)'.eip = ContextAt(i + 1).eip
    BY <1>2, <1>5, <2>1
  <2> QED BY <2>2 DEF Unserved
<1>7. Unserved(m + 1)' => v = PIT_INT_IDX
  BY <1>1, <1>2 DEF Unserved
<1>8. \A i \in 1..(m + 1) : i \in 1..m \/ i = m + 1
  OBVIOUS
<1>9. \A i \in 1..(m + 1) : kept[i].vector = IF i = m + 1 THEN v ELSE saved[i].vector
  BY <1>1, <1>2, <1>8
<1>10. /\ Keys = {i \in 1..m : saved[i].vector = 33}
       /\ Keys' = {i \in 1..(m + 1) : kept[i].vector = 33}
  BY <1>2 DEF Keys
<1>11. Keys' = IF v = 33 THEN Keys \union {m + 1} ELSE Keys
  BY <1>8, <1>9, <1>10
<1>12. /\ Ticks(saved) \in SUBSET (1..m) /\ IsFiniteSet(Ticks(saved))
       /\ Cardinality(Ticks(saved)) \in Nat
       /\ \A i \in 1..m : i \in Ticks(saved) <=> saved[i].vector = PIT_INT_IDX
  BY <1>1, TicksAre
<1>13. /\ Ticks(kept) \in SUBSET (1..(m + 1))
       /\ \A i \in 1..(m + 1) : i \in Ticks(kept) <=> kept[i].vector = PIT_INT_IDX
  BY <1>2, TicksAre
<1>14. Ticks(kept) = IF v = PIT_INT_IDX THEN Ticks(saved) \union {m + 1} ELSE Ticks(saved)
  <2>1. \A i \in 1..(m + 1) : i \in Ticks(kept) <=>
          IF i = m + 1 THEN v = PIT_INT_IDX ELSE i \in Ticks(saved)
    BY <1>8, <1>9, <1>12, <1>13
  <2>2. m + 1 \notin Ticks(saved)
    BY <1>12
  <2> PICK T, U : T = Ticks(saved) /\ U = Ticks(kept)
    OBVIOUS
  <2> PICK n : n = m + 1
    OBVIOUS
  <2>3. T \in SUBSET (1..m) /\ U \in SUBSET (1..n) /\ n \in 1..n /\ \A i \in 1..m : i \in 1..n /\ i # n
    BY <1>12, <1>13
  <2>4. \A i \in 1..n : i \in U <=> IF i = n THEN v = PIT_INT_IDX ELSE i \in T
    BY <2>1
  <2>5. v = PIT_INT_IDX => U = T \union {n}
    BY <2>3, <2>4
  <2>6. v # PIT_INT_IDX => U = T
    BY <2>3, <2>4
  <2> QED BY <2>5, <2>6
<1>15. late \in Nat
  BY DEF LinesOK
<1>16. CASE v \notin {32, 33} /\ irr' = irr /\ isr' = isr
  <2>1. Keys' = Keys /\ Ticks(kept) = Ticks(saved) /\ Pending' = Pending /\ v # PIT_INT_IDX
    BY <1>11, <1>14, <1>16 DEF PIT_INT_IDX, Pending
  <2>2. ~Unserved(m + 1)'
    BY <1>7, <2>1
  <2>3. /\ \A i \in 1..(m + 1) : Unserved(i)' => Timer \in isr'
        /\ \A i, j \in 1..(m + 1) : Unserved(i)' /\ Unserved(j)' => i = j
    BY <1>6, <1>8, <1>16, <2>2 DEF LinesOK
  <2>4. Ticks(kept) # {} => Cardinality(Ticks(kept)) + Pending' <= 1 + late'
    BY <2>1 DEF LinesOK
  <2>5. (Keys' # {} => Keyboard \in isr') /\ \A i, j \in Keys' : i = j
    BY <1>16, <2>1 DEF LinesOK
  <2> QED BY <1>2, <1>15, <2>3, <2>4, <2>5 DEF LinesOK
<1>17. CASE v = 32 /\ Deliverable(Timer) /\ irr' = irr \ {Timer} /\ isr' = isr \union {Timer}
  <2>1. Timer \notin isr /\ Timer \in irr
    BY <1>17 DEF Deliverable, Timer
  <2>2. Pending = 1 /\ Pending' = 0
    BY <1>17, <2>1 DEF Pending
  <2>3. \A i \in 1..m : ~Unserved(i)'
    BY <1>6, <2>1 DEF LinesOK
  <2>4. \A i, j \in 1..(m + 1) : Unserved(i)' /\ Unserved(j)' => i = j
    BY <1>8, <2>3
  <2>5. Ticks(kept) = Ticks(saved) \union {m + 1} /\ m + 1 \notin Ticks(saved)
    BY <1>12, <1>14, <1>17 DEF PIT_INT_IDX
  <2>6. Cardinality(Ticks(kept)) = Cardinality(Ticks(saved)) + 1
    <3> PICK T, n : T = Ticks(saved) /\ n = m + 1
      OBVIOUS
    <3>1. IsFiniteSet(T) /\ n \notin T /\ Ticks(kept) = T \union {n}
      BY <1>12, <2>5
    <3>2. Cardinality(T \union {n}) = Cardinality(T) + 1
      BY <3>1, FS_AddElement
    <3> QED BY <3>1, <3>2
  <2>7. Ticks(saved) = {} => Cardinality(Ticks(saved)) = 0
    BY FS_EmptySet
  <2>8. Ticks(saved) # {} => Cardinality(Ticks(saved)) + Pending <= 1 + late
    BY DEF LinesOK
  <2>9. Cardinality(Ticks(kept)) + Pending' <= 1 + late'
    BY <1>12, <1>15, <2>2, <2>6, <2>7, <2>8
  <2>10. Keys' = Keys
    BY <1>11, <1>17
  <2>11. (Keys' # {} => Keyboard \in isr') /\ \A i, j \in Keys' : i = j
    BY <1>17, <2>10 DEF LinesOK
  <2> QED BY <1>2, <1>15, <1>17, <2>4, <2>9, <2>11 DEF LinesOK
<1>18. CASE v = 33 /\ Deliverable(Keyboard) /\ irr' = irr \ {Keyboard} /\ isr' = isr \union {Keyboard}
  <2>1. Keyboard \notin isr
    BY <1>18 DEF Deliverable, Keyboard
  <2>2. Keys = {} /\ Keys' = {m + 1}
    BY <1>11, <1>18, <2>1 DEF LinesOK
  <2>3. v # PIT_INT_IDX
    BY <1>18 DEF PIT_INT_IDX
  <2>4. ~Unserved(m + 1)'
    BY <1>7, <2>3
  <2>5. /\ \A i \in 1..(m + 1) : Unserved(i)' => Timer \in isr'
        /\ \A i, j \in 1..(m + 1) : Unserved(i)' /\ Unserved(j)' => i = j
    BY <1>6, <1>8, <1>18, <2>4 DEF LinesOK
  <2>6. Ticks(kept) = Ticks(saved) /\ Pending' = Pending
    BY <1>14, <1>18, <2>3 DEF Pending, Timer, Keyboard
  <2>7. Ticks(kept) # {} => Cardinality(Ticks(kept)) + Pending' <= 1 + late'
    BY <2>6 DEF LinesOK
  <2> QED BY <1>2, <1>15, <1>18, <2>2, <2>5, <2>7 DEF LinesOK
<1>19. \A q \in Lines : (q = Timer /\ 32 + q = 32) \/ (q = Keyboard /\ 32 + q = 33)
  BY DEF Lines, Timer, Keyboard
<1> QED BY <1>16, <1>17, <1>18, <1>19

(* What comes after interrupt_handler in the stub of a tick.               *)
LEMMA PastAcknowledgement ==
  ASSUME NEW k \in Nat, k > 5 + N
  PROVE  StubAt(PIT_INT_IDX, k) \notin Unacknowledged
PROOF
<1>1. \A j \in 0..(4 + N) : StubAt(PIT_INT_IDX, k) # StubAt(PIT_INT_IDX, j + 1)
  <2> TAKE j \in 0..(4 + N)
  <2>1. k # j + 1
    BY InterruptsAssumption
  <2> QED BY <2>1 DEF StubAt
<1>2. \A j : StubAt(PIT_INT_IDX, k) # HandlerAt(PIT_INT_IDX, j)
  BY DEF StubAt, HandlerAt
<1> QED BY <1>1, <1>2 DEF Unacknowledged

(* The stub of a tick only goes forward, as far as the acknowledgement and *)
(* past it.                                                                *)
LEMMA StubForward ==
  ASSUME Nested, Execute, eip[1] = "stub", saved' = saved, Last(saved).vector = PIT_INT_IDX,
         eip' \in Unacknowledged
  PROVE  eip \in Unacknowledged
PROOF
<1> PICK s : s = Last(saved)
  OBVIOUS
<1> PICK n \in 0..(6 + 2 * N) : StubOK(s, Cpu, n)
  BY InStub
<1>1. /\ n \in Nat /\ N \in Nat
      /\ n + Pad(s.vector) > 0 /\ eip = StubAt(s.vector, n + Pad(s.vector))
      /\ Next1(eip) = StubAt(s.vector, n + 1 + Pad(s.vector))
  BY AtStub
<1>2. Pad(s.vector) = 1 /\ s.vector \in 0..255
  BY DEF Pad, ErrorHandlers, PIT_INT_IDX
<1>3. CASE n <= 4 + N
  <2>1. n \in 0..(4 + N) /\ eip = StubAt(PIT_INT_IDX, n + 1)
    BY <1>1, <1>2, <1>3
  <2> QED BY <2>1 DEF Unacknowledged
<1>4. CASE n >= 5 + N
  <2>1. Op \in {"pop", "pop esp", "iret"}
    <3>1. CASE n \in (5 + N)..(4 + 2 * N)
      <4> PICK i \in 1..N : n = 4 + N + i
        BY <1>1, <3>1
      <4>1. Instruction = <<"pop", cpu_state[i]>>
        BY <1>1, <1>2, Fetch
      <4> QED BY <4>1 DEF Op
    <3>2. CASE n = 5 + 2 * N
      <4>1. Instruction = <<"pop esp">>
        BY <1>1, <1>2, <3>2, Fetch
      <4> QED BY <4>1 DEF Op
    <3>3. CASE n = 6 + 2 * N
      <4>1. Instruction = <<"iret">>
        BY <1>1, <1>2, <3>3, Fetch
      <4> QED BY <4>1 DEF Op
    <3>4. n \in (5 + N)..(4 + 2 * N) \/ n = 5 + 2 * N \/ n = 6 + 2 * N
      BY <1>1, <1>4
    <3> QED BY <3>1, <3>2, <3>3, <3>4
  <2>2. eip' = Next1(eip)
    BY <2>1, StubIret, Effects DEF Pop, PopEsp
  <2> PICK k \in Nat : k = n + 2
    BY <1>1
  <2>3. eip' = StubAt(PIT_INT_IDX, k) /\ k > 5 + N
    BY <1>1, <1>2, <1>4, <2>2
  <2> QED BY <2>3, PastAcknowledgement
<1> QED BY <1>1, <1>3, <1>4

(* Only what the CPU is at changes.                                        *)
LEMMA UnservedTop ==
  ASSUME Nested, saved' = saved,
         saved # <<>> /\ Last(saved).vector = PIT_INT_IDX /\ eip' \in Unacknowledged
           => eip \in Unacknowledged
  PROVE  \A i \in 1..Len(saved) : Unserved(i)' => Unserved(i)
PROOF
<1> PICK m \in Nat : m = Len(saved)
  BY TheContexts
<1>1. /\ \A i \in 1..m : ContextAt(i) = saved[i]
      /\ ContextAt(m + 1).eip = eip /\ Last(saved) = saved[m] /\ (saved = <<>> => m = 0)
  BY TheContexts DEF Cpu
<1>2. /\ \A i \in 1..m : ContextAt(i)' = saved[i]
      /\ ContextAt(m + 1)'.eip = eip'
  BY DEF ContextAt, Cpu
<1> SUFFICES ASSUME NEW i \in 1..m, Unserved(i)' PROVE Unserved(i)
  OBVIOUS
<1>3. CASE i = m
  <2>1. saved # <<>>
    BY <1>1, <1>3
  <2> QED BY <1>1, <1>2, <1>3, <2>1 DEF Unserved
<1>4. CASE i # m
  <2>1. i + 1 \in 1..m
    BY <1>4
  <2> QED BY <1>1, <1>2, <2>1 DEF Unserved
<1> QED BY <1>3, <1>4

(* The CPU executes an instruction of a stub or of switch_to_process.      *)
LEMMA LinesExecuted ==
  ASSUME LinesOK, Nested, Execute
  PROVE  LinesOK'
PROOF
<1>1. IsSeq(saved) /\ late \in Nat /\ Len(saved) \in Nat
  BY SeqLen DEF Nested, LinesOK
<1>2. isr' = isr /\ irr' = irr /\ late' = IF Ticks(saved') = {} THEN 0 ELSE late
  BY DEF Execute
<1>3. late' \in Nat /\ (Ticks(saved') # {} => late' = late)
  BY <1>1, <1>2
<1>4. CASE saved' = saved /\ eip[1] = "stub"
  <2>1. \A i \in 1..Len(saved) : Unserved(i)' => Unserved(i)
    BY <1>4, StubForward, UnservedTop
  <2> QED BY <1>1, <1>2, <1>3, <1>4, <2>1, LinesFewer
<1>5. CASE saved' = saved /\ eip'[1] = "switch"
  <2>1. eip' \notin Unacknowledged
    BY <1>5 DEF Unacknowledged, HandlerAt, StubAt
  <2>2. \A i \in 1..Len(saved) : Unserved(i)' => Unserved(i)
    BY <1>5, <2>1, UnservedTop
  <2> QED BY <1>1, <1>2, <1>3, <1>5, <2>2, LinesFewer
<1>6. CASE saved' = <<>>
  <2>1. IsSeq(saved') /\ Len(saved') = 0 /\ Len(saved') <= Len(saved)
    <3>1. IsSeq(<<>>) /\ Len(<<>>) = 0
      BY ShortSeqs
    <3> QED BY <1>1, <1>6, <3>1
  <2>2. \A i \in 1..Len(saved') : FALSE
    BY <2>1
  <2> QED BY <1>1, <1>2, <1>3, <2>1, <2>2, LinesFewer
<1>7. CASE saved # <<>> /\ saved' = Front(saved) /\ eip' = Last(saved).eip
  <2> PICK m \in Nat : m = Len(saved)
    BY TheContexts
  <2>1. /\ \A i \in 1..m : ContextAt(i) = saved[i]
        /\ Last(saved) = saved[m] /\ m >= 1
    BY <1>7, TheContexts DEF Cpu
  <2>2. /\ IsSeq(saved)' /\ Len(saved)' = m - 1
        /\ \A i \in 1..(m - 1) : saved'[i] = saved[i]
    BY <1>1, <1>7, <2>1, Popped
  <2>3. /\ \A i \in 1..(m - 1) : ContextAt(i)' = saved[i]
        /\ ContextAt(m)'.eip = saved[m].eip
    BY <1>7, <2>1, <2>2 DEF ContextAt, Cpu
  <2>4. ASSUME NEW i \in 1..(m - 1) PROVE Unserved(i)' => Unserved(i)
    <3>1. i + 1 \in 1..m /\ (i + 1 = m \/ i + 1 \in 1..(m - 1))
      BY <2>1
    <3>2. ContextAt(i + 1)'.eip = ContextAt(i + 1).eip
      BY <2>1, <2>3, <3>1
    <3> QED BY <2>2, <3>2 DEF Unserved
  <2>5. Len(saved)' <= Len(saved)
    BY <2>2
  <2> QED BY <1>1, <1>2, <1>3, <2>2, <2>4, <2>5, LinesFewer
<1>8. eip[1] = "stub" \/ eip[1] = "switch"
  BY Effects, FetchOther
<1> QED BY <1>4, <1>5, <1>6, <1>7, <1>8, StubStep, SwitchStep

(* A handler takes a step.                                                 *)
LEMMA LinesHandled ==
  ASSUME LinesOK, Nested, Handle
  PROVE  LinesOK'
PROOF
<1> PICK v : v = eip[2]
  OBVIOUS
<1>1. Begin(v) \/ Switch(v) \/ Acknowledge(v) \/ Return(v) \/ Halt(v)
  BY DEF Handle
<1>2. late' = late /\ late \in Nat /\ IsSeq(saved) /\ Len(saved) \in Nat
  BY SeqLen DEF Handle, LinesOK, Nested
<1>3. CASE Acknowledge(v)
  BY <1>2, <1>3, LinesAcknowledged
<1>4. CASE Begin(v) \/ Switch(v) \/ Return(v) \/ Halt(v)
  <2>1. saved' = saved /\ irr' = irr /\ isr' = isr
    BY <1>4 DEF Begin, Switch, Return, Halt
  <2>2. ASSUME saved # <<>>, Last(saved).vector = PIT_INT_IDX, eip' \in Unacknowledged
        PROVE  eip \in Unacknowledged
    <3>1. CASE Begin(v)
      <4>1. eip = HandlerAt(v, 1)
        BY <3>1 DEF Begin, At
      <4>2. v = PIT_INT_IDX /\ 1 \in 1..2
        BY <2>2, <4>1, InHandler
      <4> QED BY <4>1, <4>2 DEF Unacknowledged
    <3>2. CASE Switch(v)
      <4>1. eip' \notin Unacknowledged
        BY <3>2 DEF Switch, SwitchAt, Unacknowledged, HandlerAt, StubAt
      <4> QED BY <2>2, <4>1
    <3>3. CASE Return(v)
      <4> PICK n \in 2..3 : eip = HandlerAt(v, n)
        BY <3>3 DEF Return, At
      <4>1. v = PIT_INT_IDX
        BY <2>2, InHandler
      <4> PICK s : s = Last(saved)
        OBVIOUS
      <4>2. /\ HandlerOK(s, Cpu, n) /\ ContextTyped(s) /\ v = s.vector
        BY InHandler
      <4> PICK b \in Nat : b = Base(s)
        BY <4>2, BaseIs DEF ContextTyped
      <4>3. /\ FrameOK(s, kstack, N + 4)
            /\ kstack[b + N + 4] = StubAt(v, 5 + N + Pad(v))
        BY <4>2 DEF HandlerOK, Cpu
      <4>4. N \in Nat /\ Pad(v) = 1
        BY <4>1, InterruptsAssumption DEF Pad, ErrorHandlers, PIT_INT_IDX
      <4> PICK h \in Nat : h = N + 4
        BY <4>4
      <4>5. Len(kstack) = b + h /\ b + h = b + N + 4
        BY <4>3, <4>4 DEF FrameOK
      <4>6. eip' = kstack[b + N + 4]
        BY <3>3, <4>5 DEF Return, Top, Last
      <4> PICK k \in Nat : k = 5 + N + 1
        BY <4>4
      <4>7. eip' = StubAt(PIT_INT_IDX, k)
        BY <4>1, <4>3, <4>4, <4>6
      <4>8. eip' \notin Unacknowledged
        BY <4>4, <4>7, PastAcknowledgement
      <4> QED BY <2>2, <4>8
    <3>4. CASE Halt(v)
      <4>1. eip' \notin Unacknowledged
        BY <3>4 DEF Halt, Hlt, Unacknowledged, HandlerAt, StubAt
      <4> QED BY <2>2, <4>1
    <3> QED BY <1>4, <3>1, <3>2, <3>3, <3>4
  <2>3. \A i \in 1..Len(saved) : Unserved(i)' => Unserved(i)
    BY <2>1, <2>2, UnservedTop
  <2> QED BY <1>2, <2>1, <2>3, LinesFewer
<1> QED BY <1>1, <1>3, <1>4

(* Nothing new is interrupted.                                             *)
LEMMA FaultsFewer ==
  ASSUME FaultsOK, IsSeq(saved), IsSeq(saved)', Len(saved)' <= Len(saved),
         \A i \in 1..Len(saved)' : saved'[i] = saved[i]
  PROVE  FaultsOK'
PROOF
<1> PICK m \in Nat, n \in Nat : m = Len(saved) /\ n = Len(saved)' /\ n <= m
  BY SeqLen
<1>1. \A i \in 2..n : /\ i \in 2..m /\ i \in 1..n /\ i - 1 \in 1..n
  OBVIOUS
<1>2. \A i \in 2..n : saved'[i] = saved[i] /\ saved'[i - 1] = saved[i - 1]
  BY <1>1
<1> QED BY <1>1, <1>2 DEF FaultsOK

(* An interrupt, an int instruction or an exception.                       *)
LEMMA FaultsEntered ==
  ASSUME FaultsOK, IsSeq(saved), NEW v, Enter(v), NotAgain(v)
  PROVE  FaultsOK'
PROOF
<1> PICK m \in Nat : m = Len(saved)
  BY SeqLen
<1> PICK s : s = Interrupted(v)
  OBVIOUS
<1>1. s.vector = v /\ s.eip = eip /\ saved' = Append(saved, s)
  BY DEF Enter, Interrupted
<1>2. Len(saved)' = m + 1 /\ saved'[m + 1] = s /\ \A i \in 1..m : saved'[i] = saved[i]
  BY <1>1, Pushed
<1>3. ASSUME NEW i \in 2..(m + 1), saved'[i].vector = 14, saved'[i].eip = HandlerAt(14, 2)
      PROVE  saved'[i - 1].eip # HandlerAt(14, 2)
  <2>1. i - 1 \in 1..m /\ saved'[i - 1] = saved[i - 1]
    BY <1>2
  <2>2. CASE i = m + 1
    <3>1. ~OfHandler
      BY <1>1, <1>2, <1>3, <2>2 DEF NotAgain
    <3>2. Last(saved) = saved[m] /\ i - 1 = m
      BY <2>2 DEF Last
    <3> QED BY <2>1, <3>1, <3>2 DEF OfHandler
  <2>3. CASE i # m + 1
    <3>1. i \in 2..m /\ saved'[i] = saved[i]
      BY <1>2, <2>3
    <3> QED BY <1>3, <2>1, <3>1 DEF FaultsOK
  <2> QED BY <2>2, <2>3
<1> QED BY <1>2, <1>3 DEF FaultsOK

LEMMA FaultsKeep ==
  ASSUME EntryIInv, FaultsOK, [Next]_vars
  PROVE  FaultsOK'
PROOF
<1>1. SetupOK /\ PicTypeOK /\ Nested
  BY DEF EntryIInv
<1>2. IsSeq(saved) /\ Len(saved) \in Nat
  BY <1>1, SeqLen DEF Nested
<1>3. CASE saved' = saved
  BY <1>2, <1>3, FaultsFewer
<1>4. CASE \E v : Enter(v) /\ NotAgain(v)
  BY <1>2, <1>4, FaultsEntered
<1>5. CASE Execute
  <2>1. CASE saved' = <<>>
    <3>1. IsSeq(saved)' /\ Len(saved)' = 0
      BY <2>1, ShortSeqs
    <3> QED BY <1>2, <3>1, FaultsFewer
  <2>2. CASE saved # <<>> /\ saved' = Front(saved)
    <3>1. Len(saved) >= 1
      BY <1>1, <2>2, TheContexts
    <3>2. /\ IsSeq(saved)' /\ Len(saved)' = Len(saved) - 1
          /\ \A i \in 1..(Len(saved) - 1) : saved'[i] = saved[i]
      BY <1>2, <2>2, <3>1, Popped
    <3>3. Len(saved)' <= Len(saved)
      BY <1>2, <3>2
    <3> QED BY <1>2, <3>2, <3>3, FaultsFewer
  <2>3. eip[1] = "stub" \/ eip[1] = "switch"
    BY <1>5, Effects, FetchOther
  <2> QED BY <1>1, <1>3, <1>5, <2>1, <2>2, <2>3, StubStep, SwitchStep
<1>6. CASE Interrupt
  BY <1>1, <1>4, <1>6, EnteredFor
<1>7. CASE Instructions
  <2>1. Ready
    BY <1>7 DEF Instructions
  <2>2. CASE (\E n \in 0..255 : IntInstruction(n)) \/ Fault
    BY <1>1, <1>4, <2>1, <2>2, EnteredFor
  <2>3. CASE Handle
    <3>1. saved' = saved
      BY <2>3 DEF Handle, Begin, Switch, Acknowledge, Return, Halt
    <3> QED BY <1>3, <3>1
  <2> QED BY <1>5, <1>7, <2>2, <2>3 DEF Instructions
<1>8. Write \/ (\E q \in Lines : RaiseLine(q)) \/ UNCHANGED vars => saved' = saved
  BY DEF Write, RaiseLine, vars, cpu
<1> QED BY <1>3, <1>6, <1>7, <1>8 DEF Next

-----------------------------------------------------------------------------
(* The line of a tick stays in service until the tick is acknowledged, the *)
(* keyboard's for good, and late counts the ticks the others make wait.    *)
THEOREM InterruptsInvariance == Spec => []InterruptsIInv
PROOF
<1>1. Init => LinesOK
  <2> SUFFICES ASSUME Init PROVE LinesOK
    OBVIOUS
  <2>1. saved = <<>> /\ late = 0
    BY DEF Init
  <2>2. Len(saved) = 0 /\ DOMAIN saved = 1..0
    BY <2>1, ShortSeqs, SeqLen
  <2>3. (\A i \in 1..0 : FALSE) /\ 1..0 = {}
    OBVIOUS
  <2>4. Keys = {} /\ Ticks(saved) = {}
    BY <2>2, <2>3 DEF Keys, Ticks
  <2> QED BY <2>1, <2>2, <2>3, <2>4 DEF LinesOK
<1>2. EntryIInv /\ LinesOK /\ [Next]_vars => LinesOK'
  <2> SUFFICES ASSUME EntryIInv, LinesOK, [Next]_vars PROVE LinesOK'
    OBVIOUS
  <2>1. SetupOK /\ PicTypeOK /\ Nested
    BY DEF EntryIInv
  <2>2. late \in Nat /\ IsSeq(saved) /\ Len(saved) \in Nat
    BY <2>1, SeqLen DEF LinesOK, Nested
  <2>3. CASE Write \/ UNCHANGED vars
    <3>1. /\ UNCHANGED <<eip, reg, kstack, saved, isr, late>>
          /\ irr' = irr \/ irr' = {}
      BY <2>3 DEF Write, vars, cpu
    <3>2. \A i : Unserved(i)' = Unserved(i)
      BY <3>1 DEF Unserved, ContextAt, Cpu
    <3> QED BY <2>2, <3>1, <3>2, LinesFewer
  <2>4. CASE Interrupt
    <3>1. late' = late
      BY <2>4 DEF Interrupt
    <3> QED BY <2>1, <2>4, <3>1, EnteredFor, LinesEntered
  <2>5. CASE Instructions
    <3>1. Ready
      BY <2>5 DEF Instructions
    <3>2. CASE (\E n \in 0..255 : IntInstruction(n)) \/ Fault
      <4>1. late' = late /\ irr' = irr /\ isr' = isr
        BY <3>2 DEF IntInstruction, Fault
      <4>2. (\E v \in {13, SYSCALL_INT_IDX} : Enter(v)) \/ (\E v \in Exceptions : Enter(v))
        BY <2>1, <3>1, <3>2, EnteredFor
      <4> PICK v : Enter(v) /\ v \notin {32, 33}
        BY <4>2 DEF Exceptions, SYSCALL_INT_IDX
      <4> QED BY <2>1, <4>1, LinesEntered
    <3> QED BY <2>1, <2>5, <3>2, LinesExecuted, LinesHandled DEF Instructions
  <2>6. CASE \E q \in Lines : RaiseLine(q)
    BY <2>1, <2>6, LinesRaised
  <2> QED BY <2>3, <2>4, <2>5, <2>6 DEF Next
<1>3. Init => FaultsOK
  <2> SUFFICES ASSUME Init PROVE FaultsOK
    OBVIOUS
  <2>1. Len(saved) = 0
    BY ShortSeqs DEF Init
  <2>2. \A i \in 2..0 : FALSE
    OBVIOUS
  <2> QED BY <2>1, <2>2 DEF FaultsOK
<1>4. EntryIInv /\ FaultsOK /\ [Next]_vars => FaultsOK'
  BY FaultsKeep
<1>5. InterruptsIInv <=> EntryIInv /\ LinesOK /\ FaultsOK
  BY DEF InterruptsIInv
<1> QED BY <1>1, <1>2, <1>3, <1>4, <1>5, EntryInvariance, PTL DEF Spec

(* Exceptions and system calls are the first of the interrupts, or follow  *)
(* it as the page fault of a system call and that of its handler.          *)
LEMMA SynchronousFirst ==
  ASSUME Nested, FaultsOK, NEW i \in 1..Len(saved), saved[i].vector \notin {32, 33}
  PROVE  i \in {1, 2, 3}
PROOF
<1> PICK m \in Nat : m = Len(saved)
  BY TheContexts
<1>1. \A k \in 1..m : ContextAt(k) = saved[k]
  BY TheContexts
<1>2. /\ First(ContextAt(1), current)
      /\ \A k \in 1..m : CauseOK(saved[k]) /\ Handles(saved[k], ContextAt(k + 1), current)
  BY DEF Nested
<1>3. ASSUME NEW k \in 1..m, saved[k].eip[1] = "user"
      PROVE  k = 1
  <2> SUFFICES ASSUME k # 1 PROVE FALSE
    OBVIOUS
  <2> PICK j \in 1..m : j = k - 1
    OBVIOUS
  <2>1. Handles(saved[j], saved[k], current)
    BY <1>1, <1>2
  <2> PICK s, c : s = saved[j] /\ c = saved[k]
    OBVIOUS
  <2>2. \A n : ~StubOK(s, c, n) /\ ~HandlerOK(s, c, n)
    BY <1>3 DEF StubOK, HandlerOK, StubAt, HandlerAt
  <2> QED BY <1>3, <2>1, <2>2 DEF Handles, Hlt, SwitchAt
<1>4. ASSUME NEW k \in 1..m, NEW v, saved[k].eip = HandlerAt(v, 2)
      PROVE  k # 1 /\ saved[k - 1].vector = v /\ k - 1 \in 1..m
  <2>1. k # 1
    <3> SUFFICES ASSUME k = 1 PROVE FALSE
      OBVIOUS
    <3> PICK c : c = ContextAt(1) /\ c.eip = HandlerAt(v, 2)
      BY <1>1, <1>4
    <3> QED BY <1>2 DEF First, HandlerAt, Kmain, User, SwitchAt
  <2> PICK j \in 1..m : j = k - 1
    BY <2>1
  <2>2. Handles(saved[j], saved[k], current)
    BY <1>1, <1>2
  <2> PICK s, c : s = saved[j] /\ c = saved[k]
    OBVIOUS
  <2>3. \A n : ~StubOK(s, c, n)
    BY <1>4 DEF StubOK, StubAt, HandlerAt
  <2>4. \E n : HandlerOK(s, c, n)
    BY <1>4, <2>2, <2>3 DEF Handles, Hlt, SwitchAt, HandlerAt
  <2>5. \E n : HandlerAt(s.vector, n) = HandlerAt(v, 2)
    BY <1>4, <2>4 DEF HandlerOK
  <2> QED BY <2>1, <2>5 DEF HandlerAt
<1>5. ASSUME NEW k \in 1..m, saved[k].vector \notin {14, 32, 33}
      PROVE  k = 1
  <2>1. saved[k].eip[1] = "user"
    BY <1>2, <1>5 DEF CauseOK, PIT_INT_IDX
  <2> QED BY <1>3, <2>1
<1>6. ASSUME NEW k \in 1..m, saved[k].vector = 14, saved[k].eip # HandlerAt(14, 2)
      PROVE  k \in {1, 2}
  <2>1. CASE saved[k].eip[1] = "user"
    BY <1>3, <2>1
  <2>2. CASE saved[k].eip = HandlerAt(SYSCALL_INT_IDX, 2)
    <3>1. k - 1 \in 1..m /\ saved[k - 1].vector = 128
      BY <1>4, <2>2 DEF SYSCALL_INT_IDX
    <3>2. k - 1 = 1
      BY <1>5, <3>1
    <3> QED BY <3>2
  <2> QED BY <1>2, <1>6, <2>1, <2>2 DEF CauseOK
<1>7. CASE saved[i].vector = 14 /\ saved[i].eip = HandlerAt(14, 2)
  <2>1. i # 1 /\ i - 1 \in 1..m /\ saved[i - 1].vector = 14
    BY <1>4, <1>7
  <2>2. saved[i - 1].eip # HandlerAt(14, 2)
    <3>1. i \in 2..m
      BY <2>1
    <3> QED BY <1>7, <3>1 DEF FaultsOK
  <2>3. i - 1 \in {1, 2}
    BY <1>6, <2>1, <2>2
  <2> QED BY <2>3
<1> QED BY <1>5, <1>6, <1>7

(* A set with at most one element more.                                    *)
LEMMA OneMore ==
  ASSUME NEW S, NEW R, IsFiniteSet(S), \A x, y \in R : x = y
  PROVE  /\ IsFiniteSet(S \union R) /\ Cardinality(S \union R) \in Nat
         /\ Cardinality(S) \in Nat /\ Cardinality(S \union R) <= Cardinality(S) + 1
PROOF
<1>1. Cardinality(S) \in Nat
  BY FS_CardinalityType
<1>2. CASE R = {}
  <2>1. S \union R = S
    BY <1>2
  <2>2. IsFiniteSet(S \union R) /\ Cardinality(S \union R) = Cardinality(S)
    BY <2>1, Zenon
  <2> QED BY <1>1, <2>2
<1>3. CASE R # {}
  <2> PICK x : x \in R
    BY <1>3
  <2>1. R = {x}
    OBVIOUS
  <2>2. /\ IsFiniteSet(S \union {x})
        /\ Cardinality(S \union {x}) = IF x \in S THEN Cardinality(S) ELSE Cardinality(S) + 1
    BY FS_AddElement
  <2>3. Cardinality(S \union {x}) = Cardinality(S) \/ Cardinality(S \union {x}) = Cardinality(S) + 1
    BY <2>2
  <2> QED BY <1>1, <2>1, <2>2, <2>3
<1> QED BY <1>2, <1>3

(* At most a system call, its page fault, that of page_fault_handler, a    *)
(* key and a tick are stacked up, and the ticks that were late.            *)
THEOREM StackNeverDeeper == Spec => []NestingBounded
PROOF
<1>1. InterruptsIInv => NestingBounded
  <2> SUFFICES ASSUME Nested, LinesOK, FaultsOK PROVE Len(saved) <= 5 + late
    BY DEF InterruptsIInv, EntryIInv, NestingBounded
  <2> PICK m \in Nat : m = Len(saved)
    BY TheContexts
  <2> PICK T, K : T = Ticks(saved) /\ K = Keys
    OBVIOUS
  <2>1. /\ IsFiniteSet(T) /\ Cardinality(T) \in Nat
        /\ \A i \in 1..m : i \in T <=> saved[i].vector = 32
    BY TicksAre DEF Nested, PIT_INT_IDX
  <2>2. (\A i, j \in K : i = j) /\ \A i \in 1..m : i \in K <=> saved[i].vector = 33
    BY DEF LinesOK, Keys
  <2>3. \A i \in 1..m : i \in T \/ i \in K \/ i \in {1, 2, 3}
    BY <2>1, <2>2, SynchronousFirst
  <2> PICK U : U = T \union K
    OBVIOUS
  <2>4. IsFiniteSet(U) /\ Cardinality(U) \in Nat /\ Cardinality(U) <= Cardinality(T) + 1
    BY <2>1, <2>2, OneMore
  <2> PICK V : V = U \union {1}
    OBVIOUS
  <2>5. IsFiniteSet(V) /\ Cardinality(V) \in Nat /\ Cardinality(V) <= Cardinality(U) + 1
    <3>1. \A x, y \in {1} : x = y
      OBVIOUS
    <3> QED BY <2>4, <3>1, OneMore
  <2> PICK W : W = V \union {2}
    OBVIOUS
  <2>6. IsFiniteSet(W) /\ Cardinality(W) \in Nat /\ Cardinality(W) <= Cardinality(V) + 1
    <3>1. \A x, y \in {2} : x = y
      OBVIOUS
    <3> QED BY <2>5, <3>1, OneMore
  <2> PICK X : X = W \union {3}
    OBVIOUS
  <2>7. IsFiniteSet(X) /\ Cardinality(X) \in Nat /\ Cardinality(X) <= Cardinality(W) + 1
    <3>1. \A x, y \in {3} : x = y
      OBVIOUS
    <3> QED BY <2>6, <3>1, OneMore
  <2>8. Cardinality(1..m) <= Cardinality(X)
    <3>1. 1..m \in SUBSET X
      BY <2>3
    <3> QED BY <2>7, <3>1, FS_Subset
  <2>9. Cardinality(1..m) = m
    <3> PICK a \in Int, b \in Int : a = 1 /\ b = m
      OBVIOUS
    <3>1. Cardinality(a..b) = IF a > b THEN 0 ELSE b - a + 1
      BY FS_Interval
    <3>2. (a > b => b = 0) /\ b - a + 1 = m
      OBVIOUS
    <3> QED BY <3>1, <3>2
  <2>10. m <= Cardinality(T) + 4
    BY <2>1, <2>4, <2>5, <2>6, <2>7, <2>8, <2>9
  <2>11. Cardinality(T) <= 1 + late /\ late \in Nat
    <3>1. late \in Nat
      BY DEF LinesOK
    <3>2. CASE T = {}
      <4>1. Cardinality(T) = 0
        BY <3>2, FS_EmptySet
      <4> QED BY <3>1, <4>1
    <3>3. CASE T # {}
      <4>1. Pending \in Nat /\ Cardinality(T) + Pending <= 1 + late
        BY <3>3 DEF LinesOK, Pending
      <4> QED BY <2>1, <3>1, <4>1
    <3> QED BY <3>2, <3>3
  <2> QED BY <2>1, <2>10, <2>11
<1> QED BY <1>1, InterruptsInvariance, PTL

=============================================================================
