--------------------------- MODULE Console_proofs ---------------------------
(***************************************************************************)
(* The log, for a UART with any FIFO that the kernel may rely on, lines of *)
(* any length and any number of them: the UART takes every byte it is      *)
(* given, and nobody writes into the line of a tick.                       *)
(***************************************************************************)
EXTENDS Console, SequenceTheorems, TLAPS

Fields == {"who", "left", "i", "does", "attempts"}

(* Only sys_printf's line has a string whose length is to be found; a      *)
(* finished line has no byte under way.                                    *)
Plain(c) ==
  /\ c.who # "sys_printf" => c.left \in Seq(Nat) /\ c.does # "strlen"
  /\ c.left = <<>> => c.does # "out"

(* Calls nest, five deep at most: first the boot code's or that of a       *)
(* process; page faults, on sys_printf's call and on another page fault's, *)
(* where no byte of what they cut is under way; that of a key; a tick's.   *)
(* The last two each have their line in service, so neither comes a second *)
(* time.                                                                   *)
OfProcess    == {"log_init", "sys_printf", "exception"}
OfPageFault  == {"page_fault_handler", "mapped", "halting"}
OfInterrupts == {"interrupt_handler", "pit_handler"}

CallOK(k) ==
  /\ DOMAIN calls[k] = Fields
  /\ Plain(calls[k])
  /\ calls[k].who \in OfProcess \union OfPageFault \union OfInterrupts
  /\ calls[k].who \in OfProcess => k = 1
  /\ calls[k].who \in OfPageFault =>
       /\ k <= 3
       /\ k > 1 => calls[k - 1].does # "out"
       /\ k > 1 => calls[k - 1].who \in {"sys_printf", "page_fault_handler"}
  /\ calls[k].who = "interrupt_handler" =>
       /\ k <= 4
       /\ k = Len(calls) \/ (k = Len(calls) - 1 /\ calls[k + 1].who = "pit_handler")
       /\ Keyboard \in isr
  /\ calls[k].who = "pit_handler" => k = Len(calls) /\ Timer \in isr

Nested ==
  /\ calls \in Seq({calls[k] : k \in DOMAIN calls})
  /\ \A k \in 1 .. Len(calls) : CallOK(k)

(* How far serial_init has come: the latch is closed and the FIFO enabled  *)
(* and cleared before log_init writes the first byte.                      *)
UartOK ==
  /\ configured \in 0 .. 6
  /\ uart \in [dlab : BOOLEAN, divisor : Int, fifo : BOOLEAN, held : Nat]
  /\ configured > 3 => ~uart.dlab
  /\ configured > 4 => uart.fifo
  /\ configured = 5 => uart.held = 0
  /\ configured < 6 => calls = <<>>

(* A call that has found the transmitter empty has one byte to write,      *)
(* whatever the calls that cut it have written since.                      *)
OutAt(k) == IF k \in 1 .. Len(calls) /\ calls[k].does = "out" THEN 1 ELSE 0

BytesUnderWay == OutAt(1) + OutAt(2) + OutAt(3) + OutAt(4) + OutAt(5)

BytesFit == configured = 6 => uart.held + BytesUnderWay <= 3

ConsoleIInv ==
  /\ PicTypeOK
  /\ Nested
  /\ UartOK
  /\ BytesFit

-----------------------------------------------------------------------------
(* A list of writes with one more behind it.                               *)
LEMMA OneMore ==
  ASSUME NEW S, NEW r \in Seq(S), NEW t \in Seq(S), Len(t) = 1
  PROVE  /\ r \o t \in Seq(S)
         /\ Len(r \o t) = Len(r) + 1
         /\ \A k \in 1 .. Len(r) : (r \o t)[k] = r[k]
         /\ (r \o t)[Len(r) + 1] = t[1]
PROOF
<1>1. Len(r) \in Nat
  BY LenProperties
<1>2. r \o t \in Seq(S)
  BY ConcatProperties
<1>3. Len(r \o t) = Len(r) + Len(t)
  BY ConcatProperties
<1>4. \A k \in 1 .. Len(r) + Len(t) : (r \o t)[k] = IF k <= Len(r) THEN r[k] ELSE t[k - Len(r)]
  BY ConcatProperties
<1> DEFINE u == r \o t
<1> HIDE DEF u
<1>5. \A k \in 1 .. Len(r) + 1 : u[k] = IF k <= Len(r) THEN r[k] ELSE t[k - Len(r)]
  BY <1>4 DEF u
<1>6. u \in Seq(S) /\ Len(u) = Len(r) + 1
  BY <1>2, <1>3 DEF u
<1>7. \A k \in 1 .. Len(r) : u[k] = r[k]
  BY <1>1, <1>5
<1>8. u[Len(r) + 1] = t[1]
  BY <1>1, <1>5
<1> QED BY <1>6, <1>7, <1>8 DEF u

(* Six writes to the ports, put together of a list of three and three of   *)
(* one, as serial_init does.                                               *)
LEMMA SixWrites ==
  ASSUME NEW S, NEW a \in S, NEW b \in S, NEW c \in S,
         NEW d \in S, NEW e \in S, NEW f \in S
  PROVE  LET s == ((<<a, b, c>> \o <<d>>) \o <<e>>) \o <<f>>
         IN  /\ Len(s) = 6
             /\ s[1] = a /\ s[2] = b /\ s[3] = c /\ s[4] = d /\ s[5] = e /\ s[6] = f
PROOF
<1> DEFINE r == <<a, b, c>>
           td == <<d>>
           te == <<e>>
           tf == <<f>>
           s4 == r \o td
           s5 == s4 \o te
           s6 == s5 \o tf
<1>1. r \in Seq(S) /\ Len(r) = 3 /\ r[1] = a /\ r[2] = b /\ r[3] = c
  OBVIOUS
<1>2. /\ td \in Seq(S) /\ Len(td) = 1 /\ td[1] = d
      /\ te \in Seq(S) /\ Len(te) = 1 /\ te[1] = e
      /\ tf \in Seq(S) /\ Len(tf) = 1 /\ tf[1] = f
  OBVIOUS
<1>3. s6 = ((<<a, b, c>> \o <<d>>) \o <<e>>) \o <<f>>
  OBVIOUS
<1> HIDE DEF r, td, te, tf
<1>4. /\ s4 \in Seq(S) /\ Len(s4) = Len(r) + 1 /\ s4[Len(r) + 1] = td[1]
      /\ \A k \in 1 .. Len(r) : s4[k] = r[k]
  <2>1. r \in Seq(S) /\ td \in Seq(S) /\ Len(td) = 1
    BY <1>1, <1>2
  <2> QED BY <2>1, OneMore
<1> HIDE DEF s4
<1>5. Len(s4) = 4 /\ s4[1] = a /\ s4[2] = b /\ s4[3] = c /\ s4[4] = d
  BY <1>1, <1>2, <1>4
<1>6. /\ s5 \in Seq(S) /\ Len(s5) = Len(s4) + 1 /\ s5[Len(s4) + 1] = te[1]
      /\ \A k \in 1 .. Len(s4) : s5[k] = s4[k]
  BY <1>2, <1>4, OneMore
<1> HIDE DEF s5
<1>7. Len(s5) = 5 /\ s5[1] = a /\ s5[2] = b /\ s5[3] = c /\ s5[4] = d /\ s5[5] = e
  BY <1>2, <1>5, <1>6
<1>8. /\ Len(s6) = Len(s5) + 1 /\ s6[Len(s5) + 1] = tf[1]
      /\ \A k \in 1 .. Len(s5) : s6[k] = s5[k]
  <2>1. s5 \in Seq(S) /\ tf \in Seq(S) /\ Len(tf) = 1
    BY <1>2, <1>6
  <2> QED BY <2>1, OneMore
<1> HIDE DEF s6
<1>9. /\ Len(s6) = 6
      /\ s6[1] = a /\ s6[2] = b /\ s6[3] = c /\ s6[4] = d /\ s6[5] = e /\ s6[6] = f
  BY <1>2, <1>7, <1>8
<1> QED BY <1>3, <1>9, Zenon

(* What serial_init writes, in order.                                      *)
LEMMA SerialInitIs ==
  /\ Len(serial_init) = 6
  /\ serial_init[1] = <<"line", 128>>
  /\ serial_init[2] = <<"data", 0>>
  /\ serial_init[3] = <<"data", 1>>
  /\ serial_init[4] = <<"line", 3>>
  /\ serial_init[5] = <<"fifo", 199>>
  /\ serial_init[6] = <<"modem", 3>>
PROOF
<1> DEFINE a == <<"line", 128>>
           b == <<"data", 0>>
           c == <<"data", 1>>
           d == <<"line", 3>>
           e == <<"fifo", 199>>
           f == <<"modem", 3>>
           S == {a, b, c, d, e, f}
<1>1. serial_init = ((<<a, b, c>> \o <<d>>) \o <<e>>) \o <<f>>
  BY DEF serial_init, serial_configure_baud_rate, serial_configure_line,
         serial_configure_fifo, serial_configure_modem
<1> HIDE DEF a, b, c, d, e, f
<1>2. a \in S /\ b \in S /\ c \in S /\ d \in S /\ e \in S /\ f \in S
  OBVIOUS
<1> HIDE DEF S
<1>3. /\ Len(serial_init) = 6
      /\ serial_init[1] = a /\ serial_init[2] = b /\ serial_init[3] = c
      /\ serial_init[4] = d /\ serial_init[5] = e /\ serial_init[6] = f
  <2> DEFINE s == ((<<a, b, c>> \o <<d>>) \o <<e>>) \o <<f>>
  <2>1. /\ Len(s) = 6
        /\ s[1] = a /\ s[2] = b /\ s[3] = c /\ s[4] = d /\ s[5] = e /\ s[6] = f
    BY <1>2, SixWrites
  <2>2. serial_init = s
    BY <1>1
  <2> HIDE DEF s
  <2> QED BY <2>1, <2>2
<1> QED BY <1>3 DEF a, b, c, d, e, f

(* A sequence is one of its own elements.                                  *)
LEMMA OwnElements ==
  ASSUME NEW S, NEW s \in Seq(S)
  PROVE  s \in Seq({s[k] : k \in DOMAIN s})
PROOF
<1>1. Len(s) \in Nat /\ DOMAIN s = 1 .. Len(s) /\ s \in [1 .. Len(s) -> {s[k] : k \in DOMAIN s}]
  BY LenProperties
<1> QED BY <1>1, SeqDef

(* There are at most five calls under way, with room for another one if    *)
(* an interrupt may come, or a page fault.                                 *)
LEMMA FewCalls ==
  ASSUME Nested
  PROVE  /\ Len(calls) \in 0 .. 5
         /\ DOMAIN calls = 1 .. Len(calls)
         /\ calls # <<>> => Len(calls) > 0 /\ Top = calls[Len(calls)]
         /\ Timer \notin isr =>
              /\ Len(calls) <= 4
              /\ \A k \in 1 .. Len(calls) : calls[k].who # "pit_handler"
         /\ Timer \notin isr /\ Keyboard \notin isr =>
              /\ Len(calls) <= 3
              /\ \A k \in 1 .. Len(calls) : calls[k].who # "interrupt_handler"
PROOF
<1> DEFINE n == Len(calls)
<1>1. n \in Nat /\ DOMAIN calls = 1 .. n /\ (calls # <<>> => n > 0)
  BY LenProperties, EmptySeq DEF Nested
<1>2. \A k \in 1 .. n : CallOK(k)
  BY DEF Nested
<1> HIDE DEF n
<1>3. n <= 5
  <2> SUFFICES ASSUME n > 5 PROVE FALSE
    BY <1>1
  <2>1. 5 \in 1 .. n /\ 5 # n
    BY <1>1
  <2> QED BY <1>2, <2>1 DEF CallOK, OfProcess, OfPageFault, OfInterrupts, n
<1>4. ASSUME Timer \notin isr PROVE n <= 4 /\ \A k \in 1 .. n : calls[k].who # "pit_handler"
  <2>1. \A k \in 1 .. n : calls[k].who # "pit_handler"
    BY <1>2, <1>4 DEF CallOK
  <2>2. n # 5
    <3> SUFFICES ASSUME n = 5 PROVE FALSE
      OBVIOUS
    <3>1. 5 \in 1 .. n
      OBVIOUS
    <3> QED BY <1>2, <2>1, <3>1 DEF CallOK, OfProcess, OfPageFault, OfInterrupts
  <2> QED BY <1>1, <1>3, <2>1, <2>2
<1>5. ASSUME Timer \notin isr, Keyboard \notin isr
      PROVE  n <= 3 /\ \A k \in 1 .. n : calls[k].who # "interrupt_handler"
  <2>1. \A k \in 1 .. n : calls[k].who # "interrupt_handler"
    BY <1>2, <1>5 DEF CallOK
  <2>2. n # 4
    <3> SUFFICES ASSUME n = 4 PROVE FALSE
      OBVIOUS
    <3>1. 4 \in 1 .. n
      OBVIOUS
    <3> QED BY <1>2, <1>4, <1>5, <2>1, <3>1 DEF CallOK, OfProcess, OfPageFault, OfInterrupts
  <2> QED BY <1>1, <1>4, <1>5, <2>1, <2>2
<1> QED BY <1>1, <1>3, <1>4, <1>5 DEF n, Top, Last

(* Of five calls the first two, and of four the first, have been cut by a  *)
(* page fault: three at most have a byte under way.                        *)
LEMMA FewBytes ==
  ASSUME Nested
  PROVE  BytesUnderWay \in 0 .. 3
PROOF
<1> DEFINE n == Len(calls)
<1>1. n \in 0 .. 5 /\ \A k \in 1 .. n : CallOK(k)
  BY FewCalls DEF Nested
<1> HIDE DEF n
<1>2. \A k : OutAt(k) \in {0, 1}
  BY DEF OutAt
<1>3. \A k \in 1 .. 5 : k > n => OutAt(k) = 0
  BY <1>1 DEF OutAt, n
<1>4. \A k \in 2 .. 3 : k < n - 1 => OutAt(k - 1) = 0
  <2> TAKE k \in 2 .. 3
  <2> SUFFICES ASSUME k < n - 1 PROVE OutAt(k - 1) = 0
    OBVIOUS
  <2>1. k \in 1 .. n /\ k > 1 /\ k # n
    BY <1>1
  <2>2. CallOK(k)
    BY <1>1, <2>1
  <2>3. calls[k].who \in OfPageFault
    BY <1>1, <2>1, <2>2 DEF CallOK, OfInterrupts, n
  <2>4. calls[k - 1].does # "out"
    BY <2>1, <2>2, <2>3 DEF CallOK
  <2> QED BY <2>4 DEF OutAt
<1>5. n > 3 => OutAt(1) = 0
  BY <1>1, <1>4
<1>6. n > 4 => OutAt(2) = 0
  BY <1>1, <1>4
<1>7. BytesUnderWay \in 0 .. 3
  <2>1. /\ OutAt(1) \in {0, 1} /\ OutAt(2) \in {0, 1} /\ OutAt(3) \in {0, 1}
        /\ OutAt(4) \in {0, 1} /\ OutAt(5) \in {0, 1}
    BY <1>2
  <2>2. (n <= 4 => OutAt(5) = 0) /\ (n <= 3 => OutAt(4) = 0)
    BY <1>1, <1>3
  <2> QED BY <1>1, <1>5, <1>6, <2>1, <2>2 DEF BytesUnderWay
<1> QED BY <1>7

-----------------------------------------------------------------------------
(* The call that executes goes on, and those it cut stay as they were.     *)
LEMMA BecomeKeeps ==
  ASSUME Nested, calls # <<>>, UNCHANGED isr,
         NEW c, DOMAIN c = Fields, Plain(c), Become(c),
         c.who = Top.who \/ (Top.who = "page_fault_handler" /\ c.who \in OfPageFault)
  PROVE  /\ Nested'
         /\ Len(calls') = Len(calls)
         /\ calls'[Len(calls)] = c
         /\ \A k \in 1 .. Len(calls) : k # Len(calls) => calls'[k] = calls[k]
PROOF
<1> DEFINE n == Len(calls)
           E == {calls[k] : k \in DOMAIN calls} \union {c}
<1>1. /\ n \in 0 .. 5 /\ n > 0 /\ Top = calls[n] /\ DOMAIN calls = 1 .. n
      /\ calls \in Seq({calls[k] : k \in DOMAIN calls})
      /\ \A k \in 1 .. n : CallOK(k)
  BY FewCalls DEF Nested
<1>2. calls \in Seq(E) /\ c \in E
  BY <1>1, SeqMonotonic
<1>3. calls' = [calls EXCEPT ![n] = c]
  BY DEF Become
<1>4. n \in 1 .. Len(calls)
  BY <1>1
<1> HIDE DEF n, E
<1>5. calls' \in Seq(E)
  BY <1>2, <1>3, <1>4, ExceptSeq
<1>6. Len(calls') = n
  BY <1>2, <1>3, <1>4, ExceptSeq DEF n
<1>7. \A k \in 1 .. n : calls'[k] = IF k = n THEN c ELSE calls[k]
  BY <1>1, <1>3
<1>8. calls'[n] = c /\ \A k \in 1 .. n : k # n => calls'[k] = calls[k]
  BY <1>1, <1>7
<1>9. calls' \in Seq({calls'[k] : k \in DOMAIN calls'})
  BY <1>5, OwnElements
<1>10. \A k \in 1 .. n : CallOK(k)'
  <2> TAKE k \in 1 .. n
  <2>1. CallOK(k)
    BY <1>1
  <2>2. CASE k = n
    <3>1. /\ calls'[k] = c
          /\ \/ c.who = calls[k].who
             \/ calls[k].who = "page_fault_handler" /\ c.who \in OfPageFault
      BY <1>1, <1>8, <2>2
    <3>2. k > 1 => calls'[k - 1] = calls[k - 1]
      BY <1>1, <1>8, <2>2
    <3>3. calls[k].who = "interrupt_handler" => k <= 4 /\ Keyboard \in isr
      BY <2>1 DEF CallOK
    <3> QED BY <1>6, <2>1, <2>2, <3>1, <3>2, <3>3
            DEF CallOK, OfProcess, OfPageFault, OfInterrupts, n
  <2>3. CASE k # n
    <3>1. calls'[k] = calls[k]
      BY <1>8, <2>3
    <3>2. k > 1 => calls'[k - 1] = calls[k - 1]
      BY <1>1, <1>8, <2>3
    <3>3. calls[k].who = "interrupt_handler" => calls'[k + 1].who = "pit_handler"
      <4> SUFFICES ASSUME calls[k].who = "interrupt_handler"
                   PROVE  calls'[k + 1].who = "pit_handler"
        OBVIOUS
      <4>1. k + 1 = n /\ calls[n].who = "pit_handler"
        <5>1. k = n - 1 /\ calls[k + 1].who = "pit_handler"
          BY <2>1, <2>3 DEF CallOK, n
        <5>2. k + 1 = n
          BY <1>1, <5>1
        <5> QED BY <5>1, <5>2
      <4>2. c.who = "pit_handler"
        BY <1>1, <4>1
      <4> QED BY <1>8, <4>1, <4>2
    <3> QED BY <1>1, <1>6, <2>1, <2>3, <3>1, <3>2, <3>3 DEF CallOK, n
  <2> QED BY <2>2, <2>3
<1> QED BY <1>6, <1>8, <1>9, <1>10 DEF Nested, n

(* It returns to the one it had cut.                                       *)
LEMMA FrontKeeps ==
  ASSUME Nested, calls # <<>>, calls' = Front(calls),
         Keyboard \in isr => Keyboard \in isr'
  PROVE  /\ Nested'
         /\ Len(calls') = Len(calls) - 1
         /\ \A k \in 1 .. Len(calls') : calls'[k] = calls[k]
PROOF
<1> DEFINE n == Len(calls)
           E == {calls[k] : k \in DOMAIN calls}
<1>1. n \in 0 .. 5 /\ n > 0 /\ calls \in Seq(E) /\ \A k \in 1 .. n : CallOK(k)
  BY FewCalls DEF Nested
<1>2. calls' = SubSeq(calls, 1, n - 1)
  BY DEF Front
<1> HIDE DEF E
<1>3. calls' \in Seq(E) /\ Len(calls') = n - 1 /\ \A k \in 1 .. n - 1 : calls'[k] = calls[k]
  <2>1. 1 \in 1 .. n + 1 /\ n - 1 \in 1 - 1 .. n
    BY <1>1
  <2>2. calls' \in Seq(E)
    BY <1>1, <1>2, <2>1, SubSeqProperties
  <2>3. Len(calls') = n - 1
    <3> DEFINE m == n - 1
    <3>1. m \in Int /\ \A k \in 1 .. m : calls[k] \in E
      BY <1>1, ElementOfSeq
    <3>2. calls' = SubSeq(calls, 1, m)
      BY <1>2
    <3> HIDE DEF m
    <3>3. Len(calls') = IF 1 <= m THEN m - 1 + 1 ELSE 0
      BY <3>1, <3>2, SubSeqProperties
    <3>4. m = n - 1
      BY DEF m
    <3> QED BY <1>1, <3>3, <3>4
  <2>4. \A k \in 1 .. n - 1 : calls'[k] = calls[k]
    BY <1>1, <1>2, <2>1, SubSeqProperties
  <2> QED BY <2>2, <2>3, <2>4
<1> HIDE DEF n
<1>4. calls' \in Seq({calls'[k] : k \in DOMAIN calls'})
  BY <1>3, OwnElements
<1>5. \A k \in 1 .. Len(calls') : CallOK(k)'
  <2> TAKE k \in 1 .. Len(calls')
  <2>1. k \in 1 .. n - 1 /\ calls'[k] = calls[k] /\ (k > 1 => calls'[k - 1] = calls[k - 1])
    BY <1>1, <1>3
  <2>2. k \in 1 .. n /\ k # n
    BY <1>1, <2>1
  <2>3. CallOK(k)
    BY <1>1, <2>2
  <2>4. calls[k].who = "interrupt_handler" => k = n - 1
    BY <2>2, <2>3 DEF CallOK, n
  <2> QED BY <1>3, <2>1, <2>2, <2>3, <2>4 DEF CallOK, n
<1> QED BY <1>3, <1>4, <1>5 DEF Nested, n

(* What an interrupt handler, or page_fault_handler, may begin a line on.  *)
TickBegins(c) ==
  /\ c.who = "pit_handler"
  /\ Timer \notin isr /\ Timer \in isr'
  /\ Keyboard \in isr => Keyboard \in isr'

KeyBegins(c) ==
  /\ c.who = "interrupt_handler"
  /\ Timer \notin isr /\ Keyboard \notin isr /\ Keyboard \in isr'

PageFaultBegins(c) ==
  /\ c.who = "page_fault_handler"
  /\ calls # <<>> /\ Top.does # "out"
  /\ \/ Top.who = "sys_printf"
     \/ Top.who = "page_fault_handler" /\ ~OwnFault
  /\ UNCHANGED isr

(* The line it begins is the one that executes, on top of what it has cut. *)
LEMMA AppendKeeps ==
  ASSUME Nested, NEW c, DOMAIN c = Fields, Plain(c), calls' = Append(calls, c),
         TickBegins(c) \/ KeyBegins(c) \/ PageFaultBegins(c)
  PROVE  /\ Nested'
         /\ Len(calls') = Len(calls) + 1
         /\ calls'[Len(calls) + 1] = c
         /\ \A k \in 1 .. Len(calls) : calls'[k] = calls[k]
PROOF
<1> DEFINE n == Len(calls)
           E == {calls[k] : k \in DOMAIN calls} \union {c}
<1>1. /\ n \in 0 .. 5 /\ calls \in Seq({calls[k] : k \in DOMAIN calls})
      /\ calls # <<>> => n > 0 /\ Top = calls[n]
      /\ \A k \in 1 .. n : CallOK(k)
  BY FewCalls DEF Nested
<1>2. calls \in Seq(E) /\ c \in E
  BY <1>1, SeqMonotonic
<1> HIDE DEF E
<1>3. calls' \in Seq(E)
  BY <1>2, AppendProperties
<1>4. Len(calls') = n + 1
  BY <1>2, AppendProperties
<1>5. calls'[n + 1] = c /\ \A k \in 1 .. n : calls'[k] = calls[k]
  BY <1>2, AppendProperties
<1>6. calls' \in Seq({calls'[k] : k \in DOMAIN calls'})
  BY <1>3, OwnElements
<1>7. CASE TickBegins(c)
  <2>1. n <= 4 /\ \A k \in 1 .. n : calls[k].who # "pit_handler"
    BY <1>7, FewCalls DEF TickBegins
  <2> HIDE DEF n
  <2>2. \A k \in 1 .. n + 1 : CallOK(k)'
    <3> TAKE k \in 1 .. n + 1
    <3>1. CASE k = n + 1
      BY <1>4, <1>5, <1>7, <3>1 DEF CallOK, TickBegins, OfProcess, OfPageFault, OfInterrupts
    <3>2. CASE k # n + 1
      <4>1. k \in 1 .. n
        BY <1>1, <3>2
      <4>2. CallOK(k) /\ calls'[k] = calls[k] /\ calls[k].who # "pit_handler"
        BY <1>1, <1>5, <2>1, <4>1
      <4>3. k > 1 => calls'[k - 1] = calls[k - 1]
        <5>1. k > 1 => k - 1 \in 1 .. n
          BY <1>1, <4>1
        <5> QED BY <1>5, <5>1
      <4>4. calls[k].who = "interrupt_handler" => k = n
        <5> SUFFICES ASSUME calls[k].who = "interrupt_handler" PROVE k = n
          OBVIOUS
        <5>1. k = n \/ (k = n - 1 /\ calls[k + 1].who = "pit_handler")
          BY <4>2 DEF CallOK, n
        <5>2. k = n - 1 => k + 1 \in 1 .. n
          BY <1>1, <4>1
        <5> QED BY <2>1, <5>1, <5>2
      <4>5. calls[k].who = "interrupt_handler" => calls'[k + 1].who = "pit_handler"
        BY <1>5, <1>7, <4>4 DEF TickBegins
      <4>6. Keyboard \in isr => Keyboard \in isr'
        BY <1>7 DEF TickBegins
      <4> QED BY <1>1, <1>4, <4>2, <4>3, <4>4, <4>5, <4>6 DEF CallOK
    <3> QED BY <3>1, <3>2
  <2> QED BY <1>4, <1>5, <1>6, <2>2 DEF Nested, n
<1>8. CASE KeyBegins(c)
  <2>1. n <= 3 /\ \A k \in 1 .. n : calls[k].who \notin OfInterrupts
    BY <1>8, FewCalls DEF KeyBegins, OfInterrupts
  <2> HIDE DEF n
  <2>2. \A k \in 1 .. n + 1 : CallOK(k)'
    <3> TAKE k \in 1 .. n + 1
    <3>1. CASE k = n + 1
      BY <1>1, <1>4, <1>5, <1>8, <2>1, <3>1
         DEF CallOK, KeyBegins, OfProcess, OfPageFault, OfInterrupts
    <3>2. CASE k # n + 1
      <4>1. k \in 1 .. n
        BY <1>1, <3>2
      <4>2. CallOK(k) /\ calls'[k] = calls[k] /\ calls[k].who \notin OfInterrupts
        BY <1>1, <1>5, <2>1, <4>1
      <4>3. k > 1 => calls'[k - 1] = calls[k - 1]
        <5>1. k > 1 => k - 1 \in 1 .. n
          BY <1>1, <4>1
        <5> QED BY <1>5, <5>1
      <4> QED BY <4>2, <4>3 DEF CallOK, OfInterrupts
    <3> QED BY <3>1, <3>2
  <2> QED BY <1>4, <1>5, <1>6, <2>2 DEF Nested, n
<1>9. CASE PageFaultBegins(c)
  <2> HIDE DEF n
  <2>1. /\ n \in 1 .. 5 /\ Top = calls[n] /\ CallOK(n) /\ calls[n].does # "out"
        /\ calls[n].who \in {"sys_printf", "page_fault_handler"}
    BY <1>1, <1>9 DEF PageFaultBegins
  <2>2. n <= 2
    <3>1. CASE calls[n].who = "sys_printf"
      BY <2>1, <3>1 DEF CallOK, OfProcess
    <3>2. CASE calls[n].who = "page_fault_handler" /\ ~OwnFault
      <4>1. n <= 3
        BY <2>1, <3>2 DEF CallOK, OfPageFault
      <4>2. n # 3
        <5> SUFFICES ASSUME n = 3 PROVE FALSE
          OBVIOUS
        <5>1. CallOK(2) /\ CallOK(3) /\ calls[3].who = "page_fault_handler"
          BY <1>1, <3>2
        <5>2. calls[2].who # "page_fault_handler"
          <6>1. Len(calls) = 3
            BY DEF n
          <6> QED BY <3>2, <6>1 DEF OwnFault
        <5>3. calls[2].who = "sys_printf"
          BY <5>1, <5>2 DEF CallOK, OfPageFault
        <5> QED BY <5>1, <5>3 DEF CallOK, OfProcess
      <4> QED BY <2>1, <4>1, <4>2
    <3> QED BY <1>9, <2>1, <3>1, <3>2 DEF PageFaultBegins
  <2>3. \A k \in 1 .. n : calls[k].who \notin OfInterrupts
    <3> SUFFICES ASSUME NEW k \in 1 .. n, calls[k].who \in OfInterrupts PROVE FALSE
      OBVIOUS
    <3>1. CallOK(k)
      BY <1>1
    <3>2. k # n
      BY <2>1 DEF OfInterrupts
    <3>3. k = n - 1 /\ calls[k + 1].who = "pit_handler"
      BY <3>1, <3>2 DEF CallOK, OfInterrupts, n
    <3>4. k + 1 = n
      BY <2>1, <3>3
    <3> QED BY <2>1, <3>3, <3>4
  <2>4. \A k \in 1 .. n + 1 : CallOK(k)'
    <3> TAKE k \in 1 .. n + 1
    <3>1. CASE k = n + 1
      <4>1. /\ calls'[k] = c /\ c.who = "page_fault_handler" /\ k <= 3 /\ k - 1 = n
            /\ calls'[k - 1] = calls[n]
        <5>1. k - 1 = n /\ k <= 3
          BY <2>1, <2>2, <3>1
        <5>2. n \in 1 .. n
          BY <2>1
        <5>3. calls'[k] = c /\ calls'[n] = calls[n]
          BY <1>5, <3>1, <5>2
        <5> QED BY <1>9, <5>1, <5>3 DEF PageFaultBegins
      <4> QED BY <2>1, <4>1 DEF CallOK, OfProcess, OfPageFault, OfInterrupts
    <3>2. CASE k # n + 1
      <4>1. k \in 1 .. n
        BY <1>1, <3>2
      <4>2. CallOK(k) /\ calls'[k] = calls[k] /\ calls[k].who \notin OfInterrupts
        BY <1>1, <1>5, <2>3, <4>1
      <4>3. k > 1 => calls'[k - 1] = calls[k - 1]
        <5>1. k > 1 => k - 1 \in 1 .. n
          BY <1>1, <4>1
        <5> QED BY <1>5, <5>1
      <4> QED BY <4>2, <4>3 DEF CallOK, OfInterrupts
    <3> QED BY <3>1, <3>2
  <2> QED BY <1>4, <1>5, <1>6, <2>4 DEF Nested, n
<1> QED BY <1>7, <1>8, <1>9

-----------------------------------------------------------------------------
(* A call has one byte to write or none.                                   *)
LEMMA OutBits == \A k : OutAt(k) \in {0, 1} /\ OutAt(k)' \in {0, 1}
BY DEF OutAt

(* No byte more is under way when no more is held and no other call has    *)
(* one to write.                                                           *)
LEMMA NoByteMore ==
  ASSUME BytesFit, UNCHANGED configured, uart.held \in Nat, uart'.held \in Nat,
         uart'.held <= uart.held,
         \A k \in 1 .. 5 : OutAt(k)' = 1 => OutAt(k) = 1
  PROVE  BytesFit'
PROOF
<1>1. \A k \in 1 .. 5 : /\ OutAt(k) \in 0 .. 1 /\ OutAt(k)' \in 0 .. 1
                       /\ OutAt(k)' <= OutAt(k)
  BY OutBits
<1>2. BytesUnderWay' <= BytesUnderWay /\ BytesUnderWay \in Nat /\ BytesUnderWay' \in Nat
  BY <1>1 DEF BytesUnderWay
<1> QED BY <1>2 DEF BytesFit

(* With nothing held, there is room for what three calls have to write.    *)
LEMMA NothingHeld ==
  ASSUME uart'.held = 0, Nested'
  PROVE  BytesFit'
PROOF
<1>1. (Nested => BytesUnderWay \in 0 .. 3)'
  BY FewBytes, PTL
<1> QED BY <1>1 DEF BytesFit

(* A call that executes is one of serial_write's, once serial_init is      *)
(* done.                                                                   *)
LEMMA Executing ==
  ASSUME ConsoleIInv, calls # <<>>
  PROVE  /\ configured = 6 /\ ~uart.dlab /\ uart.fifo /\ uart.held \in Nat
         /\ Len(calls) \in 1 .. 5 /\ Top = calls[Len(calls)]
         /\ DOMAIN Top = Fields /\ Plain(Top)
PROOF
<1>1. Len(calls) \in 0 .. 5 /\ Len(calls) > 0 /\ Top = calls[Len(calls)]
  BY FewCalls DEF ConsoleIInv
<1>2. CallOK(Len(calls))
  BY <1>1 DEF ConsoleIInv, Nested
<1>3. configured = 6
  BY DEF ConsoleIInv, UartOK
<1> QED BY <1>1, <1>2, <1>3 DEF ConsoleIInv, UartOK, CallOK

(* What the call that executes does next does not disturb the invariant,   *)
(* unless it is to write a byte.                                           *)
LEMMA GoesOn ==
  ASSUME ConsoleIInv, calls # <<>>, UNCHANGED <<configured, uart, irr, isr>>,
         NEW c, DOMAIN c = Fields, Plain(c), Become(c), c.does = "out" => Top.does = "out",
         c.who = Top.who \/ (Top.who = "page_fault_handler" /\ c.who \in OfPageFault)
  PROVE  ConsoleIInv'
PROOF
<1>1. /\ Nested'
      /\ Len(calls') = Len(calls)
      /\ calls'[Len(calls)] = c
      /\ \A k \in 1 .. Len(calls) : k # Len(calls) => calls'[k] = calls[k]
  BY BecomeKeeps DEF ConsoleIInv
<1>2. Top = calls[Len(calls)] /\ configured = 6 /\ uart.held \in Nat
  BY Executing
<1>3. \A k \in 1 .. 5 : OutAt(k)' = 1 => OutAt(k) = 1
  BY <1>1, <1>2 DEF OutAt
<1>4. BytesFit'
  BY <1>2, <1>3, NoByteMore DEF ConsoleIInv
<1>5. UartOK'
  BY <1>2 DEF ConsoleIInv, UartOK
<1> QED BY <1>1, <1>4, <1>5 DEF ConsoleIInv, PicTypeOK

(* The next piece of a line does not begin with a byte, nor, when the line *)
(* is plain, with a length to be found.                                    *)
LEMMA NextPieceIs ==
  ASSUME NEW c, DOMAIN c = Fields, Plain(c), c.left # <<>>
  PROVE  /\ DOMAIN NextPiece(c) = Fields
         /\ Plain(NextPiece(c))
         /\ NextPiece(c).who = c.who
         /\ NextPiece(c).does # "out"
PROOF
<1> DEFINE t == Tail(c.left)
<1>1. /\ DOMAIN NextPiece(c) = Fields /\ NextPiece(c).who = c.who
      /\ NextPiece(c).left = t /\ NextPiece(c).does = Begins(t)
  BY DEF NextPiece, Fields
<1>2. c.left \in Seq(Nat) => t \in Seq(Nat) /\ Begins(t) # "strlen"
  <2> SUFFICES ASSUME c.left \in Seq(Nat) PROVE t \in Seq(Nat) /\ Begins(t) # "strlen"
    OBVIOUS
  <2>1. t \in Seq(Nat)
    BY HeadTailProperties
  <2> HIDE DEF t
  <2>2. t # <<>> => Head(t) \in Nat
    BY <2>1, HeadTailProperties
  <2> QED BY <2>1, <2>2 DEF Begins, Unknown
<1>3. Begins(t) # "out"
  BY DEF Begins
<1> HIDE DEF t
<1> QED BY <1>1, <1>2, <1>3 DEF Plain

(* serial_write_byte asks for the status: it writes when nothing is held.  *)
LEMMA PollKeeps == ConsoleIInv /\ Poll => ConsoleIInv'
PROOF
<1> SUFFICES ASSUME ConsoleIInv, Poll PROVE ConsoleIInv'
  OBVIOUS
<1>1. /\ calls # <<>> /\ Top.left # <<>> /\ Top.does = "poll"
      /\ UNCHANGED <<configured, uart, irr, isr>>
  BY DEF Poll, Executes
<1>2. /\ configured = 6 /\ uart.held \in Nat
      /\ DOMAIN Top = Fields /\ Plain(Top)
  BY <1>1, Executing
<1>3. CASE Empty
  <2> DEFINE c == [Top EXCEPT !.does = "out"]
  <2>1. Become(c)
    BY <1>3 DEF Poll
  <2>2. DOMAIN c = Fields /\ c.who = Top.who /\ Plain(c)
    BY <1>1, <1>2 DEF Fields, Plain
  <2> HIDE DEF c
  <2>3. Nested' /\ Len(calls') = Len(calls)
    BY <1>1, <2>1, <2>2, BecomeKeeps DEF ConsoleIInv
  <2>4. BytesFit'
    BY <1>1, <1>3, <2>3, NothingHeld DEF Empty
  <2>5. UartOK'
    BY <1>1, <1>2 DEF ConsoleIInv, UartOK
  <2> QED BY <1>1, <2>3, <2>4, <2>5 DEF ConsoleIInv, PicTypeOK
<1>4. CASE ~Empty /\ LastAttempt(Top)
  <2>1. Become(NextPiece(Top))
    BY <1>4 DEF Poll
  <2> QED BY <1>1, <1>2, <2>1, NextPieceIs, GoesOn
<1>5. CASE ~Empty /\ ~LastAttempt(Top)
  <2> DEFINE c == [Top EXCEPT !.attempts = @ + 1]
  <2>1. Become(c)
    BY <1>5 DEF Poll
  <2>2. DOMAIN c = Fields /\ c.who = Top.who /\ c.does = Top.does /\ Plain(c)
    BY <1>2 DEF Fields, Plain
  <2> HIDE DEF c
  <2> QED BY <1>1, <2>1, <2>2, GoesOn
<1> QED BY <1>3, <1>4, <1>5

(* It waits after the last byte, or goes on with the next piece.           *)
LEMMA DrainKeeps == ConsoleIInv /\ Drain => ConsoleIInv'
PROOF
<1> SUFFICES ASSUME ConsoleIInv, Drain PROVE ConsoleIInv'
  OBVIOUS
<1>1. /\ calls # <<>> /\ Top.left # <<>> /\ Top.does = "drain"
      /\ UNCHANGED <<configured, uart, irr, isr>>
  BY DEF Drain, Executes
<1>2. DOMAIN Top = Fields /\ Plain(Top)
  BY <1>1, Executing
<1>3. PICK c \in {[Top EXCEPT !.attempts = @ + 1], [Top EXCEPT !.left = <<>>], NextPiece(Top)} :
        Become(c)
  BY DEF Drain
<1>4. DOMAIN c = Fields /\ c.who = Top.who /\ c.does # "out" /\ Plain(c)
  <2>1. CASE c = [Top EXCEPT !.attempts = @ + 1]
    BY <1>1, <1>2, <2>1 DEF Fields, Plain
  <2>2. CASE c = [Top EXCEPT !.left = <<>>]
    <3>1. <<>> \in Seq(Nat)
      OBVIOUS
    <3> QED BY <1>1, <1>2, <2>2, <3>1 DEF Fields, Plain
  <2>3. CASE c = NextPiece(Top)
    BY <1>1, <1>2, <2>3, NextPieceIs
  <2> QED BY <1>3, <2>1, <2>2, <2>3
<1> QED BY <1>1, <1>3, <1>4, GoesOn

(* What a call is when it begins.                                          *)
LEMMA CallIs ==
  ASSUME NEW who, NEW pieces, NEW does
  PROVE  /\ DOMAIN Call(who, pieces, does) = Fields
         /\ Call(who, pieces, does).who = who
         /\ Call(who, pieces, does).left = pieces
         /\ Call(who, pieces, does).does = does
         /\ (/\ pieces = <<>> => does # "out"
             /\ who # "sys_printf" => pieces \in Seq(Nat) /\ does # "strlen")
            => Plain(Call(who, pieces, does))
BY DEF Call, Fields, Plain

(* The kernel knows the length of what it says.                            *)
LEMMA KernelLineIs == KernelLine \in Seq(Nat) /\ InitLine \in Seq(Nat) /\ InitLine # <<>>
PROOF
<1> DEFINE a == <<Long>>
           b == [i \in 1 .. Text |-> 1]
           c == <<1>>
           e == <<>>
<1>1. a \in Seq(Nat) /\ c \in Seq(Nat) /\ e \in Seq(Nat)
      /\ InitLine \in Seq(Nat) /\ InitLine # <<>>
  BY ConsoleAssumption DEF InitLine
<1>2. b \in Seq(Nat)
  BY ConsoleAssumption, SeqDef
<1>3. KernelLine = ((a \o b) \o e) \o c
  BY DEF KernelLine, log_write
<1> HIDE DEF a, b, c, e
<1>4. a \o b \in Seq(Nat)
  BY <1>1, <1>2, ConcatProperties
<1>5. (a \o b) \o e \in Seq(Nat)
  BY <1>1, <1>4, ConcatProperties
<1>6. ((a \o b) \o e) \o c \in Seq(Nat)
  BY <1>1, <1>5, ConcatProperties
<1> QED BY <1>1, <1>3, <1>6

(* A page fault cuts a line that has no byte under way.                    *)
LEMMA PageFaultKeeps ==
  ASSUME ConsoleIInv, UNCHANGED <<configured, uart, irr, isr>>,
         calls' = Append(calls, Call("page_fault_handler", KernelLine, "poll")),
         PageFaultBegins(Call("page_fault_handler", KernelLine, "poll"))
  PROVE  ConsoleIInv'
PROOF
<1> DEFINE c == Call("page_fault_handler", KernelLine, "poll")
<1>1. DOMAIN c = Fields /\ c.does = "poll" /\ Plain(c)
  BY CallIs, KernelLineIs
<1>2. calls' = Append(calls, c) /\ PageFaultBegins(c)
  OBVIOUS
<1> HIDE DEF c
<1>3. /\ Nested'
      /\ Len(calls') = Len(calls) + 1
      /\ calls'[Len(calls) + 1] = c
      /\ \A k \in 1 .. Len(calls) : calls'[k] = calls[k]
  BY <1>1, <1>2, AppendKeeps DEF ConsoleIInv
<1>4. Len(calls) \in 1 .. 5 /\ uart.held \in Nat /\ configured = 6
  BY <1>2, Executing DEF PageFaultBegins
<1>5. \A k \in 1 .. 5 : OutAt(k)' = 1 => OutAt(k) = 1
  BY <1>1, <1>3, <1>4 DEF OutAt
<1>6. BytesFit'
  BY <1>4, <1>5, NoByteMore DEF ConsoleIInv
<1>7. UartOK'
  BY <1>4 DEF ConsoleIInv, UartOK
<1> QED BY <1>3, <1>6, <1>7 DEF ConsoleIInv, PicTypeOK

(* strlen comes to the end of the user's string, or to a page that is not  *)
(* there.                                                                  *)
LEMMA StrlenKeeps == ConsoleIInv /\ Strlen => ConsoleIInv'
PROOF
<1> SUFFICES ASSUME ConsoleIInv, Strlen PROVE ConsoleIInv'
  OBVIOUS
<1>1. calls # <<>> /\ Top.does = "strlen" /\ UNCHANGED <<configured, uart, irr, isr>>
  BY DEF Strlen, Executes
<1>2. DOMAIN Top = Fields /\ Top.who = "sys_printf"
  BY <1>1, Executing DEF Plain
<1>3. ASSUME NEW pieces, NEW does \in {"poll", "drain"},
             Become([Top EXCEPT !.left = pieces, !.does = does])
      PROVE  ConsoleIInv'
  <2> DEFINE c == [Top EXCEPT !.left = pieces, !.does = does]
  <2>1. DOMAIN c = Fields /\ c.who = Top.who /\ c.does # "out" /\ Plain(c)
    BY <1>2 DEF Fields, Plain
  <2>2. Become(c)
    BY <1>3
  <2> HIDE DEF c
  <2> QED BY <1>1, <2>1, <2>2, GoesOn
<1>4. CASE Become([Top EXCEPT !.left = <<Long>> \o Tail(@), !.does = "poll"])
  BY <1>3, <1>4
<1>5. CASE Become([Top EXCEPT !.left = <<0>> \o Tail(@), !.does = "drain"])
  BY <1>3, <1>5
<1>6. CASE calls' = Append(calls, Call("page_fault_handler", KernelLine, "poll"))
  <2>1. PageFaultBegins(Call("page_fault_handler", KernelLine, "poll"))
    BY <1>1, <1>2, CallIs DEF PageFaultBegins
  <2> QED BY <1>1, <1>6, <2>1, PageFaultKeeps
<1> QED BY <1>4, <1>5, <1>6 DEF Strlen

(* page_fault_handler goes on to its last line, or faults itself.          *)
LEMMA FaultDecidesKeeps == ConsoleIInv /\ FaultDecides => ConsoleIInv'
PROOF
<1> SUFFICES ASSUME ConsoleIInv, FaultDecides PROVE ConsoleIInv'
  OBVIOUS
<1>1. /\ calls # <<>> /\ Top.left = <<>> /\ Top.who = "page_fault_handler"
      /\ UNCHANGED <<configured, uart, irr, isr>>
  BY DEF FaultDecides, Finished
<1>2. ASSUME NEW who \in {"mapped", "halting"}, Become(Call(who, KernelLine, "poll"))
      PROVE  ConsoleIInv'
  <2> DEFINE c == Call(who, KernelLine, "poll")
  <2>1. DOMAIN c = Fields /\ c.who \in OfPageFault /\ c.does # "out" /\ Plain(c)
    BY CallIs, KernelLineIs DEF OfPageFault
  <2>2. Become(c)
    BY <1>2
  <2> HIDE DEF c
  <2> QED BY <1>1, <2>1, <2>2, GoesOn
<1>3. CASE ~OwnFault /\ calls' = Append(calls, Call("page_fault_handler", KernelLine, "poll"))
  <2>1. PageFaultBegins(Call("page_fault_handler", KernelLine, "poll"))
    <3>1. Top.does # "out"
      BY <1>1, Executing DEF Plain
    <3> QED BY <1>1, <1>3, <3>1, CallIs DEF PageFaultBegins
  <2> QED BY <1>1, <1>3, <2>1, PageFaultKeeps
<1> QED BY <1>2, <1>3 DEF FaultDecides

(* The byte it writes is held instead of to be written.                    *)
LEMMA OutKeeps == ConsoleIInv /\ Out => ConsoleIInv'
PROOF
<1> SUFFICES ASSUME ConsoleIInv, Out PROVE ConsoleIInv'
  OBVIOUS
<1>1. /\ calls # <<>> /\ Top.does = "out" /\ UNCHANGED <<configured, irr, isr>>
      /\ uart' = Data(uart, 0)
  BY DEF Out, Executes
<1>2. /\ configured = 6 /\ ~uart.dlab /\ uart.fifo /\ uart.held \in Nat
      /\ Len(calls) \in 1 .. 5 /\ Top = calls[Len(calls)]
      /\ DOMAIN Top = Fields /\ Plain(Top)
  BY <1>1, Executing
<1>3. PICK d \in {"drain", "poll"} :
        Become([Top EXCEPT !.i = @ + 1, !.attempts = 0, !.does = d])
  BY DEF Out
<1> DEFINE c == [Top EXCEPT !.i = @ + 1, !.attempts = 0, !.does = d]
<1>4. DOMAIN c = Fields /\ c.who = Top.who /\ c.does = d /\ Plain(c)
  BY <1>2 DEF Fields, Plain
<1>5. Become(c)
  BY <1>3
<1> HIDE DEF c
<1>6. /\ Nested'
      /\ Len(calls') = Len(calls)
      /\ calls'[Len(calls)] = c
      /\ \A k \in 1 .. Len(calls) : k # Len(calls) => calls'[k] = calls[k]
  BY <1>1, <1>4, <1>5, BecomeKeeps DEF ConsoleIInv
<1>7. uart' = [uart EXCEPT !.held = @ + 1] \/ uart' = uart
  BY <1>1, <1>2 DEF Data
<1>8. /\ uart' \in [dlab : BOOLEAN, divisor : Int, fifo : BOOLEAN, held : Nat]
      /\ ~uart'.dlab /\ uart'.fifo
  BY <1>2, <1>7 DEF ConsoleIInv, UartOK
<1>9. Len(calls) \in 1 .. 5 /\ uart.held \in Nat /\ uart'.held \in Nat /\ uart'.held <= uart.held + 1
  BY <1>2, <1>7, <1>8 DEF ConsoleIInv, UartOK
<1>10. BytesFit'
  <2> PICK n \in 1 .. 5 : n = Len(calls)
    BY <1>2
  <2>1. OutAt(n) = 1 /\ OutAt(n)' = 0
    BY <1>1, <1>2, <1>4, <1>6 DEF OutAt
  <2>2. \A k \in 1 .. 5 : k # n => OutAt(k)' = OutAt(k)
    BY <1>2, <1>6 DEF OutAt
  <2>3. uart.held + BytesUnderWay <= 3
    BY <1>2 DEF ConsoleIInv, BytesFit
  <2>4. /\ OutAt(1) \in {0, 1} /\ OutAt(2) \in {0, 1} /\ OutAt(3) \in {0, 1}
        /\ OutAt(4) \in {0, 1} /\ OutAt(5) \in {0, 1}
    BY OutBits
  <2>5. BytesUnderWay \in Nat /\ BytesUnderWay' = BytesUnderWay - 1
    <3>1. CASE n = 1
      BY <2>1, <2>2, <2>4, <3>1 DEF BytesUnderWay
    <3>2. CASE n = 2
      BY <2>1, <2>2, <2>4, <3>2 DEF BytesUnderWay
    <3>3. CASE n = 3
      BY <2>1, <2>2, <2>4, <3>3 DEF BytesUnderWay
    <3>4. CASE n = 4
      BY <2>1, <2>2, <2>4, <3>4 DEF BytesUnderWay
    <3>5. CASE n = 5
      BY <2>1, <2>2, <2>4, <3>5 DEF BytesUnderWay
    <3> QED BY <3>1, <3>2, <3>3, <3>4, <3>5
  <2>6. uart'.held + BytesUnderWay' <= 3
    BY <1>9, <2>3, <2>5
  <2> QED BY <2>6 DEF BytesFit
<1>11. UartOK'
  <2>1. configured' = 6
    BY <1>1, <1>2
  <2> QED BY <1>8, <2>1 DEF UartOK
<1> QED BY <1>1, <1>6, <1>10, <1>11 DEF ConsoleIInv, PicTypeOK

(* A line that is given up leaves no call.                                 *)
LEMMA NoCalls == calls' = <<>> => Nested' /\ \A k : OutAt(k)' = 0
PROOF
<1> SUFFICES ASSUME calls' = <<>> PROVE Nested' /\ \A k : OutAt(k)' = 0
  OBVIOUS
<1>1. Len(calls') = 0 /\ calls' \in Seq({calls'[k] : k \in DOMAIN calls'})
  BY EmptySeq
<1>2. Nested'
  BY <1>1 DEF Nested
<1>3. \A k : OutAt(k)' = 0
  BY <1>1 DEF OutAt
<1> QED BY <1>2, <1>3

(* Back to where the call was made, or to another process.                 *)
LEMMA ReturnKeeps == ConsoleIInv /\ (Return \/ PitHandlerEnds) => ConsoleIInv'
PROOF
<1> SUFFICES ASSUME ConsoleIInv, Return \/ PitHandlerEnds PROVE ConsoleIInv'
  OBVIOUS
<1>1. /\ calls # <<>> /\ UNCHANGED <<configured, uart>>
      /\ \/ Top.who # "pit_handler" /\ UNCHANGED <<irr, isr>> /\ calls' = Front(calls)
         \/ Top.who = "pit_handler" /\ irr' = irr /\ isr' = Acknowledged(isr) /\ calls' = Front(calls)
         \/ calls' = <<>> /\ UNCHANGED <<irr, isr>>
  BY DEF Return, PitHandlerEnds, Finished
<1>2. /\ configured = 6 /\ uart.held \in Nat
      /\ Len(calls) \in 1 .. 5 /\ Top = calls[Len(calls)]
  BY <1>1, Executing
<1>3. PicTypeOK'
  BY <1>1 DEF ConsoleIInv, PicTypeOK, Acknowledged
<1>4. UartOK'
  BY <1>1, <1>2 DEF ConsoleIInv, UartOK
<1>5. CASE calls' = Front(calls)
  <2>1. Keyboard \in isr => Keyboard \in isr'
    <3>1. CASE isr' = Acknowledged(isr) /\ Top.who = "pit_handler"
      <4>1. CallOK(Len(calls))
        <5>1. Len(calls) \in 1 .. Len(calls)
          <6>1. Len(calls) \in 1 .. 5
            BY <1>2
          <6> QED BY <6>1
        <5> QED BY <5>1 DEF ConsoleIInv, Nested
      <4>2. Timer \in isr
        BY <1>2, <3>1, <4>1 DEF CallOK
      <4> QED BY <3>1, <4>2 DEF Acknowledged, Highest, Timer, Keyboard
    <3>2. CASE UNCHANGED isr
      BY <3>2
    <3> QED BY <1>1, <3>1, <3>2
  <2>2. /\ Nested'
        /\ Len(calls') = Len(calls) - 1
        /\ \A k \in 1 .. Len(calls') : calls'[k] = calls[k]
    BY <1>1, <1>5, <2>1, FrontKeeps DEF ConsoleIInv
  <2>3. \A k \in 1 .. 5 : OutAt(k)' = 1 => OutAt(k) = 1
    BY <1>2, <2>2 DEF OutAt
  <2>4. BytesFit'
    BY <1>1, <1>2, <2>3, NoByteMore DEF ConsoleIInv
  <2> QED BY <1>3, <1>4, <2>2, <2>4 DEF ConsoleIInv
<1>6. CASE calls' = <<>>
  <2>1. BytesFit'
    BY <1>1, <1>2, <1>6, NoCalls, NoByteMore DEF ConsoleIInv
  <2> QED BY <1>3, <1>4, <1>6, <2>1, NoCalls DEF ConsoleIInv
<1> QED BY <1>1, <1>5, <1>6

(* A first line begins, log_init's or that of a process.                   *)
LEMMA FirstLine ==
  ASSUME NEW c, calls' = <<c>>, DOMAIN c = Fields, Plain(c), c.who \in OfProcess \union OfPageFault
  PROVE  Nested' /\ \A k : OutAt(k)' = 1 => k = 1 /\ c.does = "out"
PROOF
<1>1. calls' \in Seq({c}) /\ Len(calls') = 1 /\ calls'[1] = c
  OBVIOUS
<1>2. calls' \in Seq({calls'[k] : k \in DOMAIN calls'})
  BY <1>1, OwnElements
<1>3. \A k \in 1 .. Len(calls') : CallOK(k)'
  BY <1>1 DEF CallOK, OfProcess, OfPageFault, OfInterrupts
<1>4. Nested'
  BY <1>2, <1>3 DEF Nested
<1>5. \A k : OutAt(k)' = 1 => k = 1 /\ c.does = "out"
  BY <1>1 DEF OutAt
<1> QED BY <1>4, <1>5

(* serial_init, a byte at a time.                                          *)
LEMMA ConfigureKeeps == ConsoleIInv /\ Configure => ConsoleIInv'
PROOF
<1> SUFFICES ASSUME ConsoleIInv, Configure PROVE ConsoleIInv'
  OBVIOUS
<1> DEFINE U == [dlab : BOOLEAN, divisor : Int, fifo : BOOLEAN, held : Nat]
<1>1. /\ configured \in 0 .. 5 /\ configured' = configured + 1 /\ UNCHANGED <<irr, isr>>
      /\ calls' = IF configured' = 6 THEN <<Call("log_init", InitLine, "out")>> ELSE calls
  BY SerialInitIs DEF Configure, Configured, ConsoleIInv, UartOK
<1>2. uart \in U /\ calls = <<>>
  BY <1>1 DEF ConsoleIInv, UartOK
<1> DEFINE port == serial_init[configured + 1][1]
           byte == serial_init[configured + 1][2]
<1>3. /\ port = "line" => uart' = [uart EXCEPT !.dlab = byte >= 128]
      /\ port = "data" => uart' = Data(uart, byte)
      /\ port = "fifo" => uart' = [uart EXCEPT !.fifo = byte % 2 = 1, !.held = 0]
      /\ port = "modem" => uart' = uart
  <2> DEFINE p == port
  <2>1. uart' = CASE p = "line" -> [uart EXCEPT !.dlab = byte >= 128]
                [] p = "data" -> Data(uart, byte)
                [] p = "fifo" -> [uart EXCEPT !.fifo = byte % 2 = 1, !.held = 0]
                [] p = "modem" -> uart
    BY DEF Configure
  <2> DEFINE l == [uart EXCEPT !.dlab = byte >= 128]
             f == [uart EXCEPT !.fifo = byte % 2 = 1, !.held = 0]
  <2>2. uart' = CASE p = "line" -> l [] p = "data" -> Data(uart, byte)
                [] p = "fifo" -> f [] p = "modem" -> uart
    BY <2>1
  <2> HIDE DEF p, l, f
  <2>3. /\ p = "line" => uart' = l
        /\ p = "data" => uart' = Data(uart, byte)
        /\ p = "fifo" => uart' = f
        /\ p = "modem" => uart' = uart
    BY <2>2
  <2> QED BY <2>3 DEF p, l, f
<1> HIDE DEF port, byte
<1>4. configured # 5 => /\ Nested' /\ UNCHANGED calls
  <2> SUFFICES ASSUME configured # 5 PROVE Nested' /\ UNCHANGED calls
    OBVIOUS
  <2>1. UNCHANGED calls
    BY <1>1
  <2> QED BY <1>2, <2>1, NoCalls
<1>5. ASSUME configured # 5, uart' \in U, configured >= 3 => ~uart'.dlab,
             configured = 4 => uart'.fifo /\ uart'.held = 0
      PROVE  ConsoleIInv'
  <2>1. UartOK'
    BY <1>1, <1>2, <1>4, <1>5 DEF UartOK, ConsoleIInv
  <2>2. configured' # 6
    BY <1>1, <1>5
  <2> QED BY <1>1, <1>4, <1>5, <2>1, <2>2 DEF ConsoleIInv, BytesFit, PicTypeOK
<1>6. CASE configured = 0 \/ configured = 3
  <2>1. port = "line" /\ (configured = 3 => byte = 3)
    BY <1>6, SerialInitIs DEF port, byte
  <2> DEFINE open == byte >= 128
  <2>2. uart' = [uart EXCEPT !.dlab = open]
    BY <1>3, <2>1
  <2>3. open \in BOOLEAN /\ (configured = 3 => ~open)
    BY <2>1
  <2> HIDE DEF open
  <2>4. uart' \in U /\ uart'.dlab = open
    BY <1>2, <2>2, <2>3
  <2>5. configured = 3 => ~uart'.dlab
    BY <2>3, <2>4
  <2> QED BY <1>5, <1>6, <2>4, <2>5
<1>7. CASE configured = 1 \/ configured = 2
  <2>1. port = "data" /\ byte \in Int
    BY <1>7, SerialInitIs DEF port, byte
  <2>2. uart' = Data(uart, byte)
    BY <1>3, <2>1
  <2>3. uart' \in U
    BY <1>2, <2>1, <2>2 DEF Data
  <2> QED BY <1>5, <1>7, <2>3
<1>8. CASE configured = 4
  <2>1. port = "fifo" /\ byte = 199
    BY <1>8, SerialInitIs DEF port, byte
  <2> DEFINE enabled == byte % 2 = 1
  <2>2. uart' = [uart EXCEPT !.fifo = enabled, !.held = 0]
    BY <1>3, <2>1
  <2>3. enabled
    BY <2>1
  <2> HIDE DEF enabled
  <2>4. uart' = [uart EXCEPT !.fifo = TRUE, !.held = 0]
    BY <2>2, <2>3
  <2>5. uart' \in U /\ uart'.held = 0 /\ uart'.fifo /\ uart'.dlab = uart.dlab
    BY <1>2, <2>4
  <2>6. ~uart.dlab
    BY <1>8 DEF ConsoleIInv, UartOK
  <2>7. ~uart'.dlab
    BY <1>2, <2>5, <2>6
  <2> QED BY <1>5, <1>8, <2>5, <2>7
<1>9. CASE configured = 5
  <2>1. port = "modem"
    BY <1>9, SerialInitIs DEF port
  <2>2. uart' = uart /\ configured' = 6
    BY <1>1, <1>3, <1>9, <2>1
  <2>3. calls' = <<Call("log_init", InitLine, "out")>>
    BY <1>1, <2>2
  <2>4. Nested'
    BY <2>3, CallIs, KernelLineIs, FirstLine DEF OfProcess
  <2>5. uart.held = 0
    BY <1>9 DEF ConsoleIInv, UartOK
  <2>6. BytesFit'
    BY <2>2, <2>4, <2>5, NothingHeld
  <2>7. UartOK'
    BY <1>2, <1>9, <2>2 DEF UartOK, ConsoleIInv
  <2> QED BY <1>1, <2>4, <2>6, <2>7 DEF ConsoleIInv, PicTypeOK
<1> QED BY <1>1, <1>6, <1>7, <1>8, <1>9

(* A line of a process, a tick's, that of an interrupt without a handler.  *)
LEMMA BeginKeeps ==
  ConsoleIInv /\ (Process \/ PitHandler \/ InterruptHandler) => ConsoleIInv'
PROOF
<1> SUFFICES ASSUME ConsoleIInv, Process \/ PitHandler \/ InterruptHandler PROVE ConsoleIInv'
  OBVIOUS
<1>1. configured = 6 /\ UNCHANGED <<configured, uart>>
  BY SerialInitIs DEF Process, PitHandler, InterruptHandler, Accept, Running, Configured
<1>2. UartOK'
  BY <1>1 DEF ConsoleIInv, UartOK
<1>3. uart.held \in Nat
  BY DEF ConsoleIInv, UartOK
<1>4. CASE Process
  <2>1. \E who, pieces :
          /\ who \in OfProcess \union OfPageFault
          /\ who = "sys_printf" \/ pieces \in Seq(Nat)
          /\ calls' = <<Call(who, pieces, "poll")>>
    BY <1>4, KernelLineIs DEF Process, OfProcess, OfPageFault
  <2>2. Nested' /\ \A k : OutAt(k)' # 1
    <3> PICK who, pieces :
          /\ who \in OfProcess \union OfPageFault
          /\ who = "sys_printf" \/ pieces \in Seq(Nat)
          /\ calls' = <<Call(who, pieces, "poll")>>
      BY <2>1
    <3> DEFINE c == Call(who, pieces, "poll")
    <3>1. DOMAIN c = Fields /\ c.who = who /\ c.does = "poll" /\ Plain(c)
      BY CallIs
    <3>2. calls' = <<c>>
      OBVIOUS
    <3> HIDE DEF c
    <3> QED BY <3>1, <3>2, FirstLine
  <2>3. UNCHANGED <<irr, isr>>
    BY <1>4 DEF Process
  <2>4. BytesFit'
    BY <1>1, <1>3, <2>2, NoByteMore DEF ConsoleIInv
  <2> QED BY <1>2, <2>2, <2>3, <2>4 DEF ConsoleIInv, PicTypeOK
<1>5. CASE PitHandler \/ InterruptHandler
  <2>1. \E q \in Lines : \E who :
          /\ (q = Timer /\ who = "pit_handler") \/ (q = Keyboard /\ who = "interrupt_handler")
          /\ Accept(q)
          /\ calls' = Append(calls, Call(who, KernelLine, "poll"))
    <3>1. CASE PitHandler
      BY <3>1 DEF PitHandler, Lines
    <3>2. CASE InterruptHandler
      BY <3>2 DEF InterruptHandler, Lines
    <3> QED BY <1>5, <3>1, <3>2
  <2> PICK q \in Lines : \E who :
          /\ (q = Timer /\ who = "pit_handler") \/ (q = Keyboard /\ who = "interrupt_handler")
          /\ Accept(q)
          /\ calls' = Append(calls, Call(who, KernelLine, "poll"))
    BY <2>1
  <2> PICK who :
          /\ (q = Timer /\ who = "pit_handler") \/ (q = Keyboard /\ who = "interrupt_handler")
          /\ Accept(q)
          /\ calls' = Append(calls, Call(who, KernelLine, "poll"))
    OBVIOUS
  <2> DEFINE c == Call(who, KernelLine, "poll")
  <2>2. DOMAIN c = Fields /\ c.who = who /\ c.does = "poll" /\ Plain(c)
    BY CallIs, KernelLineIs
  <2>3. calls' = Append(calls, c)
    OBVIOUS
  <2> HIDE DEF c
  <2>4. /\ irr' = irr \ {q} /\ isr' = isr \union {q}
        /\ \A p \in isr : q < p
    BY DEF Accept, Deliverable
  <2>5. Timer \notin isr /\ q \notin isr
    BY <2>4 DEF Lines, Timer, Keyboard
  <2>6. /\ Nested'
        /\ Len(calls') = Len(calls) + 1
        /\ calls'[Len(calls) + 1] = c
        /\ \A k \in 1 .. Len(calls) : calls'[k] = calls[k]
    <3>1. TickBegins(c) \/ KeyBegins(c)
      BY <2>2, <2>4, <2>5 DEF TickBegins, KeyBegins
    <3> QED BY <2>2, <2>3, <3>1, AppendKeeps DEF ConsoleIInv
  <2>7. Len(calls) \in 0 .. 5
    BY FewCalls DEF ConsoleIInv
  <2>8. \A k \in 1 .. 5 : OutAt(k)' = 1 => OutAt(k) = 1
    BY <2>2, <2>6, <2>7 DEF OutAt
  <2>9. BytesFit'
    BY <1>1, <1>3, <2>8, NoByteMore DEF ConsoleIInv
  <2>10. PicTypeOK'
    BY <2>4 DEF ConsoleIInv, PicTypeOK
  <2> QED BY <1>2, <2>6, <2>9, <2>10 DEF ConsoleIInv
<1> QED BY <1>4, <1>5

(* The UART sends a byte, a device raises its line, or nothing happens.    *)
LEMMA OutsideKeeps ==
  ConsoleIInv /\ (Send \/ (\E q \in Lines : RaiseLine(q)) \/ UNCHANGED vars) => ConsoleIInv'
PROOF
<1> SUFFICES ASSUME ConsoleIInv,
                    Send \/ (\E q \in Lines : RaiseLine(q)) \/ UNCHANGED vars
             PROVE  ConsoleIInv'
  OBVIOUS
<1>1. /\ UNCHANGED <<configured, calls, isr>>
      /\ \/ uart' = [uart EXCEPT !.held = @ - 1] /\ uart.held > 0
         \/ uart' = uart
  BY DEF Send, RaiseLine, Raise, vars
<1>2. /\ uart' \in [dlab : BOOLEAN, divisor : Int, fifo : BOOLEAN, held : Nat]
      /\ uart'.dlab = uart.dlab /\ uart'.fifo = uart.fifo
  BY <1>1 DEF ConsoleIInv, UartOK
<1>3. uart.held \in Nat /\ uart'.held \in Nat /\ uart'.held <= uart.held
  BY <1>1, <1>2 DEF ConsoleIInv, UartOK
<1>4. Nested' /\ \A k : OutAt(k)' = OutAt(k)
  BY <1>1 DEF ConsoleIInv, Nested, CallOK, OutAt
<1>5. BytesFit'
  BY <1>1, <1>3, <1>4, NoByteMore DEF ConsoleIInv
<1>6. UartOK'
  <2>1. configured = 5 => uart'.held = 0
    BY <1>3 DEF ConsoleIInv, UartOK
  <2> QED BY <1>1, <1>2, <2>1 DEF ConsoleIInv, UartOK
<1>7. PicTypeOK'
  BY DEF ConsoleIInv, PicTypeOK, Send, RaiseLine, Raise, vars
<1> QED BY <1>4, <1>5, <1>6, <1>7 DEF ConsoleIInv

-----------------------------------------------------------------------------
(* Whatever the UART does and whenever interrupts come, log calls nest in  *)
(* the one order, at most five deep; at most three of them have a byte to  *)
(* write, and with those held they are no more than the FIFO holds.        *)
THEOREM LogInvariance == Spec => []ConsoleIInv
PROOF
<1>1. Init => ConsoleIInv
  <2> SUFFICES ASSUME Init PROVE ConsoleIInv
    OBVIOUS
  <2>1. calls = <<>> /\ Len(calls) = 0 /\ calls \in Seq({calls[k] : k \in DOMAIN calls})
    BY EmptySeq DEF Init
  <2>2. Nested
    BY <2>1 DEF Nested
  <2>3. UartOK
    BY DEF Init, UartOK
  <2>4. BytesFit
    BY DEF Init, BytesFit
  <2> QED BY <2>2, <2>3, <2>4 DEF ConsoleIInv, Init, PicInit, PicTypeOK
<1>2. ConsoleIInv /\ [Next]_vars => ConsoleIInv'
  BY ConfigureKeeps, StrlenKeeps, PollKeeps, OutKeeps, DrainKeeps, FaultDecidesKeeps,
     ReturnKeeps, BeginKeeps, OutsideKeeps
     DEF Next, Kernel
<1> QED BY <1>1, <1>2, PTL DEF Spec

(* serial_write_byte never gives the UART a byte it cannot take, though    *)
(* the status it asked for may be old when it writes: lines that cut it in *)
(* between, or were given up half-way, leave room for its byte.            *)
THEOREM NoByteIsLost == Spec => []EveryByteTaken
PROOF
<1>1. ConsoleIInv => EveryByteTaken
  <2> SUFFICES ASSUME ConsoleIInv, Executes("out") PROVE Takes
    BY DEF EveryByteTaken
  <2>1. calls # <<>> /\ Top.does = "out"
    BY DEF Executes
  <2>2. /\ configured = 6 /\ ~uart.dlab /\ uart.fifo /\ uart.held \in Nat
        /\ Len(calls) \in 1 .. 5 /\ Top = calls[Len(calls)]
    BY <2>1, Executing
  <2> PICK n \in 1 .. 5 : n = Len(calls)
    BY <2>2
  <2>3. OutAt(n) = 1
    BY <2>1, <2>2 DEF OutAt
  <2>4. uart.held + BytesUnderWay <= 3
    BY <2>2 DEF ConsoleIInv, BytesFit
  <2>5. /\ OutAt(1) \in {0, 1} /\ OutAt(2) \in {0, 1} /\ OutAt(3) \in {0, 1}
        /\ OutAt(4) \in {0, 1} /\ OutAt(5) \in {0, 1}
    BY OutBits
  <2>6. BytesUnderWay \in Nat /\ BytesUnderWay >= 1
    <3>1. n = 1 \/ n = 2 \/ n = 3 \/ n = 4 \/ n = 5
      OBVIOUS
    <3>2. OutAt(1) = 1 \/ OutAt(2) = 1 \/ OutAt(3) = 1 \/ OutAt(4) = 1 \/ OutAt(5) = 1
      BY <2>3, <3>1
    <3> QED BY <2>5, <3>2 DEF BytesUnderWay
  <2>7. uart.held < FifoSize
    BY <2>2, <2>4, <2>6, ConsoleAssumption
  <2> QED BY <2>2, <2>7 DEF Takes, Room
<1> QED BY <1>1, LogInvariance, PTL

(* Nothing is written into the line of a tick: pit_handler does not        *)
(* acknowledge, so it is not interrupted, until it has logged.             *)
THEOREM TickLinesWhole == Spec => []TickInOnePiece
PROOF
<1>1. ConsoleIInv => TickInOnePiece
  <2> SUFFICES ASSUME ConsoleIInv, NEW k \in DOMAIN calls, calls[k].who = "pit_handler"
               PROVE  k = Len(calls)
    BY DEF TickInOnePiece
  <2>1. CallOK(k)
    BY FewCalls DEF ConsoleIInv, Nested
  <2> QED BY <2>1 DEF CallOK
<1> QED BY <1>1, LogInvariance, PTL

=============================================================================
