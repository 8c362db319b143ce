----------------------------- MODULE Interrupts -----------------------------
(***************************************************************************)
(* How the kernel is entered and left, instruction by instruction: what    *)
(* interrupt_init tells the two 8259s, the IDT and the PIT, and then the   *)
(* entry code of arch/x86/interrupt_asm.s, which builds on the kernel      *)
(* stack the arguments of interrupt_handler and takes them down again, and *)
(* switch_to_process.  Every gate is a trap gate, so after sti the next    *)
(* interrupt can come between any two instructions.                        *)
(*                                                                         *)
(* A word of memory is a triple: a kind and two numbers.  The kernel stack *)
(* is the sequence of its words, its last one on top, and esp its length.  *)
(* Words of registers that are not followed are left out.                  *)
(***************************************************************************)
EXTENDS Pic, SequencesExt

CONSTANTS
  LastProcess,  (* how many processes are ever entered                     *)
  LateTicks,    (* how many more come while a tick is being handled        *)
  Faults,       (* the exceptions user code raises                         *)
  N             (* how many general registers are followed, of the seven   *)

(* Exceptions 21 and 29 belong to extensions (CET, SEV-ES) which must be   *)
(* enabled in cr4 or by a hypervisor first, and the kernel does not.       *)
ASSUME InterruptsAssumption ==
  /\ LastProcess \in Nat
  /\ LateTicks \in Nat
  /\ Faults \subseteq (0..31) \ {21, 29}
  /\ N \in 0..7

VARIABLES
  setup,        (* how much of interrupt_init has been executed            *)
  pic1, pic2,   (* the two 8259s: the word each expects next (0: none),    *)
                (* its vector base, the lines it masks                     *)
  idt,          (* the gates present, by vector                            *)
  pit,          (* channel 0 of the timer                                  *)
  eip, reg,     (* the instruction the CPU executes next, its registers    *)
  kstack,       (* the kernel stack it is on                               *)
  current,      (* the process last entered                                *)
  saved,        (* history: for each interrupt being handled, its vector   *)
                (* and the CPU as it was                                   *)
  late          (* history: ticks raised since one is being handled        *)

chips == <<setup, pic1, pic2, idt, pit>>
cpu   == <<eip, reg, kstack, current, saved, late>>
vars  == <<chips, cpu, irr, isr>>

-----------------------------------------------------------------------------
(* interrupt_init: pic_init, idt_init, pit_init.                           *)

PIC1_ICW1 == 17
PIC1_ICW2 == 32
PIC2_ICW1 == PIC1_ICW2

pic_mask(mask1, mask2) == <<<<"PIC1_B", mask1>>, <<"PIC2_B", mask2>>>>

IcwWrites ==
  <<<<"PIC1_A", PIC1_ICW1>>, <<"PIC2_A", PIC2_ICW1>>,
    <<"PIC1_B", PIC1_ICW2>>, <<"PIC2_B", 40>>,
    <<"PIC1_B", 4>>,         <<"PIC2_B", 2>>,
    <<"PIC1_B", 5>>,         <<"PIC2_B", 1>>>>

(* Mutant: the lines are masked before the chips are initialised.          *)
pic_init_MaskFirst == pic_mask(236, 255) \o IcwWrites

pic_init == IcwWrites \o pic_mask(236, 255)

PIT_FREQUENCY == 1193182
Interval      == 10

Divider(interval) == (PIT_FREQUENCY \div (1000 \div interval)) % 65536

(* Mutant: the high byte is written first.                                 *)
pit_set_interval_HighFirst(interval) ==
  <<<<"PIT_0", Divider(interval) \div 256>>, <<"PIT_0", Divider(interval) % 256>>>>

pit_set_interval(interval) ==
  <<<<"PIT_0", Divider(interval) % 256>>, <<"PIT_0", Divider(interval) \div 256>>>>

pit_init == <<<<"PIT_COMMAND", 54>>>> \o pit_set_interval(Interval)

(* Then kmain goes on to interrupt_sti.                                    *)
Writes == pic_init \o <<<<"IDT", 0>>>> \o pit_init \o <<<<"STI", 0>>>>

PIT_INT_IDX     == 32
SYSCALL_INT_IDX == 128

(* A gate that is present.  Its type is 1 in the lowest bit, a trap gate,  *)
(* which leaves interrupts enabled.                                        *)
create_idt_gate(type, pl) == [trap |-> type % 2 = 1, level |-> pl]

IDT_TRAP_GATE_TYPE == 1

(* A gate for each of the vectors 0 to 47 and for system calls, the only   *)
(* one user code may name.                                                 *)
idt_init == [v \in (0..47) \union {SYSCALL_INT_IDX} |->
               create_idt_gate(IDT_TRAP_GATE_TYPE, IF v = SYSCALL_INT_IDX THEN 3 ELSE 0)]

(* The handlers register_interrupt_handler was given, by pit_init,         *)
(* interrupt_init, init_page_frame_allocator and syscall_init.             *)
Registered == {PIT_INT_IDX, 13, 14, SYSCALL_INT_IDX}

Bits(byte) == {q \in 0..7 : (byte \div 2^q) % 2 = 1}

(* Port A of an 8259: a byte with bit 4 starts an initialisation, which    *)
(* clears the mask; the byte 0x20 is an end of interrupt.                  *)
PortA(chip, byte) ==
  IF 4 \in Bits(byte) THEN [chip EXCEPT !.expects = 2, !.masked = {}] ELSE chip

(* Port B: the words of an initialisation under way, or else the mask.     *)
PortB(chip, byte) ==
  CASE chip.expects = 0 -> [chip EXCEPT !.masked = Bits(byte)]
    [] chip.expects = 2 -> [chip EXCEPT !.expects = 3, !.base = byte - (byte % 8)]
    [] chip.expects = 3 -> [chip EXCEPT !.expects = 4]
    [] chip.expects = 4 -> [chip EXCEPT !.expects = 0]

(* The timer takes the low byte, then the high byte.                       *)
PitData(p, byte) ==
  IF p.half = "low" THEN [p EXCEPT !.half = "high", !.low = byte]
                    ELSE [p EXCEPT !.half = "low", !.reload = 256 * byte + p.low]

Ready == setup = Len(Writes)

(* One write of interrupt_init; interrupts are disabled.                   *)
Write ==
  LET port == Writes[setup + 1][1]
      byte == Writes[setup + 1][2]
  IN  /\ ~Ready
      /\ setup' = setup + 1
      /\ pic1' = CASE port = "PIC1_A" -> PortA(pic1, byte)
                   [] port = "PIC1_B" -> PortB(pic1, byte)
                   [] OTHER -> pic1
      /\ pic2' = CASE port = "PIC2_A" -> PortA(pic2, byte)
                   [] port = "PIC2_B" -> PortB(pic2, byte)
                   [] OTHER -> pic2
      /\ idt' = IF port = "IDT" THEN idt_init ELSE idt
      /\ pit' = CASE port = "PIT_COMMAND" -> [pit EXCEPT !.half = "low"]
                  [] port = "PIT_0" -> PitData(pit, byte)
                  [] OTHER -> pit
      /\ irr' = IF port = "PIC1_A" THEN {} ELSE irr
      /\ UNCHANGED <<cpu, isr>>

-----------------------------------------------------------------------------
(* Words, registers, and places in the code.                               *)

Num(n)          == <<"number", n, 0>>
Flags           == <<"eflags", 0, 0>>
Cs(ring)        == <<"cs", ring, 0>>
Ss              == <<"ss", 3, 0>>
ErrorCode(v)    == <<"error", v, 0>>
User(p)         == <<"user", p, 0>>    (* wherever p is in its program     *)
Kmain           == <<"kmain", 0, 0>>   (* after sti, up to schedule()      *)
Hlt(v)          == <<"hlt", v, 0>>     (* the loop of a fault handler      *)
StubAt(v, n)    == <<"stub", v, n>>    (* in interrupt_handler_v           *)
HandlerAt(v, n) == <<"handler", v, n>> (* in what interrupt_handler calls  *)
SwitchAt(p, n)  == <<"switch", p, n>>  (* in switch_to_process             *)

(* The order of cpu_state_t, hence of the pushes from right to left; the   *)
(* last N of its registers are followed.                                   *)
cpu_state ==
  [i \in 1..N |-> <<"edi", "esi", "ebp", "edx", "ecx", "ebx", "eax">>[7 - N + i]]

GPR == {cpu_state[i] : i \in 1..N}

(* The registers user code of p computes with; "esp" is the user's stack.  *)
Context(p) == [r \in GPR \union {"esp"} |-> <<r, p, 0>>]

(* The frame create_process and sys_fork leave on a new kernel stack.      *)
PreparedFrame(p) == <<Ss, Context(p)["esp"], Flags, Cs(3), User(p)>>

UserMode == eip[1] = "user"

(* The vectors for which the CPU itself pushes an error code.              *)
PushesErrorCode == {8, 10, 11, 12, 13, 14, 17, 21, 29, 30}

(* Stubs by ERROR_HANDLER; all others are by NO_ERROR_HANDLER.             *)
ErrorHandlers == {8, 10, 11, 12, 13, 14, 17, 30}

Pushes == [i \in 1..N |-> <<"push", cpu_state[N + 1 - i]>>]

(* Mutant: the registers are popped in the order they were pushed in.      *)
Pops_AsPushed == [i \in 1..N |-> <<"pop", cpu_state[N + 1 - i]>>]

Pops == [i \in 1..N |-> <<"pop", cpu_state[i]>>]

common_interrupt_handler ==
  <<<<"push esp">>, <<"add [esp], 8">>>> \o Pushes
    \o <<<<"call interrupt_handler">>>> \o Pops \o <<<<"pop esp">>, <<"iret">>>>

(* Mutant: every stub pushes an error code.                                *)
Stub_NoError(v) ==
  <<<<"push number", 0>>, <<"push number", v>>>> \o common_interrupt_handler

Stub(v) ==
  (IF v \in ErrorHandlers THEN <<>> ELSE <<<<"push number", 0>>>>)
    \o <<<<"push number", v>>>> \o common_interrupt_handler

switch_to_process ==
  <<<<"mov cr3">>, <<"mov esp">>>>
    \o [i \in 1..N |-> <<"mov", cpu_state[i]>>] \o <<<<"iret">>>>

Text == [v \in 0..255 |-> Stub(v)]

Instruction ==
  CASE eip[1] = "stub"   -> Text[eip[2]][eip[3]]
    [] eip[1] = "switch" -> switch_to_process[eip[3]]
    [] OTHER             -> <<"other">>

Op   == Instruction[1]
Arg  == Instruction[2]
Next1(ip) == [ip EXCEPT ![3] = @ + 1]
Top  == Last(kstack)

-----------------------------------------------------------------------------
(* The instructions.                                                       *)

Push ==
  /\ Op \in {"push", "push number", "push esp"}
  /\ kstack' = Append(kstack, CASE Op = "push" -> reg[Arg]
                                [] Op = "push number" -> Num(Arg)
                                [] Op = "push esp" -> Num(Len(kstack)))
  /\ eip' = Next1(eip)
  /\ UNCHANGED <<reg, saved, current>>

(* Eight bytes up are two words less on the stack.                         *)
Add ==
  /\ Op = "add [esp], 8"
  /\ kstack' = Append(Front(kstack), Num(Top[2] - 2))
  /\ eip' = Next1(eip)
  /\ UNCHANGED <<reg, saved, current>>

(* interrupt_handler finds the vector in info.idt_index, which follows the *)
(* N registers and the esp of cpu_state_t.                                 *)
Call ==
  /\ Op = "call interrupt_handler"
  /\ eip' = HandlerAt(kstack[Len(kstack) - N - 1][2], 1)
  /\ kstack' = Append(kstack, Next1(eip))
  /\ UNCHANGED <<reg, saved, current>>

Pop ==
  /\ Op = "pop"
  /\ reg' = [reg EXCEPT ![Arg] = Top]
  /\ kstack' = Front(kstack)
  /\ eip' = Next1(eip)
  /\ UNCHANGED <<saved, current>>

PopEsp ==
  /\ Op = "pop esp"
  /\ kstack' = SubSeq(kstack, 1, Top[2])
  /\ eip' = Next1(eip)
  /\ UNCHANGED <<reg, saved, current>>

(* iret pops eip, cs and eflags, and esp and ss as well when cs says that  *)
(* it goes back to user mode.                                              *)
Iret ==
  LET word(k) == kstack[Len(kstack) - k]
      toUser  == word(1) = Cs(3)
      popped  == IF toUser THEN 5 ELSE 3
  IN  /\ Op = "iret"
      /\ eip' = word(0)
      /\ reg' = IF toUser THEN [reg EXCEPT !["esp"] = word(3)] ELSE reg
      /\ kstack' = SubSeq(kstack, 1, Len(kstack) - popped)
      /\ saved' = IF eip[1] = "stub" THEN Front(saved) ELSE saved
      /\ UNCHANGED current

(* switch_to_process loads cr3, the stack and the registers of the process *)
(* from its context.  Whatever the old stack held is given up.             *)
Load ==
  LET p == eip[2]
  IN  /\ Op \in {"mov cr3", "mov esp", "mov"}
      /\ eip' = Next1(eip)
      /\ reg' = IF Op = "mov" THEN [reg EXCEPT ![Arg] = Context(p)[Arg]] ELSE reg
      /\ IF Op = "mov esp" THEN kstack' = PreparedFrame(p) /\ saved' = <<>>
                           ELSE UNCHANGED <<kstack, saved>>
      /\ UNCHANGED current

Ticks(handled) == {i \in DOMAIN handled : handled[i].vector = PIT_INT_IDX}

Execute ==
  /\ Push \/ Add \/ Call \/ Pop \/ PopEsp \/ Iret \/ Load
  /\ late' = IF Ticks(saved') = {} THEN 0 ELSE late
  /\ UNCHANGED <<chips, irr, isr>>

-----------------------------------------------------------------------------
(* The CPU enters the kernel for vector v: on the stack esp0 names if it   *)
(* was in user mode, on the one it is on otherwise.                        *)
Enter(v) ==
  /\ saved' = Append(saved, [vector |-> v, eip |-> eip, reg |-> reg, kstack |-> kstack])
  /\ kstack' = (IF UserMode THEN <<Ss, reg["esp"], Flags, Cs(3), eip>>
                            ELSE kstack \o <<Flags, Cs(0), eip>>)
                 \o (IF v \in PushesErrorCode THEN <<ErrorCode(v)>> ELSE <<>>)
  /\ eip' = StubAt(v, 1)
  /\ UNCHANGED <<reg, current>>

(* A gate that is no trap gate would disable interrupts until the iret.    *)
InterruptsEnabled == Ready /\ \A i \in DOMAIN saved : idt[saved[i].vector].trap

(* The lines of both chips that are not masked.  The second one reaches    *)
(* the CPU through line 2 of the first.                                    *)
HardwareVectors ==
  {pic1.base + q : q \in {l \in Lines \ pic1.masked : Deliverable(l)}}
    \union (IF 2 \in pic1.masked THEN {}
            ELSE {pic2.base + q : q \in (0..7) \ pic2.masked})

Interrupt ==
  /\ InterruptsEnabled
  /\ \E v \in HardwareVectors :
       /\ Enter(v)
       /\ LET q == v - pic1.base
          IN  irr' = irr \ {q} /\ isr' = isr \union {q}
  /\ UNCHANGED <<chips, late>>

(* A program may name any vector; without a gate open to it, it gets a     *)
(* general protection fault.                                               *)
IntInstruction(n) ==
  /\ UserMode
  /\ Enter(IF n \in DOMAIN idt /\ idt[n].level = 3 THEN n ELSE 13)
  /\ UNCHANGED <<chips, late, irr, isr>>

(* The page fault handled is one of page_fault_handler itself.             *)
OfHandler == Last(saved).eip = HandlerAt(14, 2)

(* An exception in user code; a page fault of a system call, which uses    *)
(* the caller's memory and new frames; or one of page_fault_handler, when  *)
(* the frame or page table it fills is beyond what the kernel has mapped.  *)
(* The address is then one of the kernel, where it does nothing but log.   *)
Fault ==
  /\ \/ UserMode /\ \E v \in Faults : Enter(v)
     \/ eip = HandlerAt(SYSCALL_INT_IDX, 2) /\ Enter(14)
     \/ eip = HandlerAt(14, 2) /\ ~OfHandler /\ Enter(14)
  /\ UNCHANGED <<chips, late, irr, isr>>

-----------------------------------------------------------------------------
(* interrupt_handler and the handlers it calls.  The vectors with none,    *)
(* the keyboard's among them, are logged and return.                       *)

At(v, n) == eip = HandlerAt(v, n)

(* Mutant: interrupts without a handler are acknowledged.                  *)
Begin_AcksKey(v) ==
  /\ At(v, 1)
  /\ eip' = HandlerAt(v, 2)
  /\ reg' = [r \in DOMAIN reg |-> IF r \in GPR THEN <<"compiled", Len(saved), 0>> ELSE reg[r]]
  /\ isr' = isr \ {Keyboard}
  /\ UNCHANGED <<kstack, saved, current, irr>>

(* Compiled code: the registers are anything from here on.                 *)
Begin(v) ==
  /\ At(v, 1)
  /\ eip' = HandlerAt(v, 2)
  /\ reg' = [r \in DOMAIN reg |-> IF r \in GPR THEN <<"compiled", Len(saved), 0>> ELSE reg[r]]
  /\ UNCHANGED <<kstack, saved, current, irr, isr>>

(* schedule(), called by pit_handler and by sys_exit, finds a process and  *)
(* does not return.                                                        *)
Switch(v) ==
  /\ \/ At(v, 2) /\ v \in {PIT_INT_IDX, SYSCALL_INT_IDX}
     \/ eip = Kmain
  /\ current < LastProcess
  /\ current' = current + 1
  /\ eip' = SwitchAt(current + 1, 1)
  /\ UNCHANGED <<reg, kstack, saved, irr, isr>>

(* pit_handler: schedule() has returned.                                   *)
Acknowledge(v) ==
  /\ At(v, 2) /\ v = PIT_INT_IDX
  /\ isr' = Acknowledged(isr)
  /\ eip' = HandlerAt(v, 3)
  /\ UNCHANGED <<reg, kstack, saved, current, irr>>

Return(v) ==
  /\ \/ At(v, 3)
     \/ At(v, 2) /\ v \notin Registered
     \/ At(v, 2) /\ v = SYSCALL_INT_IDX
     \/ At(v, 2) /\ v = 14 /\ ~OfHandler
  /\ eip' = Top
  /\ kstack' = Front(kstack)
  /\ UNCHANGED <<reg, saved, current, irr, isr>>

(* general_protection_fault_handler, or page_fault_handler giving up.      *)
Halt(v) ==
  /\ At(v, 2) /\ v \in {13, 14}
  /\ eip' = Hlt(v)
  /\ UNCHANGED <<reg, kstack, saved, current, irr, isr>>

Handle ==
  /\ LET v == eip[2]
     IN  Begin(v) \/ Switch(v) \/ Acknowledge(v) \/ Return(v) \/ Halt(v)
  /\ UNCHANGED <<chips, late>>

-----------------------------------------------------------------------------
(* The BIOS leaves the chips at its own vectors, 8 and 112, and the lines  *)
(* in any state.                                                           *)
Init ==
  /\ setup = 0
  /\ \E open \in {{}, 0..7} :
       /\ pic1 = [expects |-> 0, base |-> 8, masked |-> open]
       /\ pic2 = [expects |-> 0, base |-> 112, masked |-> open]
  /\ idt = <<>>
  /\ pit = [half |-> "low", low |-> 0, reload |-> 0]
  /\ eip = Kmain
  /\ reg = Context(0)
  /\ kstack = <<>>
  /\ current = 0
  /\ saved = <<>>
  /\ late = 0
  /\ PicInit

(* A tick is late for the handler when the one before is still handled.    *)
RaiseLine(q) ==
  /\ Raise(q)
  /\ IF q = Timer /\ Ticks(saved) # {} THEN late < LateTicks /\ late' = late + 1
                                       ELSE UNCHANGED late
  /\ UNCHANGED <<chips, eip, reg, kstack, current, saved>>

(* An interrupt the CPU is offered comes before its next instruction.      *)
Instructions ==
  /\ Ready
  /\ InterruptsEnabled => HardwareVectors = {}
  /\ \/ Execute
     \/ \E n \in 0..255 : IntInstruction(n)
     \/ Fault
     \/ Handle

Next ==
  \/ Write
  \/ Interrupt
  \/ Instructions
  \/ \E q \in Lines : RaiseLine(q)

Spec == Init /\ [][Next]_vars

-----------------------------------------------------------------------------
(* However interrupts nest, between whichever instructions, an iret gives  *)
(* back the registers, the stack and the place that were interrupted; the  *)
(* one of switch_to_process enters the process with its own context.       *)
ContextRestored ==
  [][Op = "iret" /\ eip' # eip /\ Len(saved') <= Len(saved) =>
       IF eip[1] = "switch"
       THEN eip' = User(current) /\ reg' = Context(current) /\ kstack' = <<>>
       ELSE LET s == Last(saved)
            IN  eip' = s.eip /\ reg' = s.reg /\ kstack' = s.kstack]_vars

(* interrupt_handler is called with the vector, the error code or 0, the   *)
(* registers and the place interrupted where its parameters are: for every *)
(* kind of stub, from user mode and from inside the kernel.                *)
HandlerArguments ==
  eip[1] = "handler" /\ eip[3] = 1 =>
    LET arg(k) == kstack[Len(kstack) - k]
        s      == Last(saved)
        error  == IF s.vector \in PushesErrorCode THEN ErrorCode(s.vector) ELSE Num(0)
    IN  /\ \A i \in 1..N : arg(i) = s.reg[cpu_state[i]]
        /\ arg(N + 1) = Num(Len(kstack) - N - 4)
        /\ arg(N + 2) = Num(s.vector)
        /\ arg(N + 3) = error
        /\ arg(N + 4) = s.eip
        /\ s.eip[1] = "user" => arg(N + 7) = s.reg["esp"]

(* After sti hardware interrupts come through the gates of their lines,    *)
(* 32 and 33, and never through one of an exception; the second 8259,      *)
(* which pic_init does not initialise, stays silent.                       *)
OwnVector == Ready => HardwareVectors \subseteq {32 + q : q \in Lines}

(* At most a system call, its page fault, that of page_fault_handler, a    *)
(* key and a tick are stacked up, and one more for every tick that comes   *)
(* before the last was handled.                                            *)
NestingBounded == Len(saved) <= 5 + late

(* The two bytes make the timer count what the interval of 10 ms takes, to *)
(* within one count.                                                       *)
IntervalAsAsked ==
  Ready => LET error == 1000 * pit.reload - Interval * PIT_FREQUENCY
           IN  -1000 < error /\ error < 1000

=============================================================================
