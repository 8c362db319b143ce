------------------------------ MODULE Console ------------------------------
(***************************************************************************)
(* What the kernel says: log_write (lib/log.c) over the polled serial      *)
(* driver (drivers/serial.c), called by system calls, by pit_handler for   *)
(* every tick, by page_fault_handler and for every interrupt without a     *)
(* handler.  A tick or a key may cut a line anywhere; a page fault cuts    *)
(* that of sys_printf while strlen reads the user's string.  The UART is   *)
(* external: it may send slowly or not at all.  The status it gave may be  *)
(* old by the time the byte is written, since an interrupt can write a     *)
(* line in between.                                                        *)
(*                                                                         *)
(* What a byte says is left out; what is kept is how many there are, in    *)
(* which call of serial_write, and whether they get through.               *)
(***************************************************************************)
EXTENDS Pic, SequencesExt

CONSTANTS
  MaxAttempts,  (* SERIAL_MAX_WAIT_ATTEMPTS, 1000 in the code              *)
  FifoSize,     (* bytes the UART queues once its FIFO is enabled          *)
  Long,         (* bytes in a piece of a line of more than one             *)
  Text,         (* bytes of a line written one by one, before the last     *)
  Frames        (* pages that page_fault_handler can map until alloc_frame *)
                (* has no frame left                                       *)

(* The FIFO holds a byte of each line that can be between its status and   *)
(* its byte: one of a system call or a fault, one of an interrupt without  *)
(* a handler, one of a tick.  A 16550 has room for 16.                     *)
ASSUME ConsoleAssumption ==
  /\ MaxAttempts \in Nat \ {0}
  /\ FifoSize \in Nat
  /\ FifoSize >= 3
  /\ Long \in Nat \ {0}
  /\ Text \in Nat
  /\ Frames \in Nat

VARIABLES
  configured,  (* how much of serial_init's configuration is done          *)
  uart,        (* divisor latch open; the latch; FIFO enabled; bytes held  *)
  calls,       (* the log calls under way, the one that executes last      *)
  frames       (* of Frames, those left                                    *)

vars == <<configured, uart, calls, frames, irr, isr>>

-----------------------------------------------------------------------------
(* log_write: the pieces a line is written in, one call of serial_write    *)
(* each; a piece is its number of bytes.                                   *)

(* serial_write(str, -1) on what a user process gave: strlen will tell.    *)
Unknown == -1

(* First the level, in one piece, like a colour, a number or a string of   *)
(* the kernel; one stands for them all.  The spaces up to the tenth        *)
(* column, what is no conversion, and the line feed are written one byte   *)
(* at a time.                                                              *)
log_write(strings) == <<Long>> \o [i \in 1 .. Text |-> 1] \o strings \o <<1>>

(* LOG_INFO("%s", fmt) of sys_printf.                                      *)
PrintfLine == log_write(<<Unknown>>)

(* LOG_WARN("PIT handler called"), LOG_ERROR("Unhandled interrupt: %x ..") *)
(* and the lines of page_fault_handler and                                 *)
(* general_protection_fault_handler, of which one stands for several in a  *)
(* row.                                                                    *)
KernelLine == log_write(<<>>)

(* log_init: the test byte of serial_init, and two line feeds.             *)
InitLine == <<1, 1, 1>>

(* A call: who makes it, the pieces left, the bytes written of the first,  *)
(* what it does next (find a length with "strlen", "poll" the status for a *)
(* byte, write it "out", "drain" after the last), how often it found the   *)
(* UART busy.                                                              *)
Call(who, pieces, does) ==
  [who |-> who, left |-> pieces, i |-> 0, does |-> does, attempts |-> 0]

-----------------------------------------------------------------------------
(* The UART.                                                               *)

Empty == uart.held = 0

Room == uart.held < (IF uart.fifo THEN FifoSize ELSE 1)

(* A byte written to the data port goes to the divisor latch while that is *)
(* open; to the queue, when there is room; or it is lost.                  *)
Takes == ~uart.dlab /\ Room

Data(u, byte) ==
  IF u.dlab THEN [u EXCEPT !.divisor = byte]
  ELSE IF Room THEN [u EXCEPT !.held = @ + 1] ELSE u

(* It sends a byte, some time or never.                                    *)
Send ==
  /\ uart.held > 0
  /\ uart' = [uart EXCEPT !.held = @ - 1]
  /\ UNCHANGED <<configured, calls, frames, irr, isr>>

serial_configure_baud_rate ==
  <<<<"line", 128>>, <<"data", 0>>, <<"data", 1>>>>
serial_configure_line == <<<<"line", 3>>>>

(* Mutant: the FIFO is left as the BIOS has it.                            *)
serial_configure_fifo_Skipped == <<>>

serial_configure_fifo == <<<<"fifo", 199>>>>
serial_configure_modem == <<<<"modem", 3>>>>

serial_init ==
  serial_configure_baud_rate \o serial_configure_line
    \o serial_configure_fifo \o serial_configure_modem

Configured == configured = Len(serial_init)

Configure ==
  LET port == serial_init[configured + 1][1]
      byte == serial_init[configured + 1][2]
  IN  /\ ~Configured
      /\ configured' = configured + 1
      /\ uart' = CASE port = "line" -> [uart EXCEPT !.dlab = byte >= 128]
                   [] port = "data" -> Data(uart, byte)
                   [] port = "fifo" -> [uart EXCEPT !.fifo = byte % 2 = 1, !.held = 0]
                   [] port = "modem" -> uart
      /\ calls' = IF configured' = Len(serial_init)
                  THEN <<Call("log_init", InitLine, "out")>> ELSE calls
      /\ UNCHANGED <<frames, irr, isr>>

-----------------------------------------------------------------------------
(* serial_write, by the call that executes.                                *)

Top       == Last(calls)
Become(c) == calls' = [calls EXCEPT ![Len(calls)] = c]

Executes(does) == calls # <<>> /\ Top.left # <<>> /\ Top.does = does

(* serial_write returns; log_write goes on with the next piece, whatever   *)
(* it returned.                                                            *)
Begins(pieces) ==
  IF pieces # <<>> /\ Head(pieces) = Unknown THEN "strlen" ELSE "poll"

NextPiece(c) ==
  [c EXCEPT !.left = Tail(@), !.i = 0, !.does = Begins(Tail(c.left)), !.attempts = 0]

(* Each page of the user's string that is not there yet costs a page       *)
(* fault, after which strlen goes on where it was; an empty string has no  *)
(* byte to poll for.                                                       *)
Strlen ==
  /\ Executes("strlen")
  /\ \/ Become([Top EXCEPT !.left = <<Long>> \o Tail(@), !.does = "poll"])
     \/ Become([Top EXCEPT !.left = <<0>> \o Tail(@), !.does = "drain"])
     \/ calls' = Append(calls, Call("page_fault_handler", KernelLine, "poll"))
  /\ UNCHANGED <<configured, uart, frames, irr, isr>>

LastAttempt(c) == c.attempts + 1 >= MaxAttempts

(* serial_write_byte asks whether the transmitter is empty, and gives up   *)
(* after so many attempts: the rest of the piece is not written.           *)
Poll ==
  /\ Executes("poll")
  /\ Become(IF Empty THEN [Top EXCEPT !.does = "out"]
            ELSE IF LastAttempt(Top) THEN NextPiece(Top)
            ELSE [Top EXCEPT !.attempts = @ + 1])
  /\ UNCHANGED <<configured, uart, frames, irr, isr>>

Out ==
  /\ Executes("out")
  /\ uart' = Data(uart, 0)
  /\ Become([Top EXCEPT !.i = @ + 1, !.attempts = 0,
               !.does = IF Top.i + 1 = Head(Top.left) THEN "drain" ELSE "poll"])
  /\ UNCHANGED <<configured, frames, irr, isr>>

(* Mutant: the wait after the last byte is not bounded.                    *)
Drain_Forever ==
  /\ Executes("drain")
  /\ Empty
  /\ Become(NextPiece(Top))
  /\ UNCHANGED <<configured, uart, frames, irr, isr>>

(* After the last byte it waits again; serial_init, which fails here, lets *)
(* log_init return at once.                                                *)
Drain ==
  /\ Executes("drain")
  /\ Become(IF ~Empty /\ ~LastAttempt(Top) THEN [Top EXCEPT !.attempts = @ + 1]
            ELSE IF ~Empty /\ Top.who = "log_init" /\ Top.left = InitLine
                 THEN [Top EXCEPT !.left = <<>>]
                 ELSE NextPiece(Top))
  /\ UNCHANGED <<configured, uart, frames, irr, isr>>

Finished == calls # <<>> /\ Top.left = <<>>

(* page_fault_handler has said what it knows.  It maps a frame and says    *)
(* so; or gives up, says why and halts for ever, with interrupts on; or    *)
(* the table or the frame it takes is beyond what the kernel maps, and it  *)
(* faults itself: that is a fault in kernel space, which gives up.         *)
OwnFault == Len(calls) > 1 /\ calls[Len(calls) - 1].who = "page_fault_handler"

FaultDecides ==
  /\ Finished
  /\ Top.who = "page_fault_handler"
  /\ \/ /\ ~OwnFault
        /\ frames > 0
        /\ frames' = frames - 1
        /\ Become(Call("mapped", KernelLine, "poll"))
     \/ /\ Become(Call("halting", KernelLine, "poll"))
        /\ UNCHANGED frames
     \/ /\ ~OwnFault
        /\ calls' = Append(calls, Call("page_fault_handler", KernelLine, "poll"))
        /\ UNCHANGED frames
  /\ UNCHANGED <<configured, uart, irr, isr>>

(* Back to where the call was made.                                        *)
Return ==
  /\ Finished
  /\ Top.who \notin {"pit_handler", "page_fault_handler", "halting"}
  /\ calls' = Front(calls)
  /\ UNCHANGED <<configured, uart, frames, irr, isr>>

(* pit_handler goes on to schedule(), which either returns, or switches to *)
(* another process and gives up whatever was being written.  What schedule *)
(* logs before it switches is more of the same line.                       *)
PitHandlerEnds ==
  /\ Finished
  /\ Top.who = "pit_handler"
  /\ \/ calls' = Front(calls) /\ isr' = Acknowledged(isr)
     \/ calls' = <<>> /\ UNCHANGED isr
  /\ UNCHANGED <<configured, uart, frames, irr>>

Kernel ==
  \/ Configure
  \/ Strlen \/ Poll \/ Out \/ Drain
  \/ FaultDecides \/ Return \/ PitHandlerEnds

(* kmain executes sti after log_init.                                      *)
Running == Configured /\ \A k \in DOMAIN calls : calls[k].who # "log_init"

-----------------------------------------------------------------------------
(* Who begins a line.                                                      *)

(* A process: the system call sys_printf; a page fault; another exception, *)
(* which has no handler, but for the general protection fault: its handler *)
(* halts.                                                                  *)
Process ==
  /\ Running
  /\ calls = <<>>
  /\ \/ calls' = <<Call("sys_printf", PrintfLine, "poll")>>
     \/ \E who \in {"page_fault_handler", "exception", "halting"} :
           calls' = <<Call(who, KernelLine, "poll")>>
  /\ UNCHANGED <<configured, uart, frames, irr, isr>>

Accept(q) ==
  /\ Running
  /\ Deliverable(q)
  /\ irr' = irr \ {q}
  /\ isr' = isr \union {q}
  /\ UNCHANGED <<configured, uart, frames>>

(* Mutant: pit_handler acknowledges before it logs.                        *)
PitHandler_AckFirst ==
  /\ Running
  /\ Deliverable(Timer)
  /\ irr' = irr \ {Timer}
  /\ UNCHANGED isr
  /\ calls' = Append(calls, Call("pit_handler", KernelLine, "poll"))
  /\ UNCHANGED <<configured, uart, frames>>

PitHandler ==
  /\ Accept(Timer)
  /\ calls' = Append(calls, Call("pit_handler", KernelLine, "poll"))

InterruptHandler ==
  /\ Accept(Keyboard)
  /\ calls' = Append(calls, Call("interrupt_handler", KernelLine, "poll"))

RaiseLine(q) ==
  /\ Running
  /\ Raise(q)
  /\ UNCHANGED <<configured, uart, calls, frames>>

Init ==
  /\ configured = 0
  /\ uart = [dlab |-> FALSE, divisor |-> 12, fifo |-> FALSE, held |-> 0]
  /\ calls = <<>>
  /\ frames = Frames
  /\ PicInit

Next ==
  \/ Kernel
  \/ Process \/ PitHandler \/ InterruptHandler
  \/ Send
  \/ \E q \in Lines : RaiseLine(q)

Spec == Init /\ [][Next]_vars

(* The CPU executes the kernel; the UART need not send.                    *)
FairSpec == Spec /\ WF_vars(Kernel)

-----------------------------------------------------------------------------
(* The UART takes every byte serial_write_byte gives it, also when         *)
(* interrupts came between the status it read and the byte it writes, and  *)
(* their lines were given up half-way: the FIFO has room for one byte of   *)
(* each.  So no line whose waits all ended has a hole.                     *)
EveryByteTaken == Executes("out") => Takes

(* The line of a tick is in one piece: nothing else is written until       *)
(* pit_handler has finished it.                                            *)
TickInOnePiece ==
  \A k \in DOMAIN calls : calls[k].who = "pit_handler" => k = Len(calls)

(* However slow the UART is, and if it never sends: pit_handler's own line *)
(* ends, and its acknowledgement comes.  So does every other line, unless  *)
(* its handler halts, as long as ticks leave the CPU time for what they    *)
(* have cut.  They need not.  With a UART that never sends, a tick's line  *)
(* of some 26 pieces takes longer than 10 ms, the next tick is there when  *)
(* pit_handler acknowledges, and what it has cut does not execute again    *)
(* until schedule() switches.                                              *)
TickExecutes == calls # <<>> /\ Top.who = "pit_handler"

Halted ==
  \E k \in DOMAIN calls : calls[k].who = "halting" /\ calls[k].left = <<>>

TicksLeaveTime == SF_vars(~TickExecutes /\ Kernel)

CallsEnd ==
  /\ TickExecutes ~> ~TickExecutes
  /\ TicksLeaveTime => (calls # <<>> ~> calls = <<>> \/ Halted)

=============================================================================
