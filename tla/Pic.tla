-------------------------------- MODULE Pic --------------------------------
(***************************************************************************)
(* The master 8259 interrupt controller as the kernel uses it once         *)
(* pic_init (arch/x86/pic.c) has run: 8086 mode, no automatic end of       *)
(* interrupt, fully nested priorities (line 0 is the highest).  The chip   *)
(* itself is not part of the repository; what is modelled is what the code *)
(* relies on.  pic_mask(0xEC, 0xFF) leaves lines 0, 1 and 4 open; the      *)
(* serial driver never enables the UART's interrupts, so line 4 is never   *)
(* raised and the lines that matter are the timer and the keyboard.        *)
(***************************************************************************)
EXTENDS Integers

VARIABLES
  irr,   (* lines raised by a device and not yet accepted by the CPU       *)
  isr    (* lines in service: accepted and not yet acknowledged            *)

picVars == <<irr, isr>>

Timer    == 0     (* PIT_INT_IDX - PIC1_START *)
Keyboard == 1     (* KBD_INT_IDX - PIC1_START *)

Lines == {Timer, Keyboard}

PicTypeOK ==
  /\ irr \subseteq Lines
  /\ isr \subseteq Lines

(* After pic_init nothing is pending and nothing is in service.            *)
PicInit ==
  /\ irr = {}
  /\ isr = {}

(* A device raises its line.  An edge on a line already pending is lost.   *)
Raise(q) ==
  /\ q \notin irr
  /\ irr' = irr \union {q}
  /\ UNCHANGED isr

(* The controller interrupts the CPU for its highest pending line, and     *)
(* only if that line has priority over every line still in service.        *)
Deliverable(q) ==
  /\ q \in irr
  /\ \A p \in irr : q <= p
  /\ \A p \in isr : q < p

Highest(S) == IF Timer \in S THEN Timer ELSE Keyboard

(* pic_acknowledge: the command byte 0x20 written to both controllers is a *)
(* non-specific end of interrupt.  It names no line: the highest-priority  *)
(* line in service is the one that is cleared.                             *)
Acknowledged(served) == served \ {Highest(served)}

=============================================================================
