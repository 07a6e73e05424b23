----------------------------- MODULE KeyBuffer -----------------------------
(***************************************************************************)
(* The USB keyboard of the Raspberry Pi port (devices/rpi2/usbkeys.c):     *)
(* uspi_keypress_handler, called from the USB interrupt, writes            *)
(* usb_key_in[ki]; usbkeys_read and usbkeys_open, called by programs, use  *)
(* the same two variables with interrupts enabled.  Every access of theirs *)
(* is a step, and the handler may run between any two of them.  ki is not  *)
(* volatile and the build optimises: usbkeys_read tests and decrements the *)
(* value it loaded once.                                                   *)
(*                                                                         *)
(* A key is represented by the number of its press.                        *)
(***************************************************************************)
EXTENDS Naturals, Sequences

CONSTANTS
  KBUFSZ,      \* 5
  MaxPresses,  \* model bound: keys pressed in a behaviour
  MaxReads     \* model bound: reads in a behaviour

ASSUME KeyAssumption ==
  /\ KBUFSZ \in Nat /\ KBUFSZ > 1
  /\ MaxPresses \in Nat /\ MaxReads \in Nat

VARIABLES
  usb_key_in,  \* 0 is an empty place
  ki,
  presses,     \* keys pressed so far
  pc,          \* where the program is: "idle", or inside read or open
  k,           \* the ki usbkeys_read has loaded
  c,           \* usbkeys_read's c
  i,           \* index of the loop being executed
  got,         \* the keys read so far, 0 where there was none
  raced        \* ghost: a key was pressed inside a call, and no open since

vars == <<usb_key_in, ki, presses, pc, k, c, i, got, raced>>

NoKey == 0
Places == 0 .. KBUFSZ - 1

Init ==
  /\ usb_key_in = [p \in Places |-> NoKey] /\ ki = 0
  /\ presses = 0
  /\ pc = "idle" /\ k = 0 /\ c = NoKey /\ i = 0
  /\ got = <<>> /\ raced = FALSE

\* The next value of ki in the handler.
AfterLate(n) == IF n > KBUFSZ THEN 0 ELSE n
After(n) == IF n >= KBUFSZ THEN 0 ELSE n

\* uspi_keypress_handler
KeyPress ==
  /\ presses < MaxPresses
  /\ presses' = presses + 1
  /\ usb_key_in' = [usb_key_in EXCEPT ![ki] = presses + 1]
  /\ ki' = After(ki + 1)
  /\ raced' = (raced \/ pc # "idle")
  /\ UNCHANGED <<pc, k, c, i, got>>

-----------------------------------------------------------------------------
(* usbkeys_read *)

\* c = 0 and the test of ki; without a key the call is over.
ReadTest ==
  /\ pc = "idle"
  /\ Len(got) < MaxReads
  /\ k' = ki
  /\ c' = NoKey
  /\ IF ki > 0
     THEN pc' = "dec" /\ UNCHANGED got
     ELSE pc' = "idle" /\ got' = Append(got, NoKey)
  /\ UNCHANGED <<usb_key_in, ki, presses, i, raced>>

ReadDec ==
  /\ pc = "dec"
  /\ ki' = k - 1
  /\ pc' = "take"
  /\ UNCHANGED <<usb_key_in, presses, k, c, i, got, raced>>

ReadTake ==
  /\ pc = "take"
  /\ c' = usb_key_in[0]
  /\ i' = 0
  /\ pc' = "shift"
  /\ UNCHANGED <<usb_key_in, ki, presses, k, got, raced>>

\* One iteration of the "FIFO" loop; after the last one c is returned.
LastShiftEarly == ki - 2
LastShift == KBUFSZ - 2

ReadShift ==
  /\ pc = "shift"
  /\ usb_key_in' = [usb_key_in EXCEPT ![i] = usb_key_in[i + 1]]
  /\ IF i < LastShift
     THEN i' = i + 1 /\ UNCHANGED <<pc, got>>
     ELSE i' = 0 /\ pc' = "idle" /\ got' = Append(got, c)
  /\ UNCHANGED <<ki, presses, k, c, raced>>

-----------------------------------------------------------------------------
(* usbkeys_open *)

OpenStart ==
  /\ pc = "idle"
  /\ i' = 0
  /\ pc' = "clear"
  /\ raced' = FALSE
  /\ UNCHANGED <<usb_key_in, ki, presses, k, c, got>>

OpenClear ==
  /\ pc = "clear"
  /\ usb_key_in' = [usb_key_in EXCEPT ![i] = NoKey]
  /\ IF i < KBUFSZ - 1
     THEN i' = i + 1 /\ UNCHANGED pc
     ELSE i' = 0 /\ pc' = "reset"
  /\ UNCHANGED <<ki, presses, k, c, got, raced>>

OpenReset ==
  /\ pc = "reset"
  /\ ki' = 0
  /\ pc' = "idle"
  /\ UNCHANGED <<usb_key_in, presses, k, c, i, got, raced>>

Next ==
  \/ KeyPress
  \/ ReadTest \/ ReadDec \/ ReadTake \/ ReadShift
  \/ OpenStart \/ OpenClear \/ OpenReset

Spec == Init /\ [][Next]_vars

-----------------------------------------------------------------------------
(* Properties *)

\* Wherever the interrupt strikes, the handler and the read loop stay inside
\* usb_key_in: ki and i index it.
TypeOK ==
  /\ usb_key_in \in [Places -> 0 .. presses]
  /\ ki \in Places
  /\ presses \in 0 .. MaxPresses
  /\ pc \in {"idle", "dec", "take", "shift", "clear", "reset"}
  /\ k \in Places /\ c \in 0 .. presses /\ i \in Places
  /\ got \in Seq(0 .. presses) /\ raced \in BOOLEAN

\* The keys a program can still read.  Inside a call the queue is as it was
\* before the call until its last step.
Waiting ==
  CASE pc = "idle" -> [n \in 1 .. ki |-> usb_key_in[n - 1]]
    [] pc = "dec"  -> [n \in 1 .. ki |-> usb_key_in[n - 1]]
    [] pc = "take" -> [n \in 1 .. ki + 1 |-> usb_key_in[n - 1]]
    [] pc = "shift" -> <<c>> \o [n \in 1 .. ki |-> IF n <= i
                                                  THEN usb_key_in[n - 1]
                                                  ELSE usb_key_in[n]]
    [] pc \in {"clear", "reset"} -> <<>>

Queue ==
  INSTANCE KeyQueue WITH
    Presses <- 1 .. MaxPresses, Capacity <- KBUFSZ - 1,
    queue <- Waiting,
    answer <- IF got = <<>> THEN NoKey ELSE got[Len(got)]

\* "// FIFO": usbkeys.c is a queue of KBUFSZ - 1 keys.  Reads return them in
\* order, none lost and none twice, until one press too many empties it or a
\* press strikes inside usbkeys_read or usbkeys_open; an open that is not
\* interrupted itself makes it a queue again.
IsQueue == Queue!Spec
=============================================================================
