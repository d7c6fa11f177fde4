------------------------------ MODULE Console ------------------------------
(***************************************************************************)
(* The console (kern/dev/generic/console.c) on the serial port             *)
(* (kern/dev/lamebus/lser.c), with kprintf (kern/lib/kprintf.c) as the     *)
(* other user of its output.                                               *)
(*                                                                         *)
(* Output is sent in two ways.  A thread with interrupts on takes cs_wsem  *)
(* and leaves the completion to the interrupt handler; with interrupts off *)
(* it masks the interrupt, holds ls_lock and polls.  Input goes through a  *)
(* ring from the handler to the readers.  The handler runs on one CPU, the *)
(* threads on any; the handler's steps under ls_lock are one step.         *)
(***************************************************************************)
EXTENDS Integers, Sequences, FiniteSets

CONSTANTS
    Users,       \* threads that print and read
    Menu,        \* the menu's thread, which reads without con_userlock_read
    BufSize,     \* CONSOLE_INPUT_BUFFER_SIZE
    MaxInput,    \* bound: characters typed
    MaxPrint,    \* bound: characters per call that prints
    MaxPolled,   \* bound: calls of kprintf with interrupts off
    Nobody

All == Users \cup {Menu}

(* What is assumed of the constants. *)
ConsoleConstants ==
    /\ BufSize \in Nat /\ BufSize >= 2
    /\ MaxInput \in Nat /\ MaxPrint \in Nat /\ MaxPolled \in Nat
    /\ Menu \notin Users /\ Nobody \notin All

VARIABLES
    wsem, rsem,              \* cs_wsem, cs_rsem
    head, tail, gotchars,    \* the input ring
    ulockw, ulockr, klock,   \* con_userlock_write, con_userlock_read, kprintf_lock
    kspin, lslock,           \* kprintf_spinlock, ls_lock
    masked,                  \* the slot's bit of the bus's CTLREG_IRQE is off
    wbusy,                   \* ls_wbusy
    tx, wirq,                \* device: a character is being sent; LSER_REG_WIRQ active
    rx, rirq,                \* device: LSER_REG_CHAR; LSER_REG_RIRQ active
    irq,                     \* interrupt handler: calls still to make
    cpc, left,               \* of each thread; characters still to print
    irqpending,              \* local variable of lser_writepolled
    polled,                  \* calls of kprintf with interrupts off so far
    typed, accepted, got     \* history: characters typed, put in the ring, read

output == <<wsem, ulockw, klock, kspin, lslock, masked, wbusy, tx, wirq, left,
            irqpending, polled>>
input == <<rsem, head, tail, gotchars, ulockr, rx, rirq, typed, accepted, got>>
cvars == <<output, input, irq, cpc>>

(* What lser_irq has still to do once it has released ls_lock. *)
NoIrq == [start |-> FALSE, input |-> 0, step |-> "check"]

(* config_con and config_lser. *)
ConInit ==
    /\ wsem = 1 /\ rsem = 0
    /\ head = 0 /\ tail = 0 /\ gotchars = [i \in 0 .. BufSize - 1 |-> 0]
    /\ ulockw = Nobody /\ ulockr = Nobody /\ klock = Nobody
    /\ kspin = Nobody /\ lslock = Nobody
    /\ masked = FALSE /\ wbusy = FALSE
    /\ tx = FALSE /\ wirq = FALSE /\ rx = 0 /\ rirq = FALSE
    /\ irq = NoIrq
    /\ cpc = [t \in All |-> "idle"] /\ left = [t \in All |-> 0]
    /\ irqpending = FALSE /\ polled = 0
    /\ typed = 0 /\ accepted = <<>> /\ got = <<>>

ConGoto(t, label) == cpc' = [cpc EXCEPT ![t] = label]

-----------------------------------------------------------------------------
(* Printing. *)

(* con_io for a write: the user's lock, then one putch per character.      *)
con_write(t) ==
    /\ cpc[t] = "idle" /\ t \in Users
    /\ ulockw = Nobody /\ ulockw' = t
    /\ \E n \in 1 .. MaxPrint : left' = [left EXCEPT ![t] = n]
    /\ ConGoto(t, "putch")
    /\ UNCHANGED <<wsem, klock, kspin, lslock, masked, wbusy, tx, wirq,
                   irqpending, polled, input, irq>>

(* kprintf with interrupts on. *)
kprintf(t) ==
    /\ cpc[t] = "idle"
    /\ klock = Nobody /\ klock' = t
    /\ \E n \in 1 .. MaxPrint : left' = [left EXCEPT ![t] = n]
    /\ ConGoto(t, "putch")
    /\ UNCHANGED <<wsem, ulockw, kspin, lslock, masked, wbusy, tx, wirq,
                   irqpending, polled, input, irq>>

(* putch_intr: P(cs_wsem). *)
putch_intr(t) ==
    /\ cpc[t] = "putch" /\ left[t] > 0
    /\ wsem > 0 /\ wsem' = wsem - 1
    /\ ConGoto(t, "send")
    /\ UNCHANGED <<ulockw, klock, kspin, lslock, masked, wbusy, tx, wirq, left,
                   irqpending, polled, input, irq>>

(* lser_write.  A busy port is the panic "Not clear to write". *)
lser_write(t) ==
    /\ cpc[t] = "send" /\ lslock = Nobody
    /\ IF wbusy THEN ConGoto(t, "panic") /\ UNCHANGED <<wbusy, tx, left>>
       ELSE /\ wbusy' = TRUE /\ tx' = TRUE
            /\ left' = [left EXCEPT ![t] = @ - 1]
            /\ ConGoto(t, "putch")
    /\ UNCHANGED <<wsem, ulockw, klock, kspin, lslock, masked, wirq,
                   irqpending, polled, input, irq>>

(* The end of con_io or kprintf; the menu's echo of a character in kgets   *)
(* holds neither lock.                                                     *)
PrintEnd(t) ==
    /\ cpc[t] = "putch" /\ left[t] = 0
    /\ ulockw' = IF ulockw = t THEN Nobody ELSE ulockw
    /\ klock' = IF klock = t THEN Nobody ELSE klock
    /\ ConGoto(t, "idle")
    /\ UNCHANGED <<wsem, kspin, lslock, masked, wbusy, tx, wirq, left,
                   irqpending, polled, input, irq>>

(* kprintf in an interrupt handler or with interrupts off: the spinlock,   *)
(* putch_prepare and with it lser_startpolling.                            *)
kprintf_polled(t) ==
    /\ cpc[t] = "idle"
    /\ polled < MaxPolled /\ polled' = polled + 1
    /\ kspin = Nobody /\ kspin' = t
    /\ masked' = TRUE
    /\ \E n \in 1 .. MaxPrint : left' = [left EXCEPT ![t] = n]
    /\ ConGoto(t, "polled")
    /\ UNCHANGED <<wsem, ulockw, klock, lslock, wbusy, tx, wirq, irqpending,
                   input, irq>>

lser_writepolledForget(t) ==    \* variant: wbusy is not looked at
    /\ cpc[t] = "polled" /\ left[t] > 0
    /\ lslock = Nobody /\ lslock' = t
    /\ irqpending' = FALSE
    /\ ConGoto(t, "pollsend")
    /\ UNCHANGED <<wsem, ulockw, klock, kspin, masked, wbusy, tx, wirq, left,
                   polled, input, irq>>

(* lser_writepolled up to the first lser_poll_until_write. *)
lser_writepolled(t) ==
    /\ cpc[t] = "polled" /\ left[t] > 0
    /\ lslock = Nobody /\ lslock' = t
    /\ irqpending' = wbusy
    /\ ConGoto(t, IF wbusy THEN "pollbusy" ELSE "pollsend")
    /\ UNCHANGED <<wsem, ulockw, klock, kspin, masked, wbusy, tx, wirq, left,
                   polled, input, irq>>

(* The earlier character is out: clear the ready condition. *)
PollBusy(t) ==
    /\ cpc[t] = "pollbusy"
    /\ wirq /\ wirq' = FALSE
    /\ ConGoto(t, "pollsend")
    /\ UNCHANGED <<wsem, ulockw, klock, kspin, lslock, masked, wbusy, tx, left,
                   irqpending, polled, input, irq>>

PollSend(t) ==
    /\ cpc[t] = "pollsend"
    /\ tx' = TRUE
    /\ ConGoto(t, "polldone")
    /\ UNCHANGED <<wsem, ulockw, klock, kspin, lslock, masked, wbusy, wirq,
                   left, irqpending, polled, input, irq>>

PollDoneClear(t) ==    \* variant: the ready condition is always cleared
    /\ cpc[t] = "polldone"
    /\ wirq /\ wirq' = FALSE
    /\ lslock' = Nobody /\ irqpending' = FALSE
    /\ left' = [left EXCEPT ![t] = @ - 1]
    /\ ConGoto(t, "polled")
    /\ UNCHANGED <<wsem, ulockw, klock, kspin, masked, wbusy, tx, polled,
                   input, irq>>

(* The second lser_poll_until_write has returned.  The ready condition is  *)
(* left for the interrupt handler if the port was busy.                    *)
PollDone(t) ==
    /\ cpc[t] = "polldone"
    /\ wirq /\ wirq' = irqpending
    /\ lslock' = Nobody /\ irqpending' = FALSE
    /\ left' = [left EXCEPT ![t] = @ - 1]
    /\ ConGoto(t, "polled")
    /\ UNCHANGED <<wsem, ulockw, klock, kspin, masked, wbusy, tx, polled,
                   input, irq>>

(* putch_complete, lser_endpolling, and the spinlock. *)
PolledEnd(t) ==
    /\ cpc[t] = "polled" /\ left[t] = 0
    /\ kspin' = Nobody
    /\ masked' = FALSE
    /\ ConGoto(t, "idle")
    /\ UNCHANGED <<wsem, ulockw, klock, lslock, wbusy, tx, wirq, left,
                   irqpending, polled, input, irq>>

-----------------------------------------------------------------------------
(* Reading. *)

Reading(t) == cpc[t] \in {"getch", "take", "advance", "taken"}

(* con_io for a read.  The menu waits while a program it started reads     *)
(* from the console.                                                       *)
con_read(t) ==
    /\ cpc[t] = "idle" /\ t \in Users
    /\ ulockr = Nobody /\ ulockr' = t
    /\ ~Reading(Menu)
    /\ ConGoto(t, "getch")
    /\ UNCHANGED <<rsem, head, tail, gotchars, rx, rirq, typed, accepted, got,
                   output, irq>>

(* kgets asks for a character. *)
kgets(t) ==
    /\ cpc[t] = "idle" /\ t = Menu
    /\ ulockr = Nobody
    /\ ConGoto(t, "getch")
    /\ UNCHANGED <<output, input, irq>>

(* getch_intr: P(cs_rsem). *)
getch_intr(t) ==
    /\ cpc[t] = "getch"
    /\ rsem > 0 /\ rsem' = rsem - 1
    /\ ConGoto(t, "take")
    /\ UNCHANGED <<head, tail, gotchars, ulockr, rx, rirq, typed, accepted, got,
                   output, irq>>

(* It reads the slot at the tail ... *)
getch_take(t) ==
    /\ cpc[t] = "take"
    /\ got' = Append(got, gotchars[tail])
    /\ ConGoto(t, "advance")
    /\ UNCHANGED <<rsem, head, tail, gotchars, ulockr, rx, rirq, typed,
                   accepted, output, irq>>

(* ... and then advances the tail. *)
getch_advance(t) ==
    /\ cpc[t] = "advance"
    /\ tail' = (tail + 1) % BufSize
    /\ ConGoto(t, "taken")
    /\ UNCHANGED <<rsem, head, gotchars, ulockr, rx, rirq, typed, accepted, got,
                   output, irq>>

(* con_io goes on until a newline or the end of the buffer; kgets echoes.  *)
ReadEnd(t) ==
    /\ cpc[t] = "taken"
    /\ \/ ConGoto(t, "getch") /\ UNCHANGED <<ulockr, left>>
       \/ /\ t \in Users /\ ulockr' = Nobody
          /\ ConGoto(t, "idle") /\ UNCHANGED left
       \/ /\ t = Menu /\ left' = [left EXCEPT ![t] = 1]
          /\ ConGoto(t, "putch") /\ UNCHANGED ulockr
    /\ UNCHANGED <<wsem, ulockw, klock, kspin, lslock, masked, wbusy, tx, wirq,
                   irqpending, polled, rsem, head, tail, gotchars, rx, rirq, typed,
                   accepted, got, irq>>

-----------------------------------------------------------------------------
(* The device (external): a character leaves, a character arrives. *)
TxDone ==
    /\ tx /\ tx' = FALSE /\ wirq' = TRUE
    /\ UNCHANGED <<wsem, ulockw, klock, kspin, lslock, masked, wbusy, left,
                   irqpending, polled, input, irq, cpc>>

RxChar ==
    /\ ~rirq /\ rirq' = TRUE
    /\ typed < MaxInput /\ typed' = typed + 1
    /\ rx' = typed + 1
    /\ UNCHANGED <<rsem, head, tail, gotchars, ulockr, accepted, got, output,
                   irq, cpc>>

(* lser_irq, the part under ls_lock. *)
lser_irq ==
    /\ wirq \/ rirq
    /\ ~masked /\ irq = NoIrq
    /\ lslock = Nobody
    /\ irq' = [NoIrq EXCEPT !.start = wirq, !.input = IF rirq THEN rx ELSE 0]
    /\ wbusy' = (wbusy /\ ~wirq)
    /\ wirq' = FALSE /\ rirq' = FALSE
    /\ UNCHANGED <<wsem, ulockw, klock, kspin, lslock, masked, tx, left,
                   irqpending, polled, rsem, head, tail, gotchars, ulockr, rx, typed,
                   accepted, got, cpc>>

(* con_start: V(cs_wsem). *)
con_start ==
    /\ irq.start
    /\ wsem' = wsem + 1
    /\ irq' = [irq EXCEPT !.start = FALSE]
    /\ UNCHANGED <<ulockw, klock, kspin, lslock, masked, wbusy, tx, wirq, left,
                   irqpending, polled, input, cpc>>

InputDone == irq' = NoIrq

nexthead == (head + 1) % BufSize

con_inputNoCheck ==    \* variant: the ring is never full
    /\ irq.input # 0 /\ ~irq.start /\ irq.step = "check"
    /\ irq' = [irq EXCEPT !.step = "put"]
    /\ UNCHANGED <<output, input, cpc>>

(* con_input: a character that finds the ring full is dropped. *)
con_input ==
    /\ irq.input # 0 /\ ~irq.start /\ irq.step = "check"
    /\ IF nexthead = tail THEN InputDone
                          ELSE irq' = [irq EXCEPT !.step = "put"]
    /\ UNCHANGED <<output, input, cpc>>

(* It is stored, the head advances ... *)
con_input_put ==
    /\ irq.step = "put"
    /\ gotchars' = [gotchars EXCEPT ![head] = irq.input]
    /\ head' = nexthead
    /\ accepted' = Append(accepted, irq.input)
    /\ irq' = [irq EXCEPT !.step = "V"]
    /\ UNCHANGED <<rsem, tail, ulockr, rx, rirq, typed, got, output, cpc>>

(* ... and V(cs_rsem). *)
con_input_V ==
    /\ irq.step = "V"
    /\ rsem' = rsem + 1
    /\ InputDone
    /\ UNCHANGED <<head, tail, gotchars, ulockr, rx, rirq, typed, accepted, got,
                   output, cpc>>

-----------------------------------------------------------------------------
(* What a thread begins, and what it goes on with. *)
Begin(t) == con_write(t) \/ kprintf(t) \/ kprintf_polled(t) \/ con_read(t) \/ kgets(t)

ConContinue(t) ==
    \/ putch_intr(t) \/ lser_write(t) \/ PrintEnd(t)
    \/ lser_writepolled(t) \/ PollBusy(t) \/ PollSend(t) \/ PollDone(t)
    \/ PolledEnd(t)
    \/ getch_intr(t) \/ getch_take(t) \/ getch_advance(t) \/ ReadEnd(t)

Handler == con_start \/ con_input \/ con_input_put \/ con_input_V

ConNext ==
    \/ \E t \in All : Begin(t) \/ ConContinue(t)
    \/ TxDone \/ RxChar \/ lser_irq \/ Handler

ConSpec == ConInit /\ [][ConNext]_cvars

-----------------------------------------------------------------------------
(* A character is written to the port only when the port is free:          *)
(* lser_write never finds it busy (its panic is unreachable), and neither  *)
(* it nor lser_writepolled overwrites a character that is being sent or    *)
(* whose completion nobody has acknowledged yet.                           *)
ClearToWrite ==
    /\ \A t \in All : cpc[t] # "panic"
    /\ \A t \in All :
         (cpc[t] = "send" /\ lslock = Nobody) \/ cpc[t] = "pollsend"
            => ~tx /\ ~wirq

(* The ring's contents, oldest first. *)
Ring == [i \in 1 .. (head - tail) % BufSize |-> gotchars[(tail + i - 1) % BufSize]]

InFlight == Cardinality({t \in All : cpc[t] \in {"take", "advance"}})

(* Every character that was put in the ring is read once, in order, by     *)
(* somebody, and cs_rsem counts exactly the characters that are there and  *)
(* claimed by no reader: nobody reads an empty slot, and no character      *)
(* waits for the next one to be noticed.                                   *)
InputExact ==
    LET advancing == \E t \in All : cpc[t] = "advance"
        unread == IF advancing THEN Tail(Ring) ELSE Ring
    IN  /\ accepted = got \o unread
        /\ rsem + InFlight + (IF irq.step = "V" THEN 1 ELSE 0) = Len(Ring)

Senders == {t \in All : cpc[t] = "send"}

(* The right to send is never lost nor given twice, whoever prints in      *)
(* whichever mode: it is in cs_wsem, with one thread on its way to         *)
(* lser_write, with the port, or with con_start.  While the port has it a  *)
(* completion is still to come, also after a polled write has acknowledged *)
(* the earlier one, and the interrupt stays masked only during kprintf.    *)
WriteReady ==
    /\ wsem \in {0, 1}
    /\ \A t, u \in Senders : t = u
    /\ wsem = 1 => Senders = {} /\ ~wbusy /\ ~irq.start
    /\ wbusy => Senders = {} /\ ~irq.start
    /\ irq.start => Senders = {}
    /\ wsem = 0 => Senders # {} \/ wbusy \/ irq.start
    /\ wbusy => tx \/ wirq \/ \E t \in All : cpc[t] = "pollsend" /\ irqpending
    /\ masked <=> kspin # Nobody
=============================================================================
