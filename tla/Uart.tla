-------------------------------- MODULE Uart --------------------------------
(***************************************************************************)
(* Output through the UART (kernel/uart.c): processes in uartputc(), the   *)
(* interrupt handler, and the CPUs that print or echo with                 *)
(* uartputc_sync(), which takes no lock, against a 16550 with its FIFO on. *)
(*                                                                         *)
(* A step is one iteration of uartstart() up to its read of LSR, or the    *)
(* write to THR that follows, since the device and uartputc_sync() run in  *)
(* between; the rest is under uart_tx_lock.                                *)
(***************************************************************************)
EXTENDS Integers, Sequences, FiniteSets

CONSTANTS
  SIZE,       \* UART_TX_BUF_SIZE
  Writers,    \* processes that call uartputc()
  Echoers,    \* CPUs that call uartputc_sync()
  Chars,
  Echo,       \* a character from uartputc_sync()
  DEPTH,      \* of the device's transmit FIFO
  MAXC,       \* bound: characters written by uartputc() in a behaviour
  NoByte

ASSUME UartAssumption ==
  /\ SIZE \in Nat \ {0} /\ DEPTH \in Nat \ {0} /\ MAXC \in Nat
  /\ Echo \notin Chars /\ NoByte \notin Chars
  /\ Writers \cap Echoers = {} /\ "intr" \notin Writers

Agents == Writers \cup {"intr"}

VARIABLES
  uart_tx_buf, uart_tx_w, uart_tx_r,
  lock,        \* uart_tx_lock: its holder
  pc,
  fifo, irq,   \* the device's transmit FIFO, its transmit interrupt
  wire         \* the last character of uartputc() on the line

tx == <<uart_tx_buf, uart_tx_w, uart_tx_r>>
vars == <<tx, lock, pc, fifo, irq, wire>>

Goto(a, l) == pc' = [pc EXCEPT ![a] = l]
LSR_TX_IDLE == fifo = << >>
Full == uart_tx_w = uart_tx_r + SIZE
\* The write to THR also clears the transmit interrupt.
WriteTHR(c) == fifo' = Append(fifo, c) /\ irq' = FALSE

----------------------------------------------------------------------------
(* uartputc() *)

putc(p) ==
  /\ pc[p] = "idle"
  /\ Goto(p, "uartputc")
  /\ UNCHANGED <<tx, lock, fifo, irq, wire>>

uartputc_nostart(p, c) ==
  /\ pc[p] = "uartputc" /\ lock = {} /\ uart_tx_w < MAXC
  /\ IF Full
     THEN Goto(p, "sleeping") /\ UNCHANGED <<tx, lock>>
     ELSE /\ uart_tx_buf' = [uart_tx_buf EXCEPT ![uart_tx_w % SIZE] = c]
          /\ uart_tx_w' = uart_tx_w + 1
          /\ Goto(p, "idle")
          /\ UNCHANGED <<uart_tx_r, lock>>
  /\ UNCHANGED <<fifo, irq, wire>>
\* At the call and after a wakeup.
uartputc(p, c) ==
  /\ pc[p] = "uartputc" /\ lock = {} /\ uart_tx_w < MAXC
  /\ IF Full
     THEN Goto(p, "sleeping") /\ UNCHANGED <<tx, lock>>
     ELSE /\ uart_tx_buf' = [uart_tx_buf EXCEPT ![uart_tx_w % SIZE] = c]
          /\ uart_tx_w' = uart_tx_w + 1
          /\ lock' = {p} /\ Goto(p, "uartstart")
          /\ UNCHANGED uart_tx_r
  /\ UNCHANGED <<fifo, irq, wire>>

----------------------------------------------------------------------------
(* uartstart(), by a process or by the interrupt handler *)

\* Nothing to send, or the device is busy: return, and release the lock.
start_return(a) ==
  /\ pc[a] = "uartstart"
  /\ uart_tx_w = uart_tx_r \/ ~LSR_TX_IDLE
  /\ irq' = IF uart_tx_w = uart_tx_r THEN FALSE ELSE irq    \* ReadReg(ISR)
  /\ lock' = {} /\ Goto(a, "idle")
  /\ UNCHANGED <<tx, fifo, wire>>

start_check(a) ==
  /\ pc[a] = "uartstart" /\ uart_tx_w # uart_tx_r /\ LSR_TX_IDLE
  /\ Goto(a, "write_thr")
  /\ UNCHANGED <<tx, lock, fifo, irq, wire>>

start_write_newest(a) ==
  /\ pc[a] = "write_thr"
  /\ uart_tx_r' = uart_tx_r + 1
  /\ pc' = [b \in DOMAIN pc |-> IF b = a THEN "uartstart"
                                ELSE IF pc[b] = "sleeping" THEN "uartputc" ELSE pc[b]]
  /\ WriteTHR(uart_tx_buf[(uart_tx_w - 1) % SIZE])
  /\ UNCHANGED <<uart_tx_buf, uart_tx_w, lock, wire>>
\* wakeup(&uart_tx_r), then the write.
start_write(a) ==
  /\ pc[a] = "write_thr"
  /\ uart_tx_r' = uart_tx_r + 1
  /\ pc' = [b \in DOMAIN pc |-> IF b = a THEN "uartstart"
                                ELSE IF pc[b] = "sleeping" THEN "uartputc" ELSE pc[b]]
  /\ WriteTHR(uart_tx_buf[uart_tx_r % SIZE])
  /\ UNCHANGED <<uart_tx_buf, uart_tx_w, lock, wire>>

\* uartintr(), after the input characters.
uartintr ==
  /\ irq /\ pc["intr"] = "idle" /\ lock = {}
  /\ lock' = {"intr"} /\ Goto("intr", "uartstart")
  /\ UNCHANGED <<tx, fifo, irq, wire>>

----------------------------------------------------------------------------
(* uartputc_sync() *)

sync_wait_not(e) ==
  /\ pc[e] = "idle"
  /\ Goto(e, "sync_write")
  /\ UNCHANGED <<tx, lock, fifo, irq, wire>>
sync_wait(e) ==
  /\ pc[e] = "idle" /\ LSR_TX_IDLE
  /\ Goto(e, "sync_write")
  /\ UNCHANGED <<tx, lock, fifo, irq, wire>>

sync_write(e) ==
  /\ pc[e] = "sync_write"
  /\ WriteTHR(Echo)
  /\ Goto(e, "idle")
  /\ UNCHANGED <<tx, lock, wire>>

----------------------------------------------------------------------------
(* The device: it sends a character, and interrupts when the FIFO is empty *)

dev_send ==
  /\ fifo # << >>
  /\ fifo' = Tail(fifo)
  /\ irq' = (irq \/ Len(fifo) = 1)
  /\ wire' = IF Head(fifo) = Echo THEN wire ELSE Head(fifo)
  /\ UNCHANGED <<tx, lock, pc>>

----------------------------------------------------------------------------
Init ==
  /\ uart_tx_buf = [k \in 0..(SIZE - 1) |-> NoByte] /\ uart_tx_w = 0 /\ uart_tx_r = 0
  /\ lock = {} /\ pc = [a \in Agents \cup Echoers |-> "idle"]
  /\ fifo = << >> /\ irq = FALSE /\ wire = NoByte

uartstart(a) == start_return(a) \/ start_check(a) \/ start_write(a)

Next ==
  \/ dev_send \/ uartintr
  \/ \E a \in Agents : uartstart(a)
  \/ \E p \in Writers : putc(p) \/ \E c \in Chars : uartputc(p, c)
  \/ \E e \in Echoers : sync_wait(e) \/ sync_write(e)

Spec == Init /\ [][Next]_vars

\* The device sends, a pending interrupt is taken in the end, runnable
\* processes run, and a started uartputc_sync() goes on.
FairSpec ==
  /\ Spec /\ WF_vars(dev_send) /\ SF_vars(uartintr)
  /\ \A a \in Agents : WF_vars(uartstart(a))
  /\ \A p \in Writers : SF_vars(\E c \in Chars : uartputc(p, c))
  /\ \A e \in Echoers : WF_vars(sync_write(e))

----------------------------------------------------------------------------
(* Properties *)

TypeOK ==
  /\ uart_tx_buf \in [0..(SIZE - 1) -> Chars \cup {NoByte}]
  /\ uart_tx_w \in Nat /\ uart_tx_r \in Nat
  /\ lock \in SUBSET Agents
  /\ pc \in [Agents \cup Echoers -> {"idle", "uartputc", "sleeping", "uartstart",
                                     "write_thr", "sync_write"}]
  /\ fifo \in Seq(Chars \cup {Echo}) /\ irq \in BOOLEAN /\ wire \in Chars \cup {NoByte}
  /\ uart_tx_r <= uart_tx_w /\ uart_tx_w <= uart_tx_r + SIZE

\* What uartputc() has accepted and the line has not seen: the FIFO's share,
\* then the ring.
Pending == SelectSeq(fifo, LAMBDA c : c # Echo)
           \o [k \in 1..(uart_tx_w - uart_tx_r) |-> uart_tx_buf[(uart_tx_r + k - 1) % SIZE]]
Queue == INSTANCE ByteQueue WITH Procs <- {"line"}, Bytes <- Chars,
           Capacity <- SIZE + DEPTH, queue <- Pending,
           got <- [l \in {"line"} |-> wire]

\* The characters of write() leave on the line once each and in order, whatever
\* interrupts and echoed characters come between.
OutputFifo == Queue!Spec

\* The FIFO never gets more than it holds, although uartputc_sync() on one CPU
\* and uartstart() on another may both have seen it empty.  (The state is well-typed
\* besides.)
NoOverrun ==
  /\ TypeOK
  /\ Cardinality(Echoers) < DEPTH => Len(fifo) <= DEPTH

\* All characters are sent, unless uartputc_sync() never stops to get in first.
Drains ==
  <>[](\A e \in Echoers : pc[e] = "idle") => (uart_tx_w # uart_tx_r ~> uart_tx_w = uart_tx_r)
=============================================================================
