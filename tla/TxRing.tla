-------------------------------- MODULE TxRing ---------------------------------
(****************************************************************************)
(* Transmission through a ring (Buffer.h, BufferedSerial.cpp): the main loop *)
(* puts bytes and primes the UART, txIrq in the interrupt sends the rest.    *)
(*                                                                          *)
(* The interrupt runs as one step.  The main loop's accesses to the volatile *)
(* _wloc and _rloc are steps of their own, in the order of the build         *)
(* (build/bufferedserial.o): write() stores a byte before it steps _wloc,    *)
(* putc() after.                                                             *)
(****************************************************************************)
EXTENDS Integers, Sequences

CONSTANTS N,        \* the ring wraps at _size - 1 (799)
          Bytes,    \* the bytes
          SharedIrq \* whether the UART's receive interrupt calls txIrq too

ASSUME TxRingAssumption == N \in Nat /\ N >= 2 /\ Bytes # {} /\ SharedIrq \in BOOLEAN

VARIABLES buf, wloc, rloc, \* the ring
          at,     \* where the main loop is
          reg,    \* the index it has loaded
          ch,     \* the byte it is putting or has got
          uart,   \* the bytes in the UART: shift register, data register
          tc,     \* transmission complete
          irq,    \* [attached: the interrupt is enabled, handler: txIrq is known]
          wire,   \* the byte sent last
          caught  \* an interrupt has sent halfway through put or get, or detached

vars == <<buf, wloc, rloc, at, reg, ch, uart, tc, irq, wire, caught>>

Slots == 0 .. N - 1

Init ==
    /\ \E b \in Bytes : buf = [i \in 0 .. N |-> b] /\ ch = b /\ wire = b
    /\ wloc = 0 /\ rloc = 0
    /\ at = "idle" /\ reg = 0
    /\ uart = <<>> /\ tc = TRUE
    /\ irq = [attached |-> FALSE, handler |-> FALSE]
    /\ caught = FALSE

--------------------------------------------------------------------------------
(* The UART. *)

serial_writable == Len(uart) < 2

\* A byte leaves; with the last one the transmission is complete.
ShiftOut ==
    /\ uart # <<>>
    /\ wire' = Head(uart) /\ uart' = Tail(uart) /\ tc' = (uart' = <<>>)
    /\ UNCHANGED <<buf, wloc, rloc, at, reg, ch, irq, caught>>

\* An enabled interrupt is taken at once.
Pending == tc /\ irq.attached

--------------------------------------------------------------------------------
(* txIrq in the interrupt. *)

Next1(i) == (i + 1) % N

\* What it sends: all it can, and the UART is empty when it comes.
Sendable == IF wloc = rloc THEN <<>>
            ELSE IF wloc = Next1(rloc) THEN <<buf[rloc]>>
            ELSE <<buf[rloc], buf[Next1(rloc)]>>

\* Places where the main loop has put or got a byte by half.
Halfway == \/ at \in {"late", "get", "step", "read", "reload", "rwrap", "send"}
           \/ wloc = N

\* Nothing left to send: the interrupt is disabled.
DetachIfDone == irq' = [irq EXCEPT !.attached = @ /\ Len(uart') = 2]

txIrq ==
    /\ tc /\ irq.handler
    /\ irq.attached \/ SharedIrq
    /\ uart' = Sendable /\ tc' = FALSE
    /\ rloc' = IF Sendable = <<>> THEN rloc ELSE (rloc + Len(Sendable)) % N
    /\ DetachIfDone
    /\ caught' = (caught \/ (Sendable # <<>> /\ (Halfway \/ ~irq.attached)))
    /\ UNCHANGED <<buf, wloc, at, reg, ch, wire>>

--------------------------------------------------------------------------------
(* The main loop: putc, write, and prime. *)

Goes(from, to) == ~Pending /\ at = from /\ at' = to

Unsent == (wloc + N - rloc) % N

\* The ring overwrites by design (writeable(), 39) when it is full: here
\* the callers leave room.
Room == Unsent < N - 1

\* write(): the next byte is stored ...
StoreByte ==
    /\ \/ Goes("idle", "stored") /\ Room
       \/ Goes("more", "stored")
    /\ \E b \in Bytes : buf' = [buf EXCEPT ![wloc] = b] /\ ch' = b
    /\ UNCHANGED <<wloc, rloc, reg, uart, tc, irq, wire, caught>>

\* ... then _wloc is stepped.
StepWloc ==
    /\ Goes("stored", "wrap")
    /\ wloc' = wloc + 1
    /\ UNCHANGED <<buf, rloc, reg, ch, uart, tc, irq, wire, caught>>

\* putc(): the other way round.
StepFirst ==
    /\ Goes("idle", "late")
    /\ Room
    /\ \E b \in Bytes : ch' = b
    /\ wloc' = wloc + 1
    /\ UNCHANGED <<buf, rloc, reg, uart, tc, irq, wire, caught>>

StoreLate ==
    /\ Goes("late", "wrap")
    /\ buf' = [buf EXCEPT ![wloc - 1] = ch]
    /\ UNCHANGED <<wloc, rloc, reg, ch, uart, tc, irq, wire, caught>>

\* _wloc %= (_size-1); then the next byte of write(), or prime.
WrapWloc ==
    /\ \/ Goes("wrap", "more") /\ Room
       \/ Goes("wrap", "prime")
    /\ wloc' = wloc % N
    /\ UNCHANGED <<buf, rloc, reg, ch, uart, tc, irq, wire, caught>>

Detach == irq' = [irq EXCEPT !.attached = FALSE]

\* prime(): a busy UART will interrupt; otherwise the main loop sends.
prime ==
    /\ IF serial_writable
       THEN Goes("prime", "writable") /\ Detach
       ELSE Goes("prime", "idle") /\ UNCHANGED irq
    /\ UNCHANGED <<buf, wloc, rloc, reg, ch, uart, tc, wire, caught>>

\* txIrq called by prime: while the UART takes a byte ...
Writable ==
    /\ Goes("writable", IF serial_writable THEN "available" ELSE "attach")
    /\ UNCHANGED <<buf, wloc, rloc, reg, ch, uart, tc, irq, wire, caught>>

\* ... and there is one ...
Available ==
    /\ IF wloc = rloc
       THEN Goes("available", "attach") /\ Detach
       ELSE Goes("available", "get") /\ UNCHANGED irq
    /\ UNCHANGED <<buf, wloc, rloc, reg, ch, uart, tc, wire, caught>>

\* Mutant: the byte is read at the new index.
GotNext == ch' = buf[rloc]

Got == ch' = buf[reg]

\* ... get(): _rloc is loaded, its successor stored, the byte read, ...
LoadRloc ==
    /\ Goes("get", "step")
    /\ reg' = rloc
    /\ UNCHANGED <<buf, wloc, rloc, ch, uart, tc, irq, wire, caught>>

StepRloc ==
    /\ Goes("step", "read")
    /\ rloc' = reg + 1
    /\ UNCHANGED <<buf, wloc, reg, ch, uart, tc, irq, wire, caught>>

ReadByte ==
    /\ Goes("read", "reload")
    /\ Got
    /\ UNCHANGED <<buf, wloc, rloc, reg, uart, tc, irq, wire, caught>>

\* Mutant: _rloc wraps at _size.
StoreWrappedLate == rloc' = reg % (N + 1)

StoreWrapped == rloc' = reg % N

\* ... _rloc %= (_size-1) ...
ReloadRloc ==
    /\ Goes("reload", "rwrap")
    /\ reg' = rloc
    /\ UNCHANGED <<buf, wloc, rloc, ch, uart, tc, irq, wire, caught>>

WrapRloc ==
    /\ Goes("rwrap", "send")
    /\ StoreWrapped
    /\ UNCHANGED <<buf, wloc, reg, ch, uart, tc, irq, wire, caught>>

\* ... and serial_putc, which waits until the UART takes the byte.
SendByte ==
    /\ Goes("send", "writable")
    /\ serial_writable
    /\ uart' = Append(uart, ch) /\ tc' = FALSE
    /\ UNCHANGED <<buf, wloc, rloc, reg, ch, irq, wire, caught>>

\* Mutant: the interrupt is not enabled again.
AttachNever == irq' = [irq EXCEPT !.handler = TRUE]

AttachTxIrq == irq' = [attached |-> TRUE, handler |-> TRUE]

\* prime() attaches txIrq in the end.
Attach ==
    /\ Goes("attach", "idle")
    /\ AttachTxIrq
    /\ UNCHANGED <<buf, wloc, rloc, reg, ch, uart, tc, wire, caught>>

\* A call of write() or putc() begins, or goes on.
Begin    == at = "idle" /\ (StoreByte \/ StepFirst)
Continue == \/ StepWloc \/ StoreLate \/ WrapWloc \/ (at = "more" /\ StoreByte)
            \/ prime \/ Writable \/ Available \/ SendByte \/ Attach
            \/ LoadRloc \/ StepRloc \/ ReadByte \/ ReloadRloc \/ WrapRloc

Next == Begin \/ Continue \/ txIrq \/ ShiftOut

Spec == Init /\ [][Next]_vars

\* A call goes on to its end, and the UART sends and interrupts.
FairSpec == /\ Spec
            /\ WF_vars(Continue) /\ WF_vars(ShiftOut)
            /\ WF_vars(irq.attached /\ txIrq)

--------------------------------------------------------------------------------
(* Properties. *)

\* No access is outside the allocated ring, whatever the interrupts do; the
\* interrupt finds the UART empty.
IndicesSafe ==
    /\ wloc \in 0 .. N /\ rloc \in 0 .. N
    /\ at = "stored" \/ at = "idle" => wloc \in Slots
    /\ at = "read" => reg \in Slots
    /\ tc => uart = <<>>

\* What has been put and not sent: what is in the UART, in the main loop's hand,
\* and in the ring.
InHand   == IF at = "read" THEN <<buf[reg]>>
            ELSE IF at \in {"reload", "rwrap", "send"} THEN <<ch>> ELSE <<>>
InRing   == LET size == ((wloc + N) - (rloc % N)) % N
            IN  [i \in 1 .. IF at = "late" THEN size - 1 ELSE size |->
                    buf[(rloc + (i - 1)) % N]]
Pipeline == uart \o InHand \o InRing

Promise == INSTANCE DropOldest WITH Cap <- N + 2, queue <- Pipeline, got <- wire

\* Bytes leave the UART in the order they were put, each once ("pull the oldest
\* element", Buffer.h 93).
IsFifo == Promise!Spec

\* They do unless an interrupt has sent halfway through put or get, or detached:
\* nothing else between write, putc, prime and txIrq can disorder them.
FifoUnlessCaught ==
    Promise!Init /\ [][~caught' => Promise!Next]_<<Pipeline, wire>>

\* Nor is there anything else that leaves a byte in the ring: one that is not empty
\* is read on, by the main loop or, when prime finds the UART busy, by the
\* interrupt ("the irq will pick this up", BufferedSerial.cpp 123).
Waiting(r) == rloc = r /\ wloc # r
PickedUpUnlessCaught == \A r \in 0 .. N : Waiting(r) ~> ~Waiting(r) \/ caught
================================================================================
