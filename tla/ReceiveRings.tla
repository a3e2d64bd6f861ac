----------------------------- MODULE ReceiveRings ------------------------------
(****************************************************************************)
(* The two rings of received bytes: that of the phone (CircularBufferEx.hpp, *)
(* filled by BLE::SerialHandler, drained by CommBLE::GetMessage) and that of *)
(* the high-power reader (CircularBufferA.h, filled by                       *)
(* HiReader_SerialHandler, drained by HiReader_GetMessage).                  *)
(*                                                                          *)
(* An interrupt runs as one step: all have one priority.  The main loop,     *)
(* which drains one ring at a time, is interrupted between any two of its    *)
(* accesses to an index; the accesses are those of the build                 *)
(* (build/commble.o, build/highpowerreader.o).                               *)
(****************************************************************************)
EXTENDS Integers, Sequences

CONSTANTS N,          \* size of the phone's ring (wifi_buf, 256)
          BufferSize, \* size of the reader's ring (rd_buffer, 128)
          Bytes,      \* the bytes
          Flood       \* whether the reader's bytes come while its ring is full

ASSUME RingsAssumption ==
    /\ N \in Nat /\ N >= 2 /\ BufferSize \in Nat \ {0}
    /\ Bytes # {} /\ Flood \in BOOLEAN

VARIABLES m_buff, m_first, m_last,  \* the phone's ring
          pool, head, tail, full,   \* the reader's ring
          at,           \* where the main loop is
          reg,          \* the index it has loaded
          receivedData, \* the byte it has read from the phone's ring
          ch,           \* the byte it has read from the reader's ring
          between       \* interrupts since it began this operation

phone  == <<m_buff, m_first, m_last>>
reader == <<pool, head, tail, full>>
vars   == <<phone, reader, at, reg, receivedData, ch, between>>

Slots      == 0 .. N - 1
ReaderSlots == 0 .. BufferSize - 1

Next1(i)       == (i + 1) % N
NextReader1(i) == (i + 1) % BufferSize

\* The places in pop_front and in pop where an interrupt is counted.
InPop == {"pop_front", "test", "tail", "step", "read", "reload", "wrap", "clear"}

Init ==
    /\ \E b \in Bytes : /\ m_buff = [i \in Slots |-> b]
                        /\ pool = [i \in ReaderSlots |-> b]
                        /\ receivedData = b /\ ch = b
    /\ m_first = 0 /\ m_last = 0
    /\ head = 0 /\ tail = 0 /\ full = FALSE
    /\ at = "idle" /\ reg = 0 /\ between = {}

--------------------------------------------------------------------------------
(* The receive interrupts.  At 115200 baud a byte takes 87 us, an operation of *)
(* the main loop far less: each UART interrupts it once at most.              *)

Interrupts(uart) ==
    /\ uart \notin between
    /\ between' = IF at \in InPop THEN between \cup {uart} ELSE {}
    /\ UNCHANGED <<at, reg, receivedData, ch>>

\* Mutant: the front stays where it is when the ring is full.
PushWithoutDrop(item) ==
    /\ m_buff' = [m_buff EXCEPT ![m_last] = item]
    /\ m_last' = Next1(m_last)
    /\ UNCHANGED m_first

push_back(item) ==
    /\ m_buff' = [m_buff EXCEPT ![m_last] = item]
    /\ m_last' = Next1(m_last)
    /\ m_first' = IF m_first = m_last' THEN Next1(m_first) ELSE m_first

BLE_SerialHandler ==
    /\ \E b \in Bytes : push_back(b)
    /\ Interrupts("phone")
    /\ UNCHANGED reader

\* Mutant: _full is not set by the push that fills the ring.
PushNeverFull(b) ==
    /\ tail' = IF full THEN NextReader1(tail) ELSE tail
    /\ pool' = [pool EXCEPT ![head] = b]
    /\ head' = NextReader1(head)
    /\ full' = full

\* push(): into a full ring, the oldest byte is given up first.
push(b) ==
    /\ tail' = IF full THEN NextReader1(tail) ELSE tail
    /\ pool' = [pool EXCEPT ![head] = b]
    /\ head' = NextReader1(head)
    /\ full' = (full \/ head' = tail')

HiReader_SerialHandler ==
    /\ full => Flood
    /\ \E b \in Bytes : push(b)
    /\ Interrupts("reader")
    /\ UNCHANGED phone

--------------------------------------------------------------------------------
(* The main loop, access by access. *)

Goes(from, to) ==
    /\ at = from /\ at' = to
    /\ between' = IF to \in InPop THEN between ELSE {}

\* empty() of the phone's ring: m_last is loaded, ...
LoadLast ==
    /\ Goes("idle", "size")
    /\ reg' = m_last
    /\ UNCHANGED <<phone, reader, receivedData, ch>>

\* ... then m_first, and they are compared.
Compare ==
    /\ Goes("size", IF reg = m_first THEN "idle" ELSE "front")
    /\ UNCHANGED <<phone, reader, reg, receivedData, ch>>

\* front(): m_first is loaded, once for both calls, and the byte there.
front ==
    /\ Goes("front", "pop_front")
    /\ reg' = m_first /\ receivedData' = m_buff[m_first]
    /\ UNCHANGED <<phone, reader, ch>>

\* Mutant: the index that was loaded is stored again.
PopInPlace == m_first' = reg

\* pop_front(): the index loaded, plus one, is stored.
StoreFirst == m_first' = Next1(reg)

pop_front ==
    /\ Goes("pop_front", "idle")
    /\ StoreFirst
    /\ UNCHANGED <<m_buff, m_last, reader, reg, receivedData, ch>>

GetMessage == LoadLast \/ Compare \/ front \/ pop_front

\* empty() of the reader's ring: _head is loaded; ...
LoadHead ==
    /\ Goes("idle", "test")
    /\ reg' = head
    /\ UNCHANGED <<phone, reader, receivedData, ch>>

\* ... then _tail and, if they are equal, _full.
Test ==
    /\ Goes("test", IF reg = tail /\ ~full THEN "idle" ELSE "tail")
    /\ UNCHANGED <<phone, reader, reg, receivedData, ch>>

\* _pool[_tail++]: the index is loaded, its successor stored, the byte read.
LoadTail ==
    /\ Goes("tail", "step")
    /\ reg' = tail
    /\ UNCHANGED <<phone, reader, receivedData, ch>>

StepTail ==
    /\ Goes("step", "read")
    /\ tail' = reg + 1
    /\ UNCHANGED <<phone, pool, head, full, reg, receivedData, ch>>

ReadByte ==
    /\ Goes("read", "reload")
    /\ ch' = pool[reg]
    /\ UNCHANGED <<phone, reader, reg, receivedData>>

\* _tail %= BufferSize.
ReloadTail ==
    /\ Goes("reload", "wrap")
    /\ reg' = tail
    /\ UNCHANGED <<phone, reader, receivedData, ch>>

WrapTail == tail' = reg % BufferSize

Wrap ==
    /\ Goes("wrap", "clear")
    /\ WrapTail
    /\ UNCHANGED <<phone, pool, head, full, reg, receivedData, ch>>

\* _full = false.
ClearFull ==
    /\ Goes("clear", "idle")
    /\ full' = FALSE
    /\ UNCHANGED <<phone, pool, head, tail, reg, receivedData, ch>>

pop == LoadHead \/ Test \/ LoadTail \/ StepTail \/ ReadByte \/ ReloadTail \/ Wrap \/ ClearFull

Next == BLE_SerialHandler \/ HiReader_SerialHandler \/ GetMessage \/ pop

Spec == Init /\ [][Next]_vars

--------------------------------------------------------------------------------
(* What they promise. *)

\* The n bytes from an index on.
Stored(cells, size, from, n) == [i \in 1 .. n |-> cells[(from + (i - 1)) % size]]

\* The phone's bytes not yet read: what front has loaded is read.
Front    == IF at = "pop_front" THEN Next1(reg) ELSE m_first
Size     == IF m_last >= Front THEN m_last - Front ELSE N + m_last - Front
Contents == Stored(m_buff, N, Front, Size)

\* The reader's: a pop has happened once its byte is read; until then, that byte
\* is the oldest.
Stepped        == at \in {"read", "reload", "wrap", "clear"}
Used           == ((head + BufferSize) - (tail % BufferSize)) % BufferSize
ReaderSize     == IF full /\ ~Stepped THEN BufferSize ELSE Used
Rest           == Stored(pool, BufferSize, tail % BufferSize, ReaderSize)
ReaderContents == IF at = "read" THEN <<pool[reg]>> \o Rest ELSE Rest

\* No access is outside its ring, and neither loop takes a byte that is not there;
\* at pop_front m_first is where it was or, after an interrupt on a full ring, one
\* further.
RingsSound ==
    /\ m_first \in Slots /\ m_last \in Slots /\ head \in ReaderSlots
    /\ at = "front" => m_first # m_last
    /\ at = "pop_front" => \/ m_first = reg
                           \/ "phone" \in between /\ m_first = Next1(reg)
    /\ at \in {"tail", "step"} => head # tail \/ full
    /\ at = "read" => reg \in ReaderSlots

PhonePromise == INSTANCE DropOldest WITH Cap <- N - 1, queue <- Contents, got <- receivedData

ReaderPromise == INSTANCE DropOldest WITH Cap <- BufferSize, queue <- ReaderContents, got <- ch

\* However the interrupts fall, the phone's ring is a queue of N - 1 bytes that
\* forgets its oldest when it is full ("delete the frontmost data", 180): no byte
\* is read twice, lost early or out of order.
PhoneIsDropOldest == PhonePromise!Spec

\* The reader's ring is a queue of BufferSize bytes.
ReaderIsDropOldest == ReaderPromise!Spec
================================================================================
