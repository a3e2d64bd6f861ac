------------------------------ MODULE TxRingProofs ------------------------------
(* The transmit ring, for every size of it: no access is outside the allocated   *)
(* bytes, although main loop and interrupt move _rloc under each other's hands,  *)
(* and what an interrupt does not send halfway through put or get goes out in    *)
(* the order it was put, with an interrupt coming for what a call leaves.        *)
EXTENDS TxRing, SequenceTheorems, TLAPS

Places == {"idle", "stored", "more", "late", "wrap", "prime", "writable", "available", "get",
           "step", "read", "reload", "rwrap", "send", "attach"}

\* An index is one past the ring only between its step and its wrap.
IndexInv ==
    /\ at \in Places
    /\ wloc \in 0 .. N /\ (wloc = N => at \in {"late", "wrap"})
    /\ rloc \in 0 .. N /\ (rloc = N => at \in {"read", "reload", "rwrap"})
    /\ at \in {"step", "read"} => reg \in Slots
    /\ at = "rwrap" => reg \in 0 .. N
    /\ tc => uart = <<>>

--------------------------------------------------------------------------------

LEMMA Sizes == N \in Nat \ {0}
  BY TxRingAssumption

LEMMA ModRange == ASSUME NEW i \in Int PROVE i % N \in 0 .. N - 1
  BY Sizes

LEMMA InitIndex == Init => IndexInv
  BY Sizes DEF Init, IndexInv, Places

LEMMA InterruptKeeps == IndexInv /\ txIrq => IndexInv'
<1> SUFFICES ASSUME IndexInv, txIrq PROVE IndexInv'
  OBVIOUS
<1>1. UNCHANGED <<wloc, at, reg>> /\ ~tc'
  BY DEF txIrq
<1>2. rloc' = IF Sendable = <<>> THEN rloc ELSE (rloc + Len(Sendable)) % N
  BY DEF txIrq
<1>3. Len(Sendable) \in Int
  BY DEF Sendable
<1>4. rloc \in 0 .. N
  BY DEF IndexInv
<1>5. (rloc + Len(Sendable)) % N \in 0 .. N - 1
  <2>1. rloc + Len(Sendable) \in Int
    BY <1>3, <1>4, Sizes
  <2> QED BY <2>1, ModRange
<1>6. rloc' = rloc \/ rloc' \in 0 .. N - 1
  BY <1>2, <1>5
<1> QED BY <1>1, <1>6, Sizes DEF IndexInv

LEMMA NextIndex == IndexInv /\ [Next]_vars => IndexInv'
<1> SUFFICES ASSUME IndexInv, [Next]_vars PROVE IndexInv'
  OBVIOUS
<1> USE Sizes DEF IndexInv, Goes, Places, Slots
<1>1. CASE StoreByte
  BY <1>1 DEF StoreByte
<1>2. CASE StepWloc
  BY <1>2 DEF StepWloc
<1>3. CASE StepFirst
  BY <1>3 DEF StepFirst
<1>4. CASE StoreLate
  BY <1>4 DEF StoreLate
<1>5. CASE WrapWloc
  <2>1. wloc % N \in 0 .. N - 1
    BY ModRange
  <2> QED BY <1>5, <2>1 DEF WrapWloc
<1>6. CASE prime
  BY <1>6 DEF prime
<1>7. CASE Writable
  BY <1>7 DEF Writable
<1>8. CASE Available
  BY <1>8 DEF Available
<1>9. CASE LoadRloc
  BY <1>9 DEF LoadRloc
<1>10. CASE StepRloc
  BY <1>10 DEF StepRloc
<1>11. CASE ReadByte
  BY <1>11 DEF ReadByte
<1>12. CASE ReloadRloc
  BY <1>12 DEF ReloadRloc
<1>13. CASE WrapRloc
  <2>1. reg \in Int
    BY <1>13 DEF WrapRloc
  <2>2. reg % N \in 0 .. N - 1
    BY <2>1, ModRange
  <2> QED BY <1>13, <2>2 DEF WrapRloc, StoreWrapped
<1>14. CASE SendByte
  BY <1>14 DEF SendByte
<1>15. CASE Attach
  BY <1>15 DEF Attach
<1>16. CASE ShiftOut
  BY <1>16 DEF ShiftOut
<1>17. CASE UNCHANGED vars
  BY <1>17 DEF vars
<1> QED BY <1>1, <1>2, <1>3, <1>4, <1>5, <1>6, <1>7, <1>8, <1>9, <1>10, <1>11, <1>12, <1>13,
           <1>14, <1>15, <1>16, <1>17, InterruptKeeps DEF Next, Begin, Continue

--------------------------------------------------------------------------------

\* Whatever the interrupt does to the indices, the main loop stores and reads within the
\* ring, and the interrupt finds the UART empty.
THEOREM IndicesStaySafe == Spec => []IndicesSafe
<1>1. IndexInv => IndicesSafe
  BY Sizes DEF IndexInv, IndicesSafe, Slots
<1> QED BY <1>1, InitIndex, NextIndex, PTL DEF Spec

--------------------------------------------------------------------------------
(* Bytes stored in the ring, from any place and of any number. *)

Cells(cells, from, n) == [i \in 1 .. n |-> cells[(from + (i - 1)) % N]]

\* A ring, an index in it or one past it, and how many bytes there are from it on.
Ring(cells, from, n) == cells \in [0 .. N -> Bytes] /\ from \in 0 .. N /\ n \in 0 .. N

LEMMA Index ==
    ASSUME NEW n \in Nat \ {0}, NEW from \in 0 .. n, NEW k \in 0 .. n - 1
    PROVE  (from + k) % n = IF from + k < n THEN from + k ELSE (from + k) - n
  OBVIOUS

LEMMA RingIndex ==
    ASSUME NEW from \in 0 .. N, NEW k \in 0 .. N - 1
    PROVE  /\ (from + k) % N = IF from + k < N THEN from + k ELSE (from + k) - N
           /\ (from + k) % N \in 0 .. N - 1
<1>1. (from + k) % N = IF from + k < N THEN from + k ELSE (from + k) - N
  BY Sizes, Index
<1> QED BY <1>1, Sizes

LEMMA Wrapped ==
    ASSUME NEW n \in Nat \ {0}, NEW i \in 0 .. n
    PROVE  i % n = IF i = n THEN 0 ELSE i
  OBVIOUS

LEMMA CellsSeq ==
    ASSUME NEW cells, NEW from, NEW n, Ring(cells, from, n)
    PROVE  /\ Cells(cells, from, n) \in Seq(Bytes)
           /\ Len(Cells(cells, from, n)) = n
           /\ \A i \in 1 .. n : Cells(cells, from, n)[i] = cells[(from + (i - 1)) % N]
<1>1. \A i \in 1 .. n : i - 1 \in 0 .. N - 1
  BY Sizes DEF Ring
<1>2. \A i \in 1 .. n : (from + (i - 1)) % N \in 0 .. N
  BY <1>1, RingIndex, Sizes DEF Ring
<1>3. Cells(cells, from, n) \in [1 .. n -> Bytes]
  BY <1>2 DEF Ring, Cells
<1>4. n \in Nat
  BY Sizes DEF Ring
<1>5. Cells(cells, from, n) \in Seq(Bytes)
  BY <1>3, <1>4, SeqDef
<1> QED BY <1>3, <1>4, <1>5, LenProperties DEF Cells

\* Nothing but the bytes from the index on counts.
LEMMA CellsSame ==
    ASSUME NEW cells, NEW from, NEW n, Ring(cells, from, n),
           NEW after, Ring(after, from, n),
           \A i \in 1 .. n : after[(from + (i - 1)) % N] = cells[(from + (i - 1)) % N]
    PROVE  Cells(after, from, n) = Cells(cells, from, n)
  BY DEF Cells

\* An index one past the ring is its start.
LEMMA CellsWrap ==
    ASSUME NEW cells, NEW from \in 0 .. N, NEW n \in 0 .. N
    PROVE  Cells(cells, from % N, n) = Cells(cells, from, n)
<1>2. from % N = IF from = N THEN 0 ELSE from
  BY Sizes, Wrapped
<1>4. ASSUME NEW i \in 1 .. n
      PROVE  ((from % N) + (i - 1)) % N = (from + (i - 1)) % N
  <2>1. i - 1 \in 0 .. N - 1
    BY Sizes
  <2>2. (from + (i - 1)) % N = IF from + (i - 1) < N THEN from + (i - 1) ELSE (from + (i - 1)) - N
    BY <2>1, RingIndex
  <2>3. CASE from # N
    BY <1>2, <2>3
  <2>4. CASE from = N
    <3>1. from % N = 0 /\ 0 \in 0 .. N
      BY <1>2, <2>4, Sizes
    <3>2. (0 + (i - 1)) % N = IF 0 + (i - 1) < N THEN 0 + (i - 1) ELSE (0 + (i - 1)) - N
      BY <2>1, <3>1, RingIndex
    <3> QED BY <2>1, <2>2, <2>4, <3>1, <3>2, Sizes
  <2> QED BY <2>3, <2>4, Sizes
<1> QED BY <1>4 DEF Cells

\* A byte behind the others is appended.
LEMMA CellsAppend ==
    ASSUME NEW cells, NEW from, NEW n, n \in 0 .. N - 1, Ring(cells, from, n)
    PROVE  Cells(cells, from, n + 1) = Append(Cells(cells, from, n), cells[(from + n) % N])
<1> DEFINE old == Cells(cells, from, n)
           new == Cells(cells, from, n + 1)
           b   == cells[(from + n) % N]
<1>1. Ring(cells, from, n + 1)
  BY Sizes DEF Ring
<1>2. new \in Seq(Bytes) /\ Len(new) = n + 1
      /\ \A i \in 1 .. n + 1 : new[i] = cells[(from + (i - 1)) % N]
  BY <1>1, CellsSeq
<1>3. old \in Seq(Bytes) /\ Len(old) = n
      /\ \A i \in 1 .. n : old[i] = cells[(from + (i - 1)) % N]
  BY CellsSeq
<1>4. b \in Bytes
  <2>1. (from + n) % N \in 0 .. N
    BY RingIndex, Sizes DEF Ring
  <2> QED BY <2>1 DEF Ring
<1>5. n \in Nat
  BY Sizes
<1>6. new[n + 1] = b
  <2>1. n + 1 \in 1 .. n + 1 /\ from + ((n + 1) - 1) = from + n
    BY <1>5, Sizes DEF Ring
  <2> QED BY <1>2, <2>1
<1> HIDE DEF old, new, b
<1>7. /\ Append(old, b) \in Seq(Bytes) /\ Len(Append(old, b)) = n + 1
      /\ \A i \in 1 .. n : Append(old, b)[i] = old[i]
      /\ Append(old, b)[n + 1] = b
  BY <1>3, <1>4, AppendProperties
<1>8. \A i \in 1 .. n + 1 : new[i] = Append(old, b)[i]
  BY <1>2, <1>3, <1>5, <1>6, <1>7
<1>9. new = Append(old, b)
  BY <1>2, <1>7, <1>8, SeqEqual
<1> QED BY <1>9 DEF old, new, b

\* The oldest byte is the one at the index, the others are from the next on.
LEMMA CellsFirst ==
    ASSUME NEW cells, NEW from, NEW n, n \in 1 .. N, from \in 0 .. N - 1, Ring(cells, from, n)
    PROVE  /\ cells[from] \in Bytes
           /\ Cells(cells, from, n) = <<cells[from]>> \o Cells(cells, from + 1, n - 1)
<1> DEFINE old == Cells(cells, from, n)
           new == Cells(cells, from + 1, n - 1)
           one == <<cells[from]>>
<1>1. from + 1 \in 0 .. N /\ Ring(cells, from + 1, n - 1)
  BY Sizes DEF Ring
<1>2. new \in Seq(Bytes) /\ Len(new) = n - 1
      /\ \A i \in 1 .. n - 1 : new[i] = cells[((from + 1) + (i - 1)) % N]
  <2>1. PICK next, rest : next = from + 1 /\ rest = n - 1
    OBVIOUS
  <2>2. Ring(cells, next, rest)
    BY <1>1, <2>1
  <2>3. /\ Cells(cells, next, rest) \in Seq(Bytes) /\ Len(Cells(cells, next, rest)) = rest
        /\ \A i \in 1 .. rest : Cells(cells, next, rest)[i] = cells[(next + (i - 1)) % N]
    BY <2>2, CellsSeq
  <2> QED BY <2>1, <2>3
<1>3. old \in Seq(Bytes) /\ Len(old) = n
      /\ \A i \in 1 .. n : old[i] = cells[(from + (i - 1)) % N]
  BY CellsSeq
<1>4. cells[from] \in Bytes
  BY Sizes DEF Ring
<1>5. old[1] = cells[from]
  <2>1. from + (1 - 1) = from /\ 1 \in 1 .. n
    BY Sizes DEF Ring
  <2>2. from % N = from
    BY Sizes, Wrapped
  <2> QED BY <1>3, <2>1, <2>2
<1>6. ASSUME NEW i \in 2 .. n PROVE old[i] = new[i - 1]
  <2>1. i \in 1 .. n /\ i - 1 \in 1 .. n - 1 /\ (from + 1) + ((i - 1) - 1) = from + (i - 1)
    BY Sizes DEF Ring
  <2> QED BY <1>2, <1>3, <2>1
<1>7. one \in Seq(Bytes) /\ Len(one) = 1 /\ one[1] = cells[from]
  BY <1>4
<1> HIDE DEF old, new, one
<1>8. /\ one \o new \in Seq(Bytes) /\ Len(one \o new) = Len(one) + Len(new)
      /\ \A i \in 1 .. Len(one) + Len(new) :
            (one \o new)[i] = IF i <= Len(one) THEN one[i] ELSE new[i - Len(one)]
  BY <1>2, <1>7, ConcatProperties
<1>9. Len(one) + Len(new) = n
  BY <1>2, <1>7, Sizes
<1>10. \A i \in 1 .. n : old[i] = (one \o new)[i]
  BY <1>5, <1>6, <1>7, <1>8, <1>9, Sizes
<1>11. old = one \o new
  BY <1>3, <1>8, <1>9, <1>10, SeqEqual
<1> QED BY <1>4, <1>11 DEF old, new, one

--------------------------------------------------------------------------------
(* How many bytes are in the ring, and what it takes that they are in order. *)

SizeOf(w, r) == ((w + N) - (r % N)) % N
Size == SizeOf(wloc, rloc)

LEMMA Difference ==
    ASSUME NEW n \in Nat \ {0}, NEW w \in 0 .. n, NEW r \in 0 .. n - 1
    PROVE  ((w + n) - r) % n = IF w = n THEN IF r = 0 THEN 0 ELSE n - r
                               ELSE IF w >= r THEN w - r ELSE (w + n) - r
  OBVIOUS

\* An index, or the ring's start for one past it.
Start(i) == IF i = N THEN 0 ELSE i

LEMMA SizeIs ==
    ASSUME NEW w \in 0 .. N, NEW r \in 0 .. N
    PROVE  /\ SizeOf(w, r) = IF Start(w) >= Start(r) THEN Start(w) - Start(r)
                             ELSE (Start(w) + N) - Start(r)
           /\ SizeOf(w, r) \in 0 .. N - 1
           /\ (r + SizeOf(w, r)) % N = Start(w)
<1> DEFINE from == Start(r)
           to   == Start(w)
<1>1. r % N = from /\ from \in 0 .. N - 1 /\ to \in 0 .. N - 1
  <2>1. r % N = IF r = N THEN 0 ELSE r
    BY Sizes, Wrapped
  <2> QED BY <2>1, Sizes DEF Start
<1>2. from = (IF r = N THEN 0 ELSE r) /\ to = (IF w = N THEN 0 ELSE w)
  BY DEF Start
<1> HIDE DEF from, to
<1>3. ((w + N) - from) % N = IF w = N THEN IF from = 0 THEN 0 ELSE N - from
                             ELSE IF w >= from THEN w - from ELSE (w + N) - from
  BY <1>1, Sizes, Difference
<1>4. SizeOf(w, r) = IF to >= from THEN to - from ELSE (to + N) - from
  BY <1>1, <1>2, <1>3, Sizes DEF SizeOf
<1>5. SizeOf(w, r) \in 0 .. N - 1
  BY <1>1, <1>4, Sizes
<1>6. (r + SizeOf(w, r)) % N
        = IF r + SizeOf(w, r) < N THEN r + SizeOf(w, r) ELSE (r + SizeOf(w, r)) - N
  BY <1>5, RingIndex
<1>7. (r + SizeOf(w, r)) % N = to
  BY <1>1, <1>2, <1>4, <1>5, <1>6, Sizes
<1> QED BY <1>4, <1>5, <1>7 DEF from, to

RingTypes ==
    /\ buf \in [0 .. N -> Bytes] /\ ch \in Bytes /\ wire \in Bytes
    /\ uart \in Seq(Bytes) /\ Len(uart) <= 2

\* As long as no interrupt has caught put or get halfway, what the main loop has loaded
\* is current, there is a byte to get, and there is room for the one being put.
Current ==
    /\ at \in {"stored", "more"} => Size < N - 1
    /\ at = "late" => Size > 0 /\ wloc > 0
    /\ at \in {"get", "step"} => wloc # rloc
    /\ at \in {"step", "rwrap"} => reg = rloc
    /\ at = "read" => rloc = reg + 1

FifoInv == IndexInv /\ RingTypes /\ (~caught => Current)

LEMMA InRingIs ==
    /\ InRing  = Cells(buf, rloc, IF at = "late" THEN Size - 1 ELSE Size)
    /\ InRing' = Cells(buf', rloc', IF at' = "late" THEN Size' - 1 ELSE Size')
  BY DEF InRing, Cells, Size, SizeOf

LEMMA SizeNow ==
    ASSUME IndexInv
    PROVE  /\ Size \in 0 .. N - 1
           /\ (rloc + Size) % N = IF wloc = N THEN 0 ELSE wloc
           /\ wloc # N /\ rloc # N =>
                 Size = IF wloc >= rloc THEN wloc - rloc ELSE (wloc + N) - rloc
  BY SizeIs, Sizes DEF IndexInv, Size, Start

LEMMA SizeThen ==
    ASSUME IndexInv'
    PROVE  /\ Size' \in 0 .. N - 1
           /\ (rloc' + Size') % N = IF wloc' = N THEN 0 ELSE wloc'
           /\ wloc' # N /\ rloc' # N =>
                 Size' = IF wloc' >= rloc' THEN wloc' - rloc' ELSE (wloc' + N) - rloc'
<1>1. Size' = SizeOf(wloc', rloc')
  BY DEF Size, SizeOf
<1> QED BY <1>1, SizeIs, Sizes DEF IndexInv, Start

LEMMA RoomIs == IndexInv /\ at \in {"idle", "wrap"} => Unsent = Size
<1> SUFFICES ASSUME IndexInv, at \in {"idle", "wrap"} PROVE Unsent = Size
  OBVIOUS
<1>1. rloc \in 0 .. N - 1
  BY Sizes DEF IndexInv
<1>2. rloc % N = rloc
  BY <1>1, Sizes, Wrapped
<1>3. (wloc + N) - (rloc % N) = wloc + (N - rloc)
  BY <1>1, <1>2, Sizes DEF IndexInv
<1> QED BY <1>3, Zenon DEF Unsent, Size, SizeOf

\* The bytes of the UART, of the main loop's hand and of the ring are sequences.
LEMMA PipelineSeq ==
    ASSUME FifoInv
    PROVE  /\ uart \in Seq(Bytes) /\ InHand \in Seq(Bytes) /\ Len(InHand) <= 1
           /\ (at = "late" => Size > 0) => InRing \in Seq(Bytes) /\ Len(InRing) <= N - 1
<1>1. InHand \in Seq(Bytes) /\ Len(InHand) <= 1
  <2>1. CASE at = "read"
    <3>1. buf[reg] \in Bytes
      BY <2>1, Sizes DEF FifoInv, IndexInv, RingTypes, Slots
    <3> QED BY <2>1, <3>1 DEF InHand
  <2>2. CASE at # "read"
    BY <2>2 DEF InHand, FifoInv, RingTypes
  <2> QED BY <2>1, <2>2
<1>2. ASSUME at = "late" => Size > 0 PROVE InRing \in Seq(Bytes) /\ Len(InRing) <= N - 1
  <2> DEFINE n == IF at = "late" THEN Size - 1 ELSE Size
  <2>1. Size \in 0 .. N - 1
    BY SizeNow DEF FifoInv
  <2>2. n \in 0 .. N - 1
    BY <1>2, <2>1, Sizes
  <2>3. Ring(buf, rloc, n)
    BY <2>2, Sizes DEF Ring, FifoInv, IndexInv, RingTypes
  <2>4. InRing = Cells(buf, rloc, n)
    BY InRingIs
  <2> HIDE DEF n
  <2> QED BY <2>2, <2>3, <2>4, CellsSeq, Sizes
<1> QED BY <1>1, <1>2 DEF FifoInv, RingTypes

--------------------------------------------------------------------------------
(* The invariant is kept. *)

LEMMA Pair ==
    ASSUME NEW a \in Bytes, NEW b \in Bytes, NEW s \in Seq(Bytes)
    PROVE  <<a>> \o (<<b>> \o s) = <<a, b>> \o s
<1>1. <<a>> \in Seq(Bytes) /\ <<b>> \in Seq(Bytes)
  OBVIOUS
<1>2. <<a, b>> \in Seq(Bytes)
  OBVIOUS
<1>3. <<a>> \o <<b>> = <<a, b>>
  <2>1. /\ <<a>> \o <<b>> \in Seq(Bytes) /\ Len(<<a>> \o <<b>>) = Len(<<a>>) + Len(<<b>>)
        /\ \A i \in 1 .. Len(<<a>>) + Len(<<b>>) :
              (<<a>> \o <<b>>)[i] = IF i <= Len(<<a>>) THEN <<a>>[i] ELSE <<b>>[i - Len(<<a>>)]
    BY <1>1, ConcatProperties
  <2>2. Len(<<a>> \o <<b>>) = 2 /\ (<<a>> \o <<b>>)[1] = a /\ (<<a>> \o <<b>>)[2] = b
    BY <2>1
  <2>3. \A i \in 1 .. 2 : (<<a>> \o <<b>>)[i] = <<a, b>>[i]
    BY <2>2
  <2> QED BY <1>2, <2>1, <2>2, <2>3, SeqEqual
<1>4. (<<a>> \o <<b>>) \o s = <<a>> \o (<<b>> \o s)
  BY <1>1, ConcatAssociative
<1> QED BY <1>3, <1>4

\* What the interrupt sends when it catches nothing is the oldest of the ring.
LEMMA InterruptSends ==
    ASSUME FifoInv, txIrq, ~caught', Sendable # <<>>
    PROVE  /\ ~Halfway /\ uart = <<>>
           /\ Sendable \in Seq(Bytes) /\ Len(Sendable) <= 2 /\ Size' < Size
           /\ Cells(buf, rloc, Size) = Sendable \o Cells(buf, rloc', Size')
           /\ Cells(buf, rloc', Size') \in Seq(Bytes)
<1>1. ~Halfway /\ uart = <<>> /\ wloc' = wloc /\ rloc' = (rloc + Len(Sendable)) % N
  BY DEF txIrq, FifoInv, IndexInv
<1>2. wloc \in 0 .. N - 1 /\ rloc \in 0 .. N - 1 /\ wloc # rloc
  BY <1>1, Sizes DEF FifoInv, IndexInv, Halfway, Sendable
<1>3. Size = IF wloc >= rloc THEN wloc - rloc ELSE (wloc + N) - rloc
  BY <1>2, SizeNow, Sizes DEF FifoInv
<1>4. Size \in 1 .. N - 1 /\ buf \in [0 .. N -> Bytes]
  BY <1>2, <1>3, Sizes DEF FifoInv, RingTypes
<1>5. IndexInv'
  BY InterruptKeeps DEF FifoInv
<1> DEFINE r1 == Next1(rloc)
           r2 == Next1(r1)
<1>6. /\ 1 \in 0 .. N - 1
      /\ r1 = (IF rloc + 1 < N THEN rloc + 1 ELSE (rloc + 1) - N) /\ r1 \in 0 .. N - 1
  BY <1>2, RingIndex, Sizes DEF Next1
<1>7. /\ buf[rloc] \in Bytes
      /\ Cells(buf, rloc, Size) = <<buf[rloc]>> \o Cells(buf, r1, Size - 1)
  <2>1. Ring(buf, rloc, Size) /\ Size \in 1 .. N
    BY <1>2, <1>4, Sizes DEF Ring
  <2>2. /\ buf[rloc] \in Bytes
        /\ Cells(buf, rloc, Size) = <<buf[rloc]>> \o Cells(buf, rloc + 1, Size - 1)
    BY <1>2, <2>1, CellsFirst
  <2>3. Cells(buf, (rloc + 1) % N, Size - 1) = Cells(buf, rloc + 1, Size - 1)
    <3>1. PICK f, k : f = rloc + 1 /\ k = Size - 1
      OBVIOUS
    <3>2. f \in 0 .. N /\ k \in 0 .. N
      BY <1>2, <1>4, <3>1, Sizes
    <3>3. Cells(buf, f % N, k) = Cells(buf, f, k)
      BY <3>2, CellsWrap
    <3> QED BY <3>1, <3>3
  <2> QED BY <2>2, <2>3 DEF Next1
<1> HIDE DEF r1
<1>8. CASE wloc = r1
  <2>1. Sendable = <<buf[rloc]>>
    BY <1>2, <1>8 DEF Sendable, r1
  <2>2. Len(Sendable) = 1
    BY <2>1
  <2>3. rloc' = r1
    BY <1>1, <2>2 DEF Next1, r1
  <2>4. Size = 1 /\ Size' = 0
    <3>1. Size' = IF wloc' >= rloc' THEN wloc' - rloc' ELSE (wloc' + N) - rloc'
      BY <1>1, <1>2, <1>5, <1>6, <2>3, SizeThen, Sizes
    <3> QED BY <1>1, <1>2, <1>3, <1>6, <1>8, <2>3, <3>1, Sizes
  <2>5. Cells(buf, r1, 0) \in Seq(Bytes)
    <3>1. Ring(buf, r1, 0)
      BY <1>4, <1>6, Sizes DEF Ring
    <3> QED BY <3>1, CellsSeq
  <2>6. Sendable \in Seq(Bytes)
    BY <1>7, <2>1
  <2> QED BY <1>1, <1>7, <2>1, <2>2, <2>3, <2>4, <2>5, <2>6
<1>9. CASE wloc # r1
  <2>1. Sendable = <<buf[rloc], buf[r1]>>
    BY <1>2, <1>9 DEF Sendable, r1
  <2>2. Len(Sendable) = 2
    BY <2>1
  <2>3. Size \in 2 .. N - 1 /\ 2 \in 0 .. N - 1
    BY <1>2, <1>3, <1>4, <1>6, <1>9, Sizes
  <2>4. r2 = (IF r1 + 1 < N THEN r1 + 1 ELSE (r1 + 1) - N) /\ r2 \in 0 .. N - 1
    <3>1. (r1 + 1) % N = IF r1 + 1 < N THEN r1 + 1 ELSE (r1 + 1) - N
      <4>1. PICK r, k : r = r1 /\ k = 1
        OBVIOUS
      <4>2. r \in 0 .. N /\ k \in 0 .. N - 1
        BY <1>6, <4>1, Sizes
      <4>3. (r + k) % N = IF r + k < N THEN r + k ELSE (r + k) - N
        BY <4>2, RingIndex
      <4> QED BY <4>1, <4>3
    <3>2. r2 = (r1 + 1) % N
      BY DEF Next1
    <3> QED BY <1>6, <3>1, <3>2, Sizes
  <2>5. (rloc + 2) % N = IF rloc + 2 < N THEN rloc + 2 ELSE (rloc + 2) - N
    BY <1>2, <2>3, RingIndex, Sizes
  <2>6. rloc' = r2
    BY <1>1, <1>2, <1>6, <2>2, <2>4, <2>5, Sizes
  <2>7. Size' = Size - 2
    <3>1. Size' = IF wloc' >= rloc' THEN wloc' - rloc' ELSE (wloc' + N) - rloc'
      BY <1>1, <1>2, <1>5, <2>4, <2>6, SizeThen, Sizes
    <3> QED BY <1>1, <1>2, <1>3, <1>6, <1>9, <2>3, <2>4, <2>6, <3>1, Sizes
  <2>8. /\ buf[r1] \in Bytes
        /\ Cells(buf, r1, Size - 1) = <<buf[r1]>> \o Cells(buf, r2, Size - 2)
    <3>1. PICK k : k = Size - 1
      OBVIOUS
    <3>2. Ring(buf, r1, k) /\ k \in 1 .. N
      BY <1>4, <1>6, <2>3, <3>1, Sizes DEF Ring
    <3>3. /\ buf[r1] \in Bytes
          /\ Cells(buf, r1, k) = <<buf[r1]>> \o Cells(buf, r1 + 1, k - 1)
      BY <1>6, <3>2, CellsFirst
    <3>4. Cells(buf, (r1 + 1) % N, k - 1) = Cells(buf, r1 + 1, k - 1)
      <4>1. PICK f, l : f = r1 + 1 /\ l = k - 1
        OBVIOUS
      <4>2. f \in 0 .. N /\ l \in 0 .. N
        BY <1>6, <3>2, <4>1, Sizes
      <4>3. Cells(buf, f % N, l) = Cells(buf, f, l)
        BY <4>2, CellsWrap
      <4> QED BY <4>1, <4>3
    <3>5. k - 1 = Size - 2
      BY <2>3, <3>1, Sizes
    <3> QED BY <3>1, <3>3, <3>4, <3>5 DEF Next1
  <2> HIDE DEF r2
  <2>9. Cells(buf, r2, Size - 2) \in Seq(Bytes)
    <3>1. PICK k : k = Size - 2
      OBVIOUS
    <3>2. Ring(buf, r2, k)
      BY <1>4, <2>3, <2>4, <3>1, Sizes DEF Ring
    <3> QED BY <3>1, <3>2, CellsSeq
  <2>10. Cells(buf, rloc, Size) = Sendable \o Cells(buf, r2, Size - 2)
    BY <1>7, <2>1, <2>8, <2>9, Pair
  <2>11. Sendable \in Seq(Bytes)
    BY <1>7, <2>1, <2>8
  <2>12. Size' < Size
    BY <2>3, <2>7, Sizes
  <2>13. Cells(buf, rloc', Size') = Cells(buf, r2, Size - 2) /\ Len(Sendable) <= 2
    BY <2>2, <2>6, <2>7
  <2> QED BY <1>1, <2>9, <2>10, <2>11, <2>12, <2>13
<1> QED BY <1>8, <1>9

LEMMA SendableSeq == IndexInv /\ RingTypes => Sendable \in Seq(Bytes) /\ Len(Sendable) <= 2
<1> SUFFICES ASSUME IndexInv, RingTypes
             PROVE  Sendable \in Seq(Bytes) /\ Len(Sendable) <= 2
  OBVIOUS
<1>1. Next1(rloc) \in 0 .. N
  <2>1. rloc + 1 \in Int
    BY Sizes DEF IndexInv
  <2>2. (rloc + 1) % N \in 0 .. N - 1
    BY <2>1, ModRange
  <2> QED BY <2>2, Sizes DEF Next1
<1>2. buf[rloc] \in Bytes /\ buf[Next1(rloc)] \in Bytes
  BY <1>1 DEF IndexInv, RingTypes
<1> QED BY <1>2 DEF Sendable

LEMMA NextTypes == FifoInv /\ [Next]_vars => RingTypes'
<1> SUFFICES ASSUME FifoInv, [Next]_vars PROVE RingTypes'
  OBVIOUS
<1>0. IndexInv /\ RingTypes
  BY DEF FifoInv
<1>1. CASE StoreByte
  <2>1. PICK b \in Bytes : buf' = [buf EXCEPT ![wloc] = b] /\ ch' = b
    BY <1>1 DEF StoreByte
  <2> QED BY <1>0, <1>1, <2>1 DEF StoreByte, RingTypes
<1>2. CASE StepFirst \/ StoreLate
  BY <1>0, <1>2 DEF StepFirst, StoreLate, RingTypes
<1>3. CASE ReadByte
  <2>1. buf[reg] \in Bytes
    BY <1>0, <1>3, Sizes DEF ReadByte, Goes, IndexInv, RingTypes, Slots
  <2> QED BY <1>0, <1>3, <2>1 DEF ReadByte, Got, RingTypes
<1>4. CASE SendByte
  <2>1. uart' \in Seq(Bytes) /\ Len(uart') = Len(uart) + 1
    BY <1>0, <1>4, AppendProperties DEF SendByte, RingTypes
  <2>2. Len(uart) < 2 /\ Len(uart) \in Nat
    BY <1>0, <1>4 DEF SendByte, serial_writable, RingTypes
  <2> QED BY <1>0, <1>4, <2>1, <2>2 DEF SendByte, RingTypes
<1>5. CASE txIrq
  <2>1. Sendable \in Seq(Bytes) /\ Len(Sendable) <= 2
    BY <1>0, SendableSeq
  <2>2. uart' = Sendable /\ UNCHANGED <<buf, ch, wire>>
    BY <1>5 DEF txIrq
  <2> QED BY <1>0, <2>1, <2>2 DEF RingTypes
<1>6. CASE ShiftOut
  <2>1. uart # <<>> /\ wire' = Head(uart) /\ uart' = Tail(uart) /\ UNCHANGED <<buf, ch>>
    BY <1>6 DEF ShiftOut
  <2>2. /\ Head(uart) \in Bytes /\ Tail(uart) \in Seq(Bytes)
        /\ Len(Tail(uart)) = Len(uart) - 1 /\ Len(uart) \in Nat
    BY <1>0, <2>1, HeadTailProperties DEF RingTypes
  <2> QED BY <1>0, <2>1, <2>2 DEF RingTypes
<1>7. CASE \/ StepWloc \/ WrapWloc \/ prime \/ Writable \/ Available \/ Attach
           \/ LoadRloc \/ StepRloc \/ ReloadRloc \/ WrapRloc \/ UNCHANGED vars
  <2>1. UNCHANGED <<buf, ch, wire, uart>>
    BY <1>7 DEF StepWloc, WrapWloc, prime, Writable, Available, Attach, LoadRloc, StepRloc,
                ReloadRloc, WrapRloc, vars
  <2> QED BY <1>0, <2>1 DEF RingTypes
<1> QED BY <1>1, <1>2, <1>3, <1>4, <1>5, <1>6, <1>7 DEF Next, Begin, Continue

\* _wloc's step puts one byte more into the ring, its wrap none.
LEMMA PutOne ==
    ASSUME IndexInv, IndexInv', StepWloc \/ StepFirst, Size < N - 1
    PROVE  Size' = Size + 1
<1>1. /\ wloc \in 0 .. N - 1 /\ wloc' = wloc + 1 /\ rloc' = rloc /\ rloc \in 0 .. N - 1
  BY Sizes DEF StepWloc, StepFirst, Goes, IndexInv
<1>2. Size = IF wloc >= rloc THEN wloc - rloc ELSE (wloc + N) - rloc
  BY <1>1, SizeNow, Sizes
<1>3. PICK to : to = Start(wloc')
  OBVIOUS
<1>4. Size' = IF to >= rloc THEN to - rloc ELSE (to + N) - rloc
  <2>1. wloc' \in 0 .. N /\ rloc \in 0 .. N /\ Start(rloc) = rloc
    BY <1>1, Sizes DEF Start
  <2>2. SizeOf(wloc', rloc) = IF to >= rloc THEN to - rloc ELSE (to + N) - rloc
    BY <1>3, <2>1, SizeIs
  <2> QED BY <1>1, <2>2 DEF Size, SizeOf
<1> QED BY <1>1, <1>2, <1>3, <1>4, Sizes DEF Start

LEMMA WrapNone ==
    ASSUME IndexInv, IndexInv', WrapWloc
    PROVE  Size' = Size /\ rloc' = rloc
<1>1. wloc \in 0 .. N /\ wloc' = wloc % N /\ rloc' = rloc /\ rloc \in 0 .. N - 1
  BY Sizes DEF WrapWloc, Goes, IndexInv
<1>2. wloc' = IF wloc = N THEN 0 ELSE wloc
  <2>1. wloc % N = IF wloc = N THEN 0 ELSE wloc
    BY <1>1, Sizes, Wrapped
  <2> QED BY <1>1, <2>1
<1>3. /\ SizeOf(wloc, rloc) = IF wloc' >= rloc THEN wloc' - rloc ELSE (wloc' + N) - rloc
      /\ SizeOf(wloc', rloc) = IF wloc' >= rloc THEN wloc' - rloc ELSE (wloc' + N) - rloc
  <2>1. PICK to : to = wloc'
    OBVIOUS
  <2>2. Start(rloc) = rloc /\ Start(wloc) = to /\ Start(to) = to
    BY <1>1, <1>2, <2>1, Sizes DEF Start
  <2>3. rloc \in 0 .. N /\ to \in 0 .. N
    BY <1>1, <1>2, <2>1, Sizes
  <2>4. /\ SizeOf(wloc, rloc) = IF to >= rloc THEN to - rloc ELSE (to + N) - rloc
        /\ SizeOf(to, rloc) = IF to >= rloc THEN to - rloc ELSE (to + N) - rloc
    BY <1>1, <2>2, <2>3, SizeIs
  <2> QED BY <2>1, <2>4
<1> QED BY <1>1, <1>3 DEF Size, SizeOf

\* Where the indices stay, so does the number of bytes.
LEMMA SizeSame == UNCHANGED <<wloc, rloc>> => Size' = Size
  BY DEF Size, SizeOf

LEMMA NextCurrent ==
    ASSUME FifoInv, [Next]_vars, IndexInv', ~caught'
    PROVE  Current'
<1>0. IndexInv /\ Current /\ Size \in 0 .. N - 1
  <2>1. ~caught
    BY DEF Next, Begin, Continue, StoreByte, StepWloc, StepFirst, StoreLate, WrapWloc, prime,
           Writable, Available, LoadRloc, StepRloc, ReadByte, ReloadRloc, WrapRloc, SendByte,
           Attach, txIrq, ShiftOut, vars
  <2> QED BY <2>1, SizeNow DEF FifoInv
<1> USE DEF Goes
<1>1. CASE StoreByte
  <2>1. Size < N - 1
    BY <1>0, <1>1, RoomIs DEF StoreByte, Room, Current
  <2>2. Size' = Size /\ at' = "stored"
    BY <1>1, SizeSame DEF StoreByte
  <2> QED BY <2>1, <2>2 DEF Current
<1>2. CASE StepFirst
  <2>1. Size < N - 1 /\ at' = "late" /\ wloc' > 0
    BY <1>0, <1>2, RoomIs DEF StepFirst, Room, IndexInv
  <2>2. Size' = Size + 1
    BY <1>0, <1>2, <2>1, PutOne
  <2> QED BY <1>0, <2>1, <2>2, Sizes DEF Current
<1>3. CASE WrapWloc
  <2>1. Size' = Size /\ ((at' = "more" /\ Room) \/ at' = "prime") /\ at = "wrap"
    BY <1>0, <1>3, WrapNone DEF WrapWloc
  <2>2. at' = "more" => Size' < N - 1
    BY <1>0, <2>1, RoomIs DEF Room
  <2> QED BY <2>1, <2>2 DEF Current
<1>4. CASE StepWloc \/ StoreLate \/ prime \/ Writable \/ ReadByte \/ WrapRloc \/ SendByte
           \/ Attach
  <2>1. at' \notin {"stored", "more", "late", "get", "step", "rwrap", "read"}
    BY <1>4 DEF StepWloc, StoreLate, prime, Writable, ReadByte, WrapRloc, SendByte, Attach
  <2> QED BY <2>1 DEF Current
<1>5. CASE Available \/ LoadRloc \/ StepRloc \/ ReloadRloc
  <2>1. /\ at' \notin {"stored", "more", "late"}
        /\ at' \in {"get", "step"} => wloc' # rloc'
        /\ at' \in {"step", "rwrap"} => reg' = rloc'
        /\ at' = "read" => rloc' = reg' + 1
    BY <1>0, <1>5 DEF Available, LoadRloc, StepRloc, ReloadRloc, Current
  <2> QED BY <2>1 DEF Current
<1>6. CASE txIrq
  <2>1. CASE Sendable = <<>>
    <3>1. UNCHANGED <<wloc, rloc, at, reg>>
      BY <1>6, <2>1 DEF txIrq
    <3> QED BY <1>0, <3>1, SizeSame DEF Current
  <2>2. CASE Sendable # <<>>
    <3>1. ~Halfway /\ Size' < Size /\ at' = at
      BY <1>6, <2>2, InterruptSends DEF txIrq
    <3>2. at \notin {"late", "get", "step", "rwrap", "read"}
      BY <3>1 DEF Halfway
    <3>3. Size' \in 0 .. N - 1
      BY SizeThen
    <3> QED BY <1>0, <3>1, <3>2, <3>3, Sizes DEF Current
  <2> QED BY <2>1, <2>2
<1>7. CASE ShiftOut \/ UNCHANGED vars
  <2>1. UNCHANGED <<wloc, rloc, at, reg>>
    BY <1>7 DEF ShiftOut, vars
  <2> QED BY <1>0, <2>1, SizeSame DEF Current
<1> QED BY <1>1, <1>2, <1>3, <1>4, <1>5, <1>6, <1>7 DEF Next, Begin, Continue

LEMMA InitFifo == Init => FifoInv
<1> SUFFICES ASSUME Init PROVE FifoInv
  OBVIOUS
<1>1. IndexInv
  BY InitIndex
<1>2. PICK b \in Bytes : buf = [i \in 0 .. N |-> b] /\ ch = b /\ wire = b
  BY DEF Init
<1>3. RingTypes
  BY <1>2 DEF Init, RingTypes
<1>4. Current
  BY DEF Init, Current
<1> QED BY <1>1, <1>3, <1>4 DEF FifoInv

LEMMA NextFifo == FifoInv /\ [Next]_vars => FifoInv'
<1> SUFFICES ASSUME FifoInv, [Next]_vars PROVE FifoInv'
  OBVIOUS
<1>1. IndexInv'
  BY NextIndex DEF FifoInv
<1>2. RingTypes'
  BY NextTypes
<1>3. ~caught' => Current'
  BY <1>1, NextCurrent
<1> QED BY <1>1, <1>2, <1>3 DEF FifoInv

--------------------------------------------------------------------------------
(* What each step does to the bytes put and not sent. *)

LEMMA HeadTailConcat ==
    ASSUME NEW S, NEW s \in Seq(S), NEW t \in Seq(S), s # <<>>
    PROVE  /\ s \o t # <<>> /\ Head(s \o t) = Head(s)
           /\ Tail(s \o t) = Tail(s) \o t
<1>1. Len(s) \in Nat \ {0} /\ Len(t) \in Nat
  BY EmptySeq
<1>2. /\ s \o t \in Seq(S) /\ Len(s \o t) = Len(s) + Len(t)
      /\ \A i \in 1 .. Len(s) + Len(t) : (s \o t)[i] = IF i <= Len(s) THEN s[i] ELSE t[i - Len(s)]
  BY ConcatProperties
<1>3. s \o t # <<>>
  BY <1>1, <1>2, EmptySeq
<1>4. Head(s \o t) = Head(s)
  <2>1. Head(s \o t) = (s \o t)[1] /\ Head(s) = s[1]
    BY <1>2, <1>3
  <2> QED BY <1>1, <1>2, <2>1
<1>5. /\ Tail(s) \in Seq(S) /\ Len(Tail(s)) = Len(s) - 1
      /\ \A i \in 1 .. Len(Tail(s)) : Tail(s)[i] = s[i + 1]
  BY HeadTailProperties
<1>6. /\ Tail(s \o t) \in Seq(S) /\ Len(Tail(s \o t)) = Len(s \o t) - 1
      /\ \A i \in 1 .. Len(Tail(s \o t)) : Tail(s \o t)[i] = (s \o t)[i + 1]
  BY <1>2, <1>3, HeadTailProperties
<1>7. /\ Tail(s) \o t \in Seq(S) /\ Len(Tail(s) \o t) = Len(Tail(s)) + Len(t)
      /\ \A i \in 1 .. Len(Tail(s)) + Len(t) :
            (Tail(s) \o t)[i] = IF i <= Len(Tail(s)) THEN Tail(s)[i] ELSE t[i - Len(Tail(s))]
  BY <1>5, ConcatProperties
<1>8. Len(Tail(s \o t)) = Len(Tail(s) \o t)
  BY <1>1, <1>2, <1>5, <1>6, <1>7
<1>9. ASSUME NEW i \in 1 .. Len(Tail(s \o t)) PROVE Tail(s \o t)[i] = (Tail(s) \o t)[i]
  <2>1. i \in 1 .. Len(s) + Len(t) - 1 /\ i + 1 \in 1 .. Len(s) + Len(t)
    BY <1>1, <1>2, <1>6
  <2>2. Tail(s \o t)[i] = IF i + 1 <= Len(s) THEN s[i + 1] ELSE t[(i + 1) - Len(s)]
    BY <1>2, <1>6, <2>1
  <2>3. (Tail(s) \o t)[i] = IF i <= Len(s) - 1 THEN Tail(s)[i] ELSE t[i - (Len(s) - 1)]
    BY <1>1, <1>5, <1>7, <2>1
  <2>4. CASE i + 1 <= Len(s)
    <3>1. i \in 1 .. Len(Tail(s))
      BY <1>1, <1>5, <2>1, <2>4
    <3> QED BY <1>1, <1>5, <2>1, <2>2, <2>3, <2>4, <3>1
  <2>5. CASE ~(i + 1 <= Len(s))
    <3>1. (i + 1) - Len(s) = i - (Len(s) - 1) /\ ~(i <= Len(s) - 1)
      BY <1>1, <2>1, <2>5
    <3> QED BY <2>2, <2>3, <2>5, <3>1
  <2> QED BY <2>4, <2>5
<1>10. Tail(s \o t) = Tail(s) \o t
  BY <1>6, <1>7, <1>8, <1>9, SeqEqual
<1> QED BY <1>3, <1>4, <1>10

LEMMA AppendConcat ==
    ASSUME NEW s \in Seq(Bytes), NEW t \in Seq(Bytes), NEW b \in Bytes
    PROVE  s \o Append(t, b) = Append(s \o t, b)
<1>1. <<b>> \in Seq(Bytes) /\ s \o t \in Seq(Bytes)
  BY ConcatProperties
<1>2. Append(t, b) = t \o <<b>> /\ Append(s \o t, b) = (s \o t) \o <<b>>
  BY <1>1, AppendIsConcat
<1> QED BY <1>1, <1>2, ConcatAssociative

LEMMA StartsEmpty == Init => Promise!Init
<1> SUFFICES ASSUME Init PROVE Promise!Init
  OBVIOUS
<1>1. wire \in Bytes /\ uart = <<>> /\ InHand = <<>> /\ at = "idle"
  BY DEF Init, InHand
<1>2. FifoInv
  BY InitFifo
<1>3. Size = 0
  <2>1. wloc = 0 /\ rloc = 0 /\ 0 # N
    BY Sizes DEF Init
  <2> QED BY <1>2, <2>1, SizeNow DEF FifoInv
<1>4. InRing = Cells(buf, rloc, 0)
  BY <1>1, <1>3, InRingIs
<1>5. InRing = <<>>
  <2>1. Ring(buf, rloc, 0)
    BY <1>2, Sizes DEF Ring, FifoInv, IndexInv, RingTypes
  <2>2. InRing \in Seq(Bytes) /\ Len(InRing) = 0
    BY <1>4, <2>1, CellsSeq
  <2> QED BY <2>2, EmptySeq
<1>6. Pipeline = <<>>
  BY <1>1, <1>5, ConcatEmptySeq, EmptySeq DEF Pipeline
<1> QED BY <1>1, <1>6 DEF Promise!Init

\* A byte is put behind what is in the UART and in the ring.
LEMMA PutIsPush ==
    ASSUME FifoInv, at # "late" \/ Size > 0, InHand = <<>>, InHand' = <<>>,
           uart' = uart, wire' = wire,
           NEW b \in Bytes, InRing' = Append(InRing, b)
    PROVE  Promise!Push
<1>1. uart \in Seq(Bytes) /\ InRing \in Seq(Bytes) /\ Len(InRing) <= N - 1
  BY PipelineSeq
<1>2. uart \o InHand = uart /\ uart' \o InHand' = uart
  BY <1>1, ConcatEmptySeq
<1>3. Pipeline = uart \o InRing /\ Pipeline' = uart \o Append(InRing, b)
  BY <1>2 DEF Pipeline
<1>4. Pipeline' = Append(Pipeline, b)
  BY <1>1, <1>3, AppendConcat
<1>5. Pipeline \in Seq(Bytes) /\ Len(Pipeline) = Len(uart) + Len(InRing)
  BY <1>1, <1>3, ConcatProperties
<1>6. Len(Append(Pipeline, b)) = Len(Pipeline) + 1
  BY <1>5, AppendProperties
<1>7. Len(uart) <= 2 /\ Len(uart) \in Nat /\ Len(InRing) \in Nat
  BY <1>1 DEF FifoInv, RingTypes
<1>8. ~(Len(Append(Pipeline, b)) > N + 2)
  BY <1>1, <1>5, <1>6, <1>7, Sizes
<1> QED BY <1>4, <1>8 DEF Promise!Push, Promise!Fits

LEMMA Puts ==
    ASSUME FifoInv, FifoInv', Current, StepWloc \/ StoreLate
    PROVE  Promise!Push
<1>1. IndexInv /\ IndexInv' /\ Size \in 0 .. N - 1 /\ rloc \in 0 .. N - 1 /\ RingTypes
  BY SizeNow, Sizes DEF FifoInv, IndexInv, StepWloc, StoreLate, Goes
<1>2. /\ InHand = <<>> /\ InHand' = <<>> /\ uart' = uart /\ wire' = wire
      /\ rloc' = rloc /\ at' = "wrap"
  BY DEF StepWloc, StoreLate, Goes, InHand
<1>3. CASE StepWloc
  <2>1. at = "stored" /\ buf' = buf /\ Size < N - 1
    BY <1>3 DEF StepWloc, Goes, Current
  <2>2. Size' = Size + 1
    BY <1>1, <1>3, <2>1, PutOne
  <2>3. InRing = Cells(buf, rloc, Size) /\ InRing' = Cells(buf, rloc, Size + 1)
    BY <1>2, <2>1, <2>2, InRingIs
  <2>4. Ring(buf, rloc, Size)
    BY <1>1, Sizes DEF Ring, RingTypes
  <2>5. InRing' = Append(InRing, buf[(rloc + Size) % N])
    BY <1>1, <2>3, <2>4, CellsAppend
  <2>6. buf[(rloc + Size) % N] \in Bytes
    <3>1. (rloc + Size) % N \in 0 .. N
      BY <1>1, RingIndex, Sizes
    <3> QED BY <1>1, <3>1 DEF RingTypes
  <2> QED BY <1>2, <2>1, <2>5, <2>6, PutIsPush
<1>4. CASE StoreLate
  <2>1. /\ at = "late" /\ buf' = [buf EXCEPT ![wloc - 1] = ch] /\ wloc' = wloc
        /\ Size > 0 /\ wloc \in 1 .. N
    BY <1>1, <1>4, Sizes DEF StoreLate, Goes, Current, IndexInv
  <2>2. Size' = Size
    BY <1>2, <2>1, SizeSame
  <2>3. PICK n : n = Size - 1
    OBVIOUS
  <2>4. n \in 0 .. N - 1 /\ Size = n + 1
    BY <1>1, <2>1, <2>3, Sizes
  <2>5. InRing = Cells(buf, rloc, n) /\ InRing' = Cells(buf', rloc, n + 1)
    BY <1>2, <2>1, <2>2, <2>3, <2>4, InRingIs
  <2>6. RingTypes' /\ Ring(buf', rloc, n) /\ Ring(buf, rloc, n)
    BY <1>1, <2>4, Sizes DEF FifoInv, Ring, RingTypes
  <2>7. (rloc + n) % N = wloc - 1
    <3>1. (rloc + n) % N = IF rloc + n < N THEN rloc + n ELSE (rloc + n) - N
      BY <1>1, <2>4, RingIndex, Sizes
    <3>2. (rloc + Size) % N = IF wloc = N THEN 0 ELSE wloc
      BY <1>1, SizeNow
    <3>3. (rloc + Size) % N = IF rloc + Size < N THEN rloc + Size ELSE (rloc + Size) - N
      BY <1>1, RingIndex, Sizes
    <3> QED BY <1>1, <2>1, <2>4, <3>1, <3>2, <3>3, Sizes
  <2>8. Cells(buf', rloc, n) = Cells(buf, rloc, n)
    <3>1. ASSUME NEW i \in 1 .. n
          PROVE  buf'[(rloc + (i - 1)) % N] = buf[(rloc + (i - 1)) % N]
      <4>1. i - 1 \in 0 .. N - 1
        BY <2>4, Sizes
      <4>2. /\ (rloc + (i - 1)) % N
                  = IF rloc + (i - 1) < N THEN rloc + (i - 1) ELSE (rloc + (i - 1)) - N
            /\ (rloc + (i - 1)) % N \in 0 .. N - 1
        <5>1. PICK k : k = i - 1
          OBVIOUS
        <5>2. k \in 0 .. N - 1 /\ rloc \in 0 .. N
          BY <1>1, <4>1, <5>1, Sizes
        <5>3. /\ (rloc + k) % N = IF rloc + k < N THEN rloc + k ELSE (rloc + k) - N
              /\ (rloc + k) % N \in 0 .. N - 1
          BY <5>2, RingIndex
        <5> QED BY <5>1, <5>3
      <4>3. (rloc + n) % N = IF rloc + n < N THEN rloc + n ELSE (rloc + n) - N
        BY <1>1, <2>4, RingIndex, Sizes
      <4>4. (rloc + (i - 1)) % N # wloc - 1
        BY <1>1, <2>4, <2>7, <4>2, <4>3, Sizes
      <4> QED BY <1>1, <2>1, <4>2, <4>4, Sizes DEF RingTypes
    <3> QED BY <2>6, <3>1, CellsSame
  <2>9. Cells(buf', rloc, n + 1) = Append(Cells(buf', rloc, n), buf'[(rloc + n) % N])
    <3>1. PICK c : c = buf'
      OBVIOUS
    <3>2. Cells(c, rloc, n + 1) = Append(Cells(c, rloc, n), c[(rloc + n) % N])
      BY <2>4, <2>6, <3>1, CellsAppend
    <3> QED BY <3>1, <3>2
  <2>10. buf'[(rloc + n) % N] = ch
    BY <1>1, <2>1, <2>7, Sizes DEF RingTypes
  <2>11. ch \in Bytes /\ InRing' = Append(InRing, ch)
    BY <1>1, <2>5, <2>8, <2>9, <2>10 DEF RingTypes
  <2> QED BY <1>2, <2>1, <2>11, PutIsPush
<1> QED BY <1>3, <1>4

LEMMA Sends ==
    ASSUME FifoInv, Current, ShiftOut
    PROVE  Promise!Pop
<1>1. /\ uart # <<>> /\ uart' = Tail(uart) /\ wire' = Head(uart)
      /\ InHand' = InHand /\ InRing' = InRing
  BY DEF ShiftOut, InHand, InRing
<1>2. uart \in Seq(Bytes) /\ InHand \in Seq(Bytes) /\ InRing \in Seq(Bytes)
  BY PipelineSeq DEF Current
<1> DEFINE front == uart \o InHand
<1>3. front # <<>> /\ Head(front) = Head(uart) /\ Tail(front) = Tail(uart) \o InHand
  BY <1>1, <1>2, HeadTailConcat
<1>4. front \in Seq(Bytes)
  BY <1>2, ConcatProperties
<1> HIDE DEF front
<1>5. /\ front \o InRing # <<>> /\ Head(front \o InRing) = Head(front)
      /\ Tail(front \o InRing) = Tail(front) \o InRing
  BY <1>2, <1>3, <1>4, HeadTailConcat
<1>6. Pipeline = front \o InRing /\ Pipeline' = (Tail(uart) \o InHand) \o InRing
  BY <1>1 DEF Pipeline, front
<1> QED BY <1>1, <1>3, <1>5, <1>6 DEF Promise!Pop

\* The interrupt that catches nothing takes the oldest bytes from the ring to the UART.
LEMMA InterruptMoves ==
    ASSUME FifoInv, Current, txIrq, ~caught'
    PROVE  UNCHANGED <<Pipeline, wire>>
<1>1. /\ uart = <<>> /\ uart' = Sendable /\ at' = at
      /\ UNCHANGED <<buf, wloc, at, reg, ch, wire>>
  BY DEF txIrq, FifoInv, IndexInv
<1>2. InHand' = InHand
  BY <1>1 DEF InHand
<1>3. CASE Sendable = <<>>
  <2>1. rloc' = rloc
    BY <1>3 DEF txIrq
  <2>2. InRing' = InRing
    BY <1>1, <2>1 DEF InRing
  <2> QED BY <1>1, <1>2, <1>3, <2>2 DEF Pipeline
<1>4. CASE Sendable # <<>>
  <2>1. /\ ~Halfway /\ Sendable \in Seq(Bytes)
        /\ Cells(buf, rloc, Size) = Sendable \o Cells(buf, rloc', Size')
        /\ Cells(buf, rloc', Size') \in Seq(Bytes)
    BY <1>4, InterruptSends
  <2>2. InHand = <<>> /\ at # "late"
    BY <2>1 DEF Halfway, InHand
  <2>3. InRing = Cells(buf, rloc, Size) /\ InRing' = Cells(buf, rloc', Size')
    BY <1>1, <2>2, InRingIs
  <2>4. InRing \in Seq(Bytes)
    BY <2>1, <2>3, ConcatProperties
  <2>5. Pipeline = InRing
    <3>1. uart \o InHand = <<>> /\ <<>> \o InRing = InRing
      BY <1>1, <2>2, <2>4, ConcatEmptySeq, EmptySeq
    <3> QED BY <3>1 DEF Pipeline
  <2>6. Pipeline' = Sendable \o InRing'
    <3>1. uart' \o InHand' = Sendable
      BY <1>1, <1>2, <2>1, <2>2, ConcatEmptySeq
    <3> QED BY <3>1 DEF Pipeline
  <2> QED BY <1>1, <2>1, <2>3, <2>5, <2>6
<1> QED BY <1>3, <1>4

\* Storing a byte before it is put, or stepping _wloc before the byte is stored, adds none.
LEMMA StoreIsSilent ==
    ASSUME FifoInv, FifoInv', Current, StoreByte
    PROVE  UNCHANGED <<Pipeline, wire>>
<1>1. /\ at \in {"idle", "more"} /\ at' = "stored" /\ UNCHANGED <<wloc, rloc, uart, wire>>
      /\ Size' = Size
  BY SizeSame DEF StoreByte, Goes
<1>2. /\ wloc \in 0 .. N - 1 /\ rloc \in 0 .. N - 1 /\ Size \in 0 .. N - 1
      /\ buf \in [0 .. N -> Bytes] /\ buf' \in [0 .. N -> Bytes]
  BY <1>1, SizeNow, Sizes DEF FifoInv, IndexInv, RingTypes
<1>3. PICK b \in Bytes : buf' = [buf EXCEPT ![wloc] = b]
  BY DEF StoreByte
<1>4. InRing = Cells(buf, rloc, Size) /\ InRing' = Cells(buf', rloc, Size)
  BY <1>1, InRingIs
<1>5. (rloc + Size) % N = wloc
  BY <1>2, SizeNow, Sizes DEF FifoInv
<1>6. ASSUME NEW i \in 1 .. Size
      PROVE  buf'[(rloc + (i - 1)) % N] = buf[(rloc + (i - 1)) % N]
  <2>1. PICK k : k = i - 1
    OBVIOUS
  <2>2. k \in 0 .. N - 1 /\ k < Size
    BY <1>2, <2>1, Sizes
  <2>3. /\ (rloc + k) % N = IF rloc + k < N THEN rloc + k ELSE (rloc + k) - N
        /\ (rloc + k) % N \in 0 .. N - 1
    BY <1>2, <2>2, RingIndex, Sizes
  <2>4. (rloc + Size) % N = IF rloc + Size < N THEN rloc + Size ELSE (rloc + Size) - N
    BY <1>2, RingIndex, Sizes
  <2>5. (rloc + k) % N # wloc
    BY <1>2, <1>5, <2>2, <2>3, <2>4, Sizes
  <2> QED BY <1>2, <1>3, <2>1, <2>3, <2>5, Sizes
<1>7. Ring(buf, rloc, Size) /\ Ring(buf', rloc, Size)
  BY <1>2, Sizes DEF Ring
<1>8. InRing' = InRing
  BY <1>4, <1>6, <1>7, CellsSame
<1>9. InHand = <<>> /\ InHand' = <<>>
  BY <1>1 DEF InHand
<1> QED BY <1>1, <1>8, <1>9 DEF Pipeline

LEMMA StepFirstIsSilent ==
    ASSUME FifoInv, FifoInv', StepFirst
    PROVE  UNCHANGED <<Pipeline, wire>>
<1>1. /\ at = "idle" /\ at' = "late" /\ UNCHANGED <<buf, rloc, uart, wire>> /\ IndexInv
      /\ IndexInv'
  BY DEF StepFirst, Goes, FifoInv
<1>2. Size < N - 1 /\ Size \in 0 .. N - 1
  BY <1>1, RoomIs, SizeNow DEF StepFirst, Room
<1>3. Size' - 1 = Size
  BY <1>1, <1>2, PutOne, Sizes
<1>4. InRing' = InRing
  BY <1>1, <1>3, InRingIs
<1>5. InHand = <<>> /\ InHand' = <<>>
  BY <1>1 DEF InHand
<1> QED BY <1>1, <1>4, <1>5 DEF Pipeline

LEMMA WrapsAreSilent ==
    ASSUME FifoInv, FifoInv', Current, WrapWloc \/ WrapRloc
    PROVE  UNCHANGED <<Pipeline, wire>>
<1>1. UNCHANGED <<buf, ch, uart, wire>> /\ IndexInv /\ IndexInv'
  BY DEF WrapWloc, WrapRloc, FifoInv
<1>2. at \notin {"late", "read"} /\ at' \notin {"late", "read"} /\ InHand' = InHand
  BY <1>1 DEF WrapWloc, WrapRloc, Goes, InHand
<1>3. InRing = Cells(buf, rloc, Size) /\ InRing' = Cells(buf, rloc', Size')
  BY <1>1, <1>2, InRingIs
<1>4. CASE WrapWloc
  <2>1. Size' = Size /\ rloc' = rloc
    BY <1>1, <1>4, WrapNone
  <2> QED BY <1>1, <1>2, <1>3, <2>1 DEF Pipeline
<1>5. CASE WrapRloc
  <2>1. wloc' = wloc /\ rloc' = rloc % N /\ rloc \in 0 .. N
    BY <1>1, <1>5 DEF WrapRloc, StoreWrapped, Goes, Current, IndexInv
  <2>2. rloc % N = (IF rloc = N THEN 0 ELSE rloc)
    BY <2>1, Sizes, Wrapped
  <2>3. (rloc % N) % N = rloc % N
    <3>1. PICK r : r = rloc % N
      OBVIOUS
    <3>2. r % N = IF r = N THEN 0 ELSE r
      BY <2>1, <2>2, <3>1, Sizes, Wrapped
    <3> QED BY <2>1, <2>2, <3>1, <3>2, Sizes
  <2>4. Size' = Size
    BY <2>1, <2>3 DEF Size, SizeOf
  <2>5. Size \in 0 .. N
    BY <1>1, SizeNow, Sizes
  <2>6. Cells(buf, rloc', Size) = Cells(buf, rloc, Size)
    BY <2>1, <2>5, CellsWrap
  <2> QED BY <1>1, <1>2, <1>3, <2>4, <2>6 DEF Pipeline
<1> QED BY <1>4, <1>5

\* get() takes the oldest byte into the main loop's hand ...
LEMMA StepMoves ==
    ASSUME FifoInv, FifoInv', Current, StepRloc
    PROVE  UNCHANGED <<Pipeline, wire>>
<1>1. /\ at = "step" /\ at' = "read" /\ rloc' = rloc + 1 /\ reg' = reg /\ reg = rloc
      /\ UNCHANGED <<buf, wloc, uart, wire>>
  BY DEF StepRloc, Goes, Current
<1>2. /\ wloc \in 0 .. N - 1 /\ rloc \in 0 .. N - 1 /\ wloc # rloc
      /\ buf \in [0 .. N -> Bytes] /\ uart \in Seq(Bytes)
  BY <1>1, Sizes DEF FifoInv, IndexInv, Current, RingTypes
<1>3. Size = IF wloc >= rloc THEN wloc - rloc ELSE (wloc + N) - rloc
  BY <1>2, SizeNow, Sizes DEF FifoInv
<1>4. Size \in 1 .. N - 1
  BY <1>2, <1>3, Sizes
<1>5. Size' = Size - 1
  <2>1. PICK r : r = rloc + 1
    OBVIOUS
  <2>2. wloc \in 0 .. N /\ r \in 0 .. N
    BY <1>2, <2>1, Sizes
  <2>3. SizeOf(wloc, r) = IF Start(wloc) >= Start(r) THEN Start(wloc) - Start(r)
                          ELSE (Start(wloc) + N) - Start(r)
    BY <2>2, SizeIs
  <2>4. SizeOf(wloc, r) = Size - 1
    BY <1>2, <1>3, <2>1, <2>3, Sizes DEF Start
  <2> QED BY <1>1, <2>1, <2>4 DEF Size, SizeOf
<1>6. InRing = Cells(buf, rloc, Size) /\ InRing' = Cells(buf, rloc + 1, Size - 1)
  BY <1>1, <1>5, InRingIs
<1>7. InHand = <<>> /\ InHand' = <<buf[rloc]>>
  BY <1>1 DEF InHand
<1>8. buf[rloc] \in Bytes /\ InRing = <<buf[rloc]>> \o InRing'
  <2>1. Ring(buf, rloc, Size) /\ Size \in 1 .. N
    BY <1>2, <1>4, Sizes DEF Ring
  <2> QED BY <1>2, <1>6, <2>1, CellsFirst
<1>9. InRing' \in Seq(Bytes) /\ <<buf[rloc]>> \in Seq(Bytes)
  <2>1. Ring(buf, rloc + 1, Size - 1)
    BY <1>2, <1>4, Sizes DEF Ring
  <2>2. PICK f, k : f = rloc + 1 /\ k = Size - 1
    OBVIOUS
  <2>3. Cells(buf, f, k) \in Seq(Bytes)
    BY <2>1, <2>2, CellsSeq
  <2> QED BY <1>6, <1>8, <2>2, <2>3
<1>10. uart \o (<<buf[rloc]>> \o InRing') = (uart \o <<buf[rloc]>>) \o InRing'
  BY <1>2, <1>9, ConcatAssociative
<1>11. uart \o <<>> = uart
  BY <1>2, ConcatEmptySeq
<1>12. Pipeline = uart \o InRing /\ Pipeline' = (uart \o <<buf[rloc]>>) \o InRing'
  BY <1>1, <1>7, <1>11 DEF Pipeline
<1> QED BY <1>1, <1>8, <1>10, <1>12

\* ... and serial_putc puts it into the UART.
LEMMA SendMoves ==
    ASSUME FifoInv, SendByte
    PROVE  UNCHANGED <<Pipeline, wire>>
<1>1. /\ at = "send" /\ at' = "writable" /\ uart' = Append(uart, ch)
      /\ UNCHANGED <<buf, wloc, rloc, wire>> /\ uart \in Seq(Bytes) /\ ch \in Bytes
  BY DEF SendByte, Goes, FifoInv, RingTypes
<1>2. InHand = <<ch>> /\ InHand' = <<>> /\ InRing' = InRing
  BY <1>1 DEF InHand, InRing
<1>3. Append(uart, ch) = uart \o <<ch>> /\ Append(uart, ch) \in Seq(Bytes)
  BY <1>1, AppendIsConcat, AppendProperties
<1>4. Append(uart, ch) \o <<>> = Append(uart, ch)
  BY <1>3, ConcatEmptySeq
<1> QED BY <1>1, <1>2, <1>3, <1>4 DEF Pipeline

LEMMA OthersAreSilent ==
    ASSUME \/ prime \/ Writable \/ Available \/ Attach \/ LoadRloc \/ ReadByte \/ ReloadRloc
           \/ UNCHANGED vars
    PROVE  UNCHANGED <<Pipeline, wire>>
<1>1. UNCHANGED <<buf, wloc, rloc, uart, wire>>
  BY DEF prime, Writable, Available, Attach, LoadRloc, ReadByte, ReloadRloc, vars
<1>2. InHand' = InHand
  <2>1. CASE UNCHANGED vars
    BY <2>1 DEF vars, InHand
  <2>2. CASE prime \/ Writable \/ Available \/ Attach \/ LoadRloc
    BY <2>2 DEF prime, Writable, Available, Attach, LoadRloc, Goes, InHand
  <2>3. CASE ReadByte \/ ReloadRloc
    BY <2>3 DEF ReadByte, Got, ReloadRloc, Goes, InHand
  <2> QED BY <2>1, <2>2, <2>3
<1>3. InRing' = InRing
  <2>1. at' = "late" <=> at = "late"
    BY DEF prime, Writable, Available, Attach, LoadRloc, ReadByte, ReloadRloc, vars, Goes
  <2> QED BY <1>1, <2>1 DEF InRing
<1> QED BY <1>1, <1>2, <1>3 DEF Pipeline

\* Until an interrupt catches put or get halfway, the ring, the byte in the main loop's
\* hand and the UART are one queue: bytes leave it in the order they were put, each once.
THEOREM InOrderUnlessCaught == Spec => FifoUnlessCaught
<1>1. FifoInv /\ FifoInv' /\ [Next]_vars => [~caught' => Promise!Next]_<<Pipeline, wire>>
  <2> SUFFICES ASSUME FifoInv, FifoInv', [Next]_vars, ~caught', ~UNCHANGED <<Pipeline, wire>>
               PROVE  Promise!Next
    OBVIOUS
  <2>1. Current
    <3>1. ~caught
      BY DEF Next, Begin, Continue, StoreByte, StepWloc, StepFirst, StoreLate, WrapWloc, prime,
             Writable, Available, LoadRloc, StepRloc, ReadByte, ReloadRloc, WrapRloc, SendByte,
             Attach, txIrq, ShiftOut, vars
    <3> QED BY <3>1 DEF FifoInv
  <2>2. StepWloc \/ StoreLate \/ ShiftOut
    BY <2>1, InterruptMoves, StoreIsSilent, StepFirstIsSilent, WrapsAreSilent, StepMoves,
       SendMoves, OthersAreSilent, Zenon
       DEF Next, Begin, Continue
  <2> QED BY <2>1, <2>2, Puts, Sends DEF Promise!Next
<1> QED BY <1>1, StartsEmpty, InitFifo, NextFifo, PTL DEF Spec, FifoUnlessCaught
--------------------------------------------------------------------------------
(* Nothing is left behind: what PickedUpUnlessCaught rests on besides fairness. *)

\* Between two calls with bytes in the ring, and unless an interrupt has sent halfway
\* through put or get or detached, the interrupt is enabled, knows txIrq, and is due: the
\* UART is done, or still has a byte whose end will raise it ("the irq will pick this up",
\* BufferedSerial.cpp 123).
RestAttended ==
    ~caught /\ at = "idle" /\ wloc # rloc =>
        irq.attached /\ irq.handler /\ (tc \/ uart # <<>>)

\* prime relies on the interrupt when it finds the UART full, at a time when it cannot
\* know whether the interrupt has disabled itself: it has not, as it does so only when it
\* leaves room in the UART.
FullIsAttended ==
    at \in {"idle", "stored", "more", "late", "wrap", "prime"} /\ Len(uart) = 2 =>
        irq.attached /\ irq.handler

\* What is left when prime attaches txIrq follows bytes in the UART.
RestIsDue == at \in {"idle", "attach"} /\ wloc # rloc => tc \/ uart # <<>>

RestIsAttended == at = "idle" /\ wloc # rloc => irq.attached /\ irq.handler

AttendInv ==
    /\ irq \in [attached : BOOLEAN, handler : BOOLEAN]
    /\ ~caught => FullIsAttended /\ RestIsDue /\ RestIsAttended

LEMMA InitAttend == Init => AttendInv
  BY DEF Init, AttendInv, FullIsAttended, RestIsDue, RestIsAttended

\* The interrupt disables itself only when it has emptied the ring.
LEMMA InterruptAttends == FifoInv /\ AttendInv /\ txIrq => AttendInv'
<1> SUFFICES ASSUME FifoInv, AttendInv, txIrq PROVE AttendInv'
  OBVIOUS
<1>1. /\ UNCHANGED <<wloc, at>> /\ uart' = Sendable /\ irq.handler
      /\ irq' = [irq EXCEPT !.attached = irq.attached /\ Len(uart') = 2]
      /\ rloc' = IF Sendable = <<>> THEN rloc ELSE (rloc + Len(Sendable)) % N
      /\ caught' = (caught \/ (Sendable # <<>> /\ (Halfway \/ ~irq.attached)))
  BY DEF txIrq, DetachIfDone
<1>2. irq \in [attached : BOOLEAN, handler : BOOLEAN]
  BY DEF AttendInv
<1>3. /\ irq' \in [attached : BOOLEAN, handler : BOOLEAN]
      /\ irq'.handler /\ irq'.attached = (irq.attached /\ Len(Sendable) = 2)
  BY <1>1, <1>2
<1>4. CASE Sendable = <<>>
  <2>1. wloc' = rloc' /\ Len(uart') = 0
    BY <1>1, <1>4 DEF Sendable
  <2> QED BY <1>3, <2>1 DEF AttendInv, FullIsAttended, RestIsDue, RestIsAttended
<1>5. CASE Sendable # <<>>
  <2>1. SUFFICES ASSUME ~caught' PROVE FullIsAttended' /\ RestIsDue' /\ RestIsAttended'
    BY <1>3 DEF AttendInv
  <2>2. irq.attached /\ uart' # <<>>
    BY <1>1, <1>5, <2>1
  <2>3. CASE wloc = Next1(rloc)
    <3>1. Sendable = <<buf[rloc]>>
      BY <1>5, <2>3 DEF Sendable
    <3>2. Len(uart') = 1 /\ rloc' = (rloc + 1) % N
      BY <1>1, <1>5, <3>1
    <3>3. wloc' = rloc'
      BY <1>1, <2>3, <3>2 DEF Next1
    <3> QED BY <3>2, <3>3 DEF FullIsAttended, RestIsDue, RestIsAttended
  <2>4. CASE wloc # Next1(rloc)
    <3>1. Sendable = <<buf[rloc], buf[Next1(rloc)]>>
      BY <1>5, <2>4 DEF Sendable
    <3>2. Len(Sendable) = 2
      BY <3>1
    <3> QED BY <1>3, <2>2, <3>2 DEF FullIsAttended, RestIsDue, RestIsAttended
  <2> QED BY <2>3, <2>4
<1> QED BY <1>4, <1>5

LEMMA UpToTwo == \A n \in Nat : n <= 2 => (n < 2 \/ n = 2) /\ n - 1 # 2
  OBVIOUS

LEMMA FullOrNot ==
    ASSUME NEW s \in Seq(Bytes), Len(s) <= 2
    PROVE  (Len(s) < 2 \/ Len(s) = 2) /\ (s # <<>> => Len(Tail(s)) # 2)
<1>1. Len(s) \in Nat
  OBVIOUS
<1>2. (Len(s) < 2 \/ Len(s) = 2) /\ Len(s) - 1 # 2
  BY <1>1, UpToTwo, Zenon
<1>3. s # <<>> => Len(Tail(s)) = Len(s) - 1
  BY HeadTailProperties
<1> QED BY <1>2, <1>3, Zenon

LEMMA NextAttend == FifoInv /\ AttendInv /\ [Next]_vars => AttendInv'
<1> SUFFICES ASSUME FifoInv, AttendInv, [Next]_vars PROVE AttendInv'
  OBVIOUS
<1>0. Len(uart) < 2 \/ Len(uart) = 2
  BY FullOrNot DEF FifoInv, RingTypes
<1> USE DEF AttendInv, FullIsAttended, RestIsDue, RestIsAttended, Goes
\* Up to prime, a call moves neither the UART nor the interrupt.
<1>1. CASE StoreByte \/ StepWloc \/ StepFirst \/ StoreLate \/ WrapWloc
  BY <1>1 DEF StoreByte, StepWloc, StepFirst, StoreLate, WrapWloc
<1>2. CASE prime
  <2>1. CASE Len(uart) < 2
    BY <1>2, <2>1 DEF prime, serial_writable, Detach
  <2>2. CASE Len(uart) = 2
    <3>1. UNCHANGED <<wloc, rloc, uart, tc, irq, caught>> /\ at = "prime" /\ at' = "idle"
      BY <1>2, <2>2 DEF prime, serial_writable
    <3>2. uart # <<>>
      BY <2>2
    <3> QED BY <2>2, <3>1, <3>2
  <2> QED BY <1>0, <2>1, <2>2
\* prime leaves its loop when the UART is full or the ring is empty.
<1>3. CASE Writable
  <2>1. UNCHANGED <<wloc, rloc, uart, tc, irq, caught>>
    BY <1>3 DEF Writable
  <2>2. at' = "available" \/ (at' = "attach" /\ ~(Len(uart) < 2))
    BY <1>3 DEF Writable, serial_writable
  <2>3. at' = "attach" => uart # <<>>
    BY <1>0, <2>2
  <2> QED BY <2>1, <2>2, <2>3
<1>4. CASE Available
  BY <1>4 DEF Available, Detach
<1>5. CASE Attach
  BY <1>5 DEF Attach, AttachTxIrq
<1>6. CASE LoadRloc \/ StepRloc \/ ReadByte \/ ReloadRloc \/ WrapRloc \/ SendByte
  BY <1>6 DEF LoadRloc, StepRloc, ReadByte, ReloadRloc, WrapRloc, SendByte
\* With the last byte the UART is done, and it is not full again by itself.
<1>7. CASE ShiftOut
  <2>1. /\ UNCHANGED <<wloc, rloc, at, irq, caught>> /\ uart # <<>> /\ uart' = Tail(uart)
        /\ tc' = (uart' = <<>>)
    BY <1>7 DEF ShiftOut
  <2>2. Len(uart') # 2
    BY <2>1, FullOrNot DEF FifoInv, RingTypes
  <2>3. tc' \/ uart' # <<>>
    BY <2>1
  <2> QED BY <2>1, <2>2, <2>3
<1>8. CASE UNCHANGED vars
  BY <1>8 DEF vars
<1> QED BY <1>1, <1>2, <1>3, <1>4, <1>5, <1>6, <1>7, <1>8, InterruptAttends
       DEF Next, Begin, Continue

\* A byte that a call leaves in the ring has an interrupt coming for it, for every size of
\* the ring, unless an interrupt has caught put or get halfway: what PickedUpUnlessCaught
\* needs, besides fairness, between two calls.
THEOREM RestStaysAttended == Spec => []RestAttended
<1>1. AttendInv => RestAttended
  BY DEF AttendInv, RestAttended, RestIsDue, RestIsAttended
<1> QED BY <1>1, InitFifo, NextFifo, InitAttend, NextAttend, PTL DEF Spec
================================================================================
