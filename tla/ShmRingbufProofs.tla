-------------------------- MODULE ShmRingbufProofs --------------------------
(***************************************************************************)
(* Proofs about the ring buffer for every ring size, every set of event    *)
(* sizes, every set of threads and every number of events.                 *)
(*                                                                         *)
(* The central difficulty is that head and tail are offsets: head = tail   *)
(* means both an empty and an exactly full ring.  The histories vhead and  *)
(* vtail count bytes without wrapping; the invariant ties the offsets to   *)
(* them and keeps their distance strictly below the ring size, which is    *)
(* where the assumptions NoExactFill and Serial are needed.                *)
(***************************************************************************)
EXTENDS ShmRingbuf, TLAPS

(* All aligned event sizes are multiples of n and the ring size is not, so *)
(* no sequence of commits and pops fills the ring to the last byte.  For   *)
(* the OpenMP events n = 56, and the ring has 65536 bytes.                 *)
NoExactFill(n) ==
  /\ \A s \in EvSizes : \E m \in Nat : Align8(s) = n * m
  /\ \A m \in Int : Size # n * m

(* The writer is used by one thread at a time: it has a mutex (ompt), or   *)
(* the library calls it from one thread only.                              *)
Serial == Locked \/ \A t, u \in Threads : t = u

-----------------------------------------------------------------------------
(* The inductive invariant                                                 *)

InSection(t) == wpc[t] \in {"reserve", "write", "commit"}
Reserved(t) == wpc[t] \in {"write", "commit"}

(* Events popped so far: between Use and Pop the last one is not.          *)
Popped == IF rpc = "pop" THEN Len(delivered) - 1 ELSE Len(delivered)

Exclusion ==
  /\ \A t \in Threads : Locked /\ InSection(t) => mutex = t
  /\ \A t \in Threads : wpc[t] # "idle" => wev[t].size \in EvSizes
  /\ \A t \in Threads : Reserved(t) => /\ reserved_size = wev[t].size
                                       /\ wat[t] = head
                                       /\ vhead + Align8(wev[t].size) < vtail + Size
  /\ (\A t \in Threads : ~Reserved(t)) => reserved_size = 0

Positions(n) ==
  /\ head = vhead % Size /\ tail = vtail % Size
  /\ vtail <= vhead /\ vhead < vtail + Size
  /\ \E m \in Int : vhead - vtail = n * m

Start(l, i) == l[i].start
Length(l, i) == Align8(l[i].ev.size)

(* Committed events are laid end to end; the popped ones are a prefix.     *)
Framing ==
  /\ Popped \in 0 .. Len(log)
  /\ \A i \in 1 .. Len(log) :
       /\ log[i].ev.size \in EvSizes
       /\ Start(log, i) + Length(log, i) <= vhead
       /\ IF i <= Popped THEN Start(log, i) < vtail ELSE Start(log, i) >= vtail
  /\ \A i, j \in 1 .. Len(log) : i < j => Start(log, i) + Length(log, i) <= Start(log, j)
  /\ \A i \in 1 .. Len(log) : Start(log, i) + Length(log, i) = IF i = Len(log) THEN vhead ELSE Start(log, i + 1)
  /\ IF Popped = Len(log) THEN vtail = vhead ELSE vtail = Start(log, Popped + 1)

Contents ==
  /\ \A t \in Threads : wpc[t] = "commit" => HoldsEventAt(head, wev[t])
  /\ \A i \in 1 .. Len(log) :
       i > Popped => HoldsEventAt(Start(log, i) % Size, log[i].ev)

Reading ==
  /\ rpc \notin {"threw", "null"}
  /\ rpc \in {"type", "get", "use", "pop"} => vtail < vhead
  /\ rpc \in {"use", "pop"} => rev = log[Popped + 1].ev
  /\ Len(delivered) <= Len(log)
  /\ \A i \in 1 .. Len(delivered) : delivered[i] = log[i].ev

IInv(n) == TypeOK /\ Exclusion /\ Positions(n) /\ Framing /\ Contents /\ Reading

(* The content m of the ring holds event e from offset `at' on.            *)
HoldsIn(m, at, e) ==
  \A o \in Region(at, e.size) : m[o] = [ev |-> e, off |-> (o - at) % Size]

-----------------------------------------------------------------------------
(* Arithmetic                                                              *)

(* The quotient and the remainder determine a number.                      *)
LEMMA DivMod ==
  ASSUME NEW n \in Nat, n > 0, NEW a \in Int
  PROVE  /\ (a % n) \in 0 .. n - 1
         /\ (a \div n) \in Int
         /\ a = n * (a \div n) + (a % n)
  OBVIOUS

(* A multiple of n strictly between -n and n is zero.                      *)
LEMMA SmallMultiple ==
  ASSUME NEW n \in Nat, n > 0, NEW q \in Int, -n < n * q, n * q < n
  PROVE  q = 0
<1>1. CASE q >= 1
  <2>1. n * (q - 1) >= 0
    BY <1>1
  <2> QED BY <2>1
<1>2. CASE q <= -1
  <2>1. n * (-1 - q) >= 0
    BY <1>2
  <2> QED BY <2>1
<1> QED BY <1>1, <1>2

(* The remainder is unique.                                                *)
LEMMA ModUnique ==
  ASSUME NEW n \in Nat, n > 0, NEW a \in Int, NEW q \in Int,
         NEW r \in 0 .. n - 1, a = n * q + r
  PROVE  (a % n) = r
<1> DEFINE k == a \div n
<1>1. a = n * k + (a % n) /\ k \in Int /\ (a % n) \in 0 .. n - 1
  BY DivMod
<1>2. n * (k - q) = r - (a % n) /\ k - q \in Int
  BY <1>1
<1>3. k - q = 0
  BY <1>1, <1>2, SmallMultiple
<1> QED BY <1>1, <1>2, <1>3

(* Adding before or after taking the remainder makes no difference: the    *)
(* step of advance_head() and advance_tail().                              *)
LEMMA ModAdd ==
  ASSUME NEW n \in Nat, n > 0, NEW a \in Int, NEW b \in Int
  PROVE  (((a % n) + b) % n) = ((a + b) % n)
<1> DEFINE q == a \div n
           p == (a + b) \div n
<1>1. a = n * q + (a % n) /\ q \in Int /\ (a % n) \in 0 .. n - 1
  BY DivMod
<1>2. a + b = n * p + ((a + b) % n) /\ p \in Int /\ ((a + b) % n) \in 0 .. n - 1
  BY DivMod
<1> HIDE DEF q, p
<1>3. (a % n) + b = n * (p - q) + ((a + b) % n)
  BY <1>1, <1>2
<1>4. (a % n) + b \in Int /\ p - q \in Int
  BY <1>1, <1>2
<1> DEFINE c == (a % n) + b
           k == p - q
           r == (a + b) % n
<1>5. c \in Int /\ k \in Int /\ r \in 0 .. n - 1 /\ c = n * k + r
  BY <1>2, <1>3, <1>4
<1> HIDE DEF c, k, r
<1>6. (c % n) = r
  BY <1>5, ModUnique
<1> QED BY <1>6 DEF c, r

(* What rounding up to a multiple of 8 does.                               *)
LEMMA Align8Facts ==
  ASSUME NEW s \in Nat
  PROVE  Align8(s) \in Nat /\ Align8(s) >= s /\ (Align8(s) % 8) = 0
  BY DEF Align8

(* A multiple of 8 taken modulo the ring size is an aligned offset.        *)
LEMMA AlignedOffset ==
  ASSUME NEW a \in Nat, (a % 8) = 0
  PROVE  (a % Size) \in Offsets
<1>1. Size \in Nat /\ Size > 0 /\ (Size % 8) = 0
  BY RingAssumption
<1> DEFINE S == Size \div 8
           A == a \div 8
           q == a \div Size
<1>2. Size = 8 * S /\ a = 8 * A /\ S \in Int /\ A \in Int
  BY <1>1
<1>3. a = Size * q + (a % Size) /\ q \in Int /\ (a % Size) \in 0 .. Size - 1
  BY <1>1, DivMod
<1> HIDE DEF S, A, q
<1>4. (a % Size) = 8 * (A - S * q)
  <2>1. \A x, y \in Int : (8 * x) * y = 8 * (x * y)
    OBVIOUS
  <2>2. Size * q = 8 * (S * q)
    BY <1>2, <1>3, <2>1
  <2>3. S * q \in Int
    BY <1>2, <1>3
  <2> DEFINE z == S * q
             r == a % Size
             w == Size * q
  <2>4. a = w + r /\ w = 8 * z /\ z \in Int /\ r \in Int
    BY <1>3, <2>2, <2>3
  <2> HIDE DEF z, r, w
  <2>5. r = 8 * (A - z)
    BY <1>2, <2>4
  <2> QED BY <2>5 DEF r, z
<1>5. A - S * q \in Int
  BY <1>2, <1>3
<1>6. ((a % Size) % 8) = 0
  BY <1>4, <1>5, ModUnique
<1> QED BY <1>3, <1>6 DEF Offsets

(* An aligned offset advanced by an aligned size is an aligned offset.     *)
LEMMA AdvanceOffset ==
  ASSUME NEW o \in Offsets, NEW s \in Nat
  PROVE  ((o + Align8(s)) % Size) \in Offsets
<1>1. o \in Nat /\ (o % 8) = 0
  BY RingAssumption DEF Offsets
<1>2. Align8(s) \in Nat /\ (Align8(s) % 8) = 0
  BY Align8Facts
<1> DEFINE c == o + Align8(s)
<1>3. c \in Nat /\ (c % 8) = 0
  BY <1>1, <1>2
<1> HIDE DEF c
<1>4. (c % Size) \in Offsets
  BY <1>3, AlignedOffset
<1> QED BY <1>4 DEF c

-----------------------------------------------------------------------------
(* Type correctness, without any assumption on how the writer is used      *)

(* A callback under way has an event of one of the sizes.                  *)
TypeInv ==
  /\ TypeOK
  /\ \A t \in Threads : wpc[t] # "idle" => wev[t].size \in EvSizes

(* The start of the ring is an aligned offset. *)
LEMMA OffsetZero == 0 \in Offsets
  BY RingAssumption DEF Offsets

(* A new ring has its types. *)
LEMMA InitTypeInv == Init => TypeInv
<1> SUFFICES ASSUME Init PROVE TypeInv
  OBVIOUS
<1>1. Zero \in Event
  BY DEF Zero, Event
<1>2. mem \in [Offsets -> Word]
  BY <1>1 DEF Init, Word
<1> QED BY <1>1, <1>2, OffsetZero DEF Init, TypeInv, TypeOK

(* Every step of the writers and of the monitor keeps the types. *)
LEMMA TypeInvStep == TypeInv /\ [Next]_vars => TypeInv'
<1> SUFFICES ASSUME TypeInv, [Next]_vars PROVE TypeInv'
  OBVIOUS
<1> USE DEF TypeInv, TypeOK
<1>sz. EvSizes \subseteq Nat
  BY RingAssumption
<1>off. \A o \in Offsets, h \in Offsets : ((o - h) % Size) \in Nat
  BY RingAssumption DEF Offsets
<1>1. CASE UNCHANGED vars
  BY <1>1 DEF vars, shared, writer, reader, history
<1>2. ASSUME NEW t \in Threads, Callback(t) PROVE TypeInv'
  <2>1. PICK n \in EvSizes : wev' = [wev EXCEPT ![t] = [tp |-> clock + 1, tid |-> t, size |-> n]]
    BY <1>2 DEF Callback
  <2>2. [tp |-> clock + 1, tid |-> t, size |-> n] \in Event
    BY <1>sz DEF Event
  <2> QED BY <1>2, <2>1, <2>2 DEF Callback, shared, reader, history
<1>3. ASSUME NEW t \in Threads, Lock(t) PROVE TypeInv'
  BY <1>3 DEF Lock, shared, reader, history
<1>4. ASSUME NEW t \in Threads, Reserve(t) PROVE TypeInv'
  <2>1. wev[t].size \in EvSizes
    BY <1>4 DEF Reserve
  <2>2. [Zero EXCEPT !.size = wev[t].size] \in Event
    BY <2>1, <1>sz DEF Zero, Event
  <2>3. mem' \in [Offsets -> Word]
    BY <1>4, <2>2, <1>off DEF Reserve, Word
  <2> QED BY <1>4, <2>1, <2>3 DEF Reserve, reader, history
<1>5. ASSUME NEW t \in Threads, ReserveFails(t) PROVE TypeInv'
  BY <1>5 DEF ReserveFails, Unlocked, shared, reader, history
<1>6. ASSUME NEW t \in Threads, Write(t) PROVE TypeInv'
  <2>1. mem' \in [Offsets -> Word]
    BY <1>6, <1>off DEF Write, Word
  <2> QED BY <1>6, <2>1 DEF Write, reader, history
<1>7. ASSUME NEW t \in Threads, Commit(t) PROVE TypeInv'
  <2>1. reserved_size \in Nat
    BY <1>sz
  <2>2. head' \in Offsets
    BY <1>7, <2>1, AdvanceOffset DEF Commit, AdvanceHead
  <2>3. vhead' \in Nat
    <3>1. Align8(reserved_size) \in Nat
      BY <2>1, Align8Facts
    <3> QED BY <1>7, <3>1 DEF Commit
  <2>4. log' \in Seq([start : Nat, ev : Event])
    BY <1>7 DEF Commit
  <2> QED BY <1>7, <2>2, <2>3, <2>4 DEF Commit, Unlocked, reader
<1>8. CASE Wake
  BY <1>8 DEF Wake, shared, writer, history
<1>9. CASE Empty
  BY <1>9 DEF Empty, shared, writer, history
<1>10. CASE GetTopEventType
  BY <1>10 DEF GetTopEventType, shared, writer, history
<1>hdr. Header \in Event
  BY DEF Header, Word
<1>11. CASE Get
  BY <1>11, <1>hdr DEF Get, shared, writer, history
<1>12. CASE Use
  BY <1>12, <1>hdr DEF Use, shared, writer
<1>13. CASE Pop
  <2>1. Header.size \in Nat
    BY <1>hdr DEF Event
  <2>2. tail' \in Offsets
    BY <1>13, <2>1, AdvanceOffset DEF Pop, AdvanceTail
  <2>3. vtail' \in Nat
    <3>1. Align8(Header.size) \in Nat
      BY <2>1, Align8Facts
    <3> QED BY <1>13, <3>1 DEF Pop
  <2> QED BY <1>13, <2>2, <2>3 DEF Pop, writer
<1> QED BY <1>1, <1>2, <1>3, <1>4, <1>5, <1>6, <1>7, <1>8, <1>9, <1>10, <1>11, <1>12, <1>13
        DEF Next, ReaderStep, WriterStep

(* Type correctness: head and tail are aligned offsets of the ring in every *)
(* reachable state, whatever the event sizes and however many threads      *)
(* write without a lock.                                                   *)
THEOREM TypeCorrect == Spec => []TypeOK
<1>1. TypeInv => TypeOK
  BY DEF TypeInv
<1> QED BY InitTypeInv, TypeInvStep, <1>1, PTL DEF Spec

-----------------------------------------------------------------------------
(* Offsets and byte counts                                                 *)

(* The distance of head and tail as the code computes it from the offsets  *)
(* is the number of unread bytes, as long as that is below the ring size.  *)
LEMMA Distance ==
  ASSUME NEW vh \in Nat, NEW vt \in Nat, vt <= vh, vh < vt + Size
  PROVE  vh - vt = IF (vh % Size) >= (vt % Size)
                   THEN (vh % Size) - (vt % Size)
                   ELSE (vh % Size) - (vt % Size) + Size
<1>1. Size \in Nat /\ Size > 0
  BY RingAssumption
<1> DEFINE p == vh \div Size
           q == vt \div Size
           h == vh % Size
           t == vt % Size
<1>2. vh = Size * p + h /\ p \in Int /\ h \in 0 .. Size - 1
  BY <1>1, DivMod
<1>3. vt = Size * q + t /\ q \in Int /\ t \in 0 .. Size - 1
  BY <1>1, DivMod
<1> HIDE DEF p, q, h, t
<1>4. vh - vt = Size * (p - q) + (h - t) /\ p - q \in Int
  BY <1>1, <1>2, <1>3
<1>5. CASE h >= t
  <2>1. p - q = 0
    BY <1>1, <1>2, <1>3, <1>4, <1>5, SmallMultiple
  <2> QED BY <1>1, <1>2, <1>3, <1>4, <1>5, <2>1 DEF h, t
<1>6. CASE h < t
  <2>1. Size * (p - q) - Size = Size * (p - q - 1)
    BY <1>1, <1>2, <1>3
  <2>2. p - q - 1 = 0
    <3> DEFINE d == p - q - 1
    <3>1. d \in Int /\ -Size < Size * d /\ Size * d < Size
      BY <1>1, <1>2, <1>3, <1>4, <1>6, <2>1
    <3> HIDE DEF d
    <3>2. d = 0
      BY <1>1, <3>1, SmallMultiple
    <3> QED BY <3>2 DEF d
  <2>3. Size * (p - q) = Size
    BY <1>1, <1>2, <1>3, <2>1, <2>2
  <2> QED BY <1>1, <1>2, <1>3, <1>4, <1>6, <2>3 DEF h, t
<1> QED BY <1>2, <1>3, <1>5, <1>6

(* Two regions less than a ring apart in the byte stream share no word.    *)
LEMMA NoOverlap ==
  ASSUME NEW a \in Nat, NEW b \in Nat, NEW s \in Nat, NEW r \in Nat,
         a + Align8(s) <= b, b + Align8(r) <= a + Size,
         NEW o \in Region(a % Size, s)
  PROVE  o \notin Region(b % Size, r)
<1>1. Size \in Nat /\ Size > 0 /\ o \in 0 .. Size - 1
  BY RingAssumption DEF Region, Offsets
<1>2. Align8(s) \in Nat /\ Align8(r) \in Nat
  BY Align8Facts
<1> SUFFICES ASSUME o \in Region(b % Size, r) PROVE FALSE
  OBVIOUS
<1> DEFINE ra == a % Size
           rb == b % Size
           qa == a \div Size
           qb == b \div Size
           x == (o - ra) % Size
           y == (o - rb) % Size
           qx == (o - ra) \div Size
           qy == (o - rb) \div Size
<1>3. a = Size * qa + ra /\ qa \in Int /\ ra \in 0 .. Size - 1
  BY <1>1, DivMod
<1>4. b = Size * qb + rb /\ qb \in Int /\ rb \in 0 .. Size - 1
  BY <1>1, DivMod
<1>5. o - ra = Size * qx + x /\ qx \in Int /\ x \in 0 .. Size - 1
  <2>1. o - ra \in Int
    BY <1>1, <1>3
  <2> QED BY <1>1, <2>1, DivMod
<1>6. o - rb = Size * qy + y /\ qy \in Int /\ y \in 0 .. Size - 1
  <2>1. o - rb \in Int
    BY <1>1, <1>4
  <2> QED BY <1>1, <2>1, DivMod
<1>7. x < Align8(s) /\ y < Align8(r)
  BY DEF Region
<1> HIDE DEF ra, rb, qa, qb, x, y, qx, qy
<1>8. Size * (qb - qy - qa + qx) = (b + y) - (a + x)
  <2>1. Size * (qb - qy - qa + qx) = Size * qb - Size * qy - Size * qa + Size * qx
    BY <1>1, <1>3, <1>4, <1>5, <1>6
  <2> QED BY <1>1, <1>3, <1>4, <1>5, <1>6, <2>1
<1> DEFINE d == qb - qy - qa + qx
<1>9. d \in Int
  BY <1>3, <1>4, <1>5, <1>6
<1>10. 0 < Size * d /\ Size * d < Size
  BY <1>1, <1>2, <1>5, <1>6, <1>7, <1>8
<1> HIDE DEF d
<1>11. d = 0
  BY <1>1, <1>9, <1>10, SmallMultiple
<1> QED BY <1>1, <1>10, <1>11

-----------------------------------------------------------------------------
(* What the code's tests mean in a state of the invariant                  *)

(* can_be_loaded() tests for that many unread bytes.                       *)
LEMMA LoadIff ==
  ASSUME NEW n \in Nat, TypeOK, Positions(n), NEW s \in Nat
  PROVE  CanBeLoaded(s) <=> vtail + Align8(s) <= vhead
<1>1. Align8(s) \in Nat /\ Size \in Nat
  BY Align8Facts, RingAssumption
<1>2. vhead \in Nat /\ vtail \in Nat /\ head \in Nat /\ tail \in Nat
  BY RingAssumption DEF TypeOK, Offsets
<1>3. vhead - vtail = IF head >= tail THEN head - tail ELSE head - tail + Size
  BY <1>2, Distance DEF Positions
<1> QED BY <1>1, <1>2, <1>3 DEF CanBeLoaded

(* A reservation leaves at least one byte of the ring free.                *)
LEMMA RoomStrict ==
  ASSUME NEW n \in Nat, NoExactFill(n), TypeOK, Positions(n),
         NEW s \in EvSizes, CanReserve(s)
  PROVE  vhead + Align8(s) < vtail + Size
<1>1. Align8(s) \in Nat /\ Size \in Nat
  BY Align8Facts, RingAssumption
<1>2. vhead \in Nat /\ vtail \in Nat /\ head \in Nat /\ tail \in Nat
  BY RingAssumption DEF TypeOK, Offsets
<1>3. vhead - vtail = IF head >= tail THEN head - tail ELSE head - tail + Size
  BY <1>2, Distance DEF Positions
<1>4. vhead + Align8(s) <= vtail + Size
  BY <1>1, <1>2, <1>3 DEF CanReserve
<1>5. PICK m \in Int : vhead - vtail = n * m
  BY DEF Positions
<1>6. PICK k \in Nat : Align8(s) = n * k
  BY DEF NoExactFill
<1>7. n * m + n * k = n * (m + k)
  BY <1>5, <1>6
<1>8. vhead + Align8(s) # vtail + Size
  <2> SUFFICES ASSUME vhead + Align8(s) = vtail + Size PROVE FALSE
    OBVIOUS
  <2>1. Size = n * m + n * k
    BY <1>1, <1>2, <1>5, <1>6
  <2>2. Size = n * (m + k) /\ m + k \in Int
    BY <2>1, <1>5, <1>6, <1>7
  <2> QED BY <2>2 DEF NoExactFill
<1> QED BY <1>1, <1>2, <1>4, <1>8

(* The first unread event lies whole at the tail.                          *)
LEMMA TopEvent ==
  ASSUME NEW n \in Nat, TypeOK, Positions(n), Framing, Contents, vtail < vhead
  PROVE  /\ Popped + 1 \in 1 .. Len(log)
         /\ Start(log, Popped + 1) = vtail
         /\ HoldsIn(mem, tail, log[Popped + 1].ev)
         /\ Header = log[Popped + 1].ev
         /\ Header.size \in EvSizes /\ Header.size \in Nat
         /\ vtail + Align8(Header.size) <= vhead
         /\ Align8(Header.size) \in Nat /\ Align8(Header.size) >= HeaderSize
<1>1. vhead \in Nat /\ vtail \in Nat /\ Len(log) \in Nat /\ Popped \in Int
  BY DEF TypeOK, Popped
<1>2. Popped # Len(log) /\ Popped \in 0 .. Len(log) /\ vtail = Start(log, Popped + 1)
  BY <1>1 DEF Framing
<1>3. Popped + 1 \in 1 .. Len(log) /\ Popped + 1 > Popped
  BY <1>1, <1>2
<1> DEFINE i == Popped + 1
<1>4. log[i].ev.size \in EvSizes /\ Start(log, i) + Length(log, i) <= vhead
  BY <1>3 DEF Framing
<1>5. HoldsEventAt(Start(log, i) % Size, log[i].ev)
  BY <1>3 DEF Contents
<1>6. tail = Start(log, i) % Size
  BY <1>2 DEF Positions
<1>7. HoldsIn(mem, tail, log[i].ev)
  BY <1>5, <1>6 DEF HoldsEventAt, HoldsIn
<1>8. log[i].ev.size \in Nat /\ log[i].ev.size >= HeaderSize
  BY <1>4, RingAssumption
<1>9. Align8(log[i].ev.size) \in Nat /\ Align8(log[i].ev.size) >= HeaderSize
  BY <1>8, Align8Facts DEF HeaderSize
<1>10. tail \in Region(tail, log[i].ev.size)
  <2>1. tail \in Offsets /\ tail \in Int /\ Size \in Nat /\ Size > 0
    BY RingAssumption DEF TypeOK, Offsets
  <2>2. ((tail - tail) % Size) = 0
    BY <2>1
  <2> QED BY <1>9, <2>1, <2>2 DEF Region, HeaderSize
<1> HIDE DEF i
<1>11. mem[tail].ev = log[i].ev
  <2>1. mem[tail] = [ev |-> log[i].ev, off |-> (tail - tail) % Size]
    BY <1>7, <1>10, Zenon DEF HoldsIn
  <2> QED BY <2>1
<1>12. Header = log[i].ev
  BY <1>11 DEF Header
<1>13. vtail + Align8(Header.size) <= vhead
  BY <1>2, <1>4, <1>12 DEF Length, i
<1> QED BY <1>2, <1>3, <1>4, <1>7, <1>8, <1>9, <1>12, <1>13 DEF i

-----------------------------------------------------------------------------
(* The invariant is inductive                                              *)

(* One thread at a time is between taking the lock and releasing it.       *)
LEMMA OneWriter ==
  ASSUME Serial, TypeOK, Exclusion, NEW t \in Threads, NEW u \in Threads,
         InSection(t), InSection(u)
  PROVE  t = u
  BY DEF Serial, Exclusion

(* Every step keeps the writers apart: only the holder of the lock has a
   reservation, and reserved_size_ is its size. *)
LEMMA ExclusionStep ==
  ASSUME NEW n \in Nat, NoExactFill(n), Serial, IInv(n), [Next]_vars
  PROVE  Exclusion'
<1> USE DEF IInv
<1>ty. TypeOK
  OBVIOUS
<1>1. CASE UNCHANGED vars
  BY <1>1 DEF vars, shared, writer, reader, history, Exclusion, InSection, Reserved
<1>2. ASSUME NEW t \in Threads, Callback(t) PROVE Exclusion'
  <2>1. wpc' = [wpc EXCEPT ![t] = IF Locked THEN "lock" ELSE "reserve"] /\ ~Reserved(t)
    BY <1>2 DEF Callback, Reserved
  <2>2. wev'[t].size \in EvSizes /\ \A u \in Threads : u # t => wev'[u] = wev[u]
    BY <1>2, <1>ty DEF Callback, TypeOK
  <2>3. \A u \in Threads : Reserved(u)' <=> Reserved(u)
    BY <2>1, <1>ty DEF Reserved, TypeOK
  <2>4. \A u \in Threads : Locked /\ InSection(u)' => InSection(u)
    BY <2>1, <1>ty DEF InSection, TypeOK
  <2>5. UNCHANGED <<mutex, reserved_size, wat, head, vhead, vtail>>
    BY <1>2 DEF Callback, shared, history
  <2>6. \A u \in Threads : Reserved(u) => u # t
    BY <2>1
  <2>7. \A u \in Threads : u # t => wpc'[u] = wpc[u]
    BY <2>1, <1>ty DEF TypeOK
  <2> QED BY <2>2, <2>3, <2>4, <2>5, <2>6, <2>7 DEF Exclusion
<1>3. ASSUME NEW t \in Threads, Lock(t) PROVE Exclusion'
  <2>1. wpc' = [wpc EXCEPT ![t] = "reserve"] /\ wpc[t] = "lock" /\ mutex = NoThread /\ mutex' = t
    BY <1>3 DEF Lock, MutexFree
  <2>2. UNCHANGED <<wev, reserved_size, wat, head, vhead, vtail>>
    BY <1>3 DEF Lock, shared, history
  <2>3. \A u \in Threads : Reserved(u)' <=> Reserved(u)
    BY <2>1, <1>ty DEF Reserved, TypeOK
  <2>4. \A u \in Threads : Locked /\ InSection(u)' => u = t
    BY <2>1, <1>ty, RingAssumption DEF InSection, TypeOK, Exclusion
  <2>5. \A u \in Threads : wpc'[u] # "idle" => wpc[u] # "idle"
    BY <2>1, <1>ty DEF TypeOK
  <2> QED BY <2>1, <2>2, <2>3, <2>4, <2>5 DEF Exclusion
<1>4. ASSUME NEW t \in Threads, Reserve(t) PROVE Exclusion'
  <2>1. /\ wpc[t] = "reserve" /\ CanReserve(wev[t].size)
        /\ wpc' = [wpc EXCEPT ![t] = "write"]
        /\ wat' = [wat EXCEPT ![t] = head]
        /\ reserved_size' = wev[t].size
        /\ UNCHANGED <<head, vhead, vtail, mutex, wev>>
    BY <1>4 DEF Reserve, history
  <2>2. wev[t].size \in EvSizes /\ InSection(t)
    BY <2>1 DEF Exclusion, InSection
  <2>3. vhead + Align8(wev[t].size) < vtail + Size
    BY <2>1, <2>2, RoomStrict
  <2>4. \A u \in Threads : InSection(u) => u = t
    BY <2>2, <1>ty, OneWriter
  <2>5. \A u \in Threads : Reserved(u)' => u = t
    BY <2>1, <2>4, <1>ty DEF Reserved, InSection, TypeOK
  <2>6. wat'[t] = head /\ Reserved(t)'
    BY <2>1, <1>ty DEF TypeOK, Reserved
  <2>7. \A u \in Threads : InSection(u)' => InSection(u)
    BY <2>1, <1>ty DEF TypeOK, InSection
  <2>8. \A u \in Threads : wpc'[u] # "idle" => wpc[u] # "idle"
    BY <2>1, <1>ty DEF TypeOK
  <2> QED BY <2>1, <2>3, <2>5, <2>6, <2>7, <2>8 DEF Exclusion
<1>5. ASSUME NEW t \in Threads, ReserveFails(t) PROVE Exclusion'
  <2>1. /\ wpc[t] = "reserve" /\ mutex' = Unlocked(t)
        /\ wpc' = [wpc EXCEPT ![t] = "idle"]
        /\ UNCHANGED <<head, vhead, vtail, wev, wat, reserved_size>>
    BY <1>5 DEF ReserveFails, shared, history
  <2>2. InSection(t)
    BY <2>1 DEF InSection
  <2>3. \A u \in Threads : ~InSection(u)'
    <3>1. \A u \in Threads : InSection(u) => u = t
      BY <2>2, <1>ty, OneWriter
    <3> QED BY <2>1, <3>1, <1>ty DEF TypeOK, InSection
  <2>4. \A u \in Threads : Reserved(u)' <=> Reserved(u)
    BY <2>1, <1>ty DEF Reserved, TypeOK
  <2>5. \A u \in Threads : wpc'[u] # "idle" => wpc[u] # "idle"
    BY <2>1, <1>ty DEF TypeOK
  <2> QED BY <2>1, <2>3, <2>4, <2>5 DEF Exclusion
<1>6. ASSUME NEW t \in Threads, Write(t) PROVE Exclusion'
  <2>1. /\ wpc[t] = "write"
        /\ wpc' = [wpc EXCEPT ![t] = "commit"]
        /\ UNCHANGED <<head, vhead, vtail, wev, wat, reserved_size, mutex>>
    BY <1>6 DEF Write, history
  <2>2. \A u \in Threads : Reserved(u)' <=> Reserved(u)
    BY <2>1, <1>ty DEF Reserved, TypeOK
  <2>3. \A u \in Threads : InSection(u)' => InSection(u)
    BY <2>1, <1>ty DEF InSection, TypeOK
  <2>4. \A u \in Threads : wpc'[u] # "idle" => wpc[u] # "idle"
    BY <2>1, <1>ty DEF TypeOK
  <2> QED BY <2>1, <2>2, <2>3, <2>4 DEF Exclusion
<1>7. ASSUME NEW t \in Threads, Commit(t) PROVE Exclusion'
  <2>1. /\ wpc[t] = "commit" /\ mutex' = Unlocked(t)
        /\ wpc' = [wpc EXCEPT ![t] = "idle"]
        /\ reserved_size' = 0
        /\ UNCHANGED wev
    BY <1>7 DEF Commit
  <2>2. InSection(t)
    BY <2>1 DEF InSection
  <2>3. \A u \in Threads : ~InSection(u)'
    <3>1. \A u \in Threads : InSection(u) => u = t
      BY <2>2, <1>ty, OneWriter
    <3> QED BY <2>1, <3>1, <1>ty DEF TypeOK, InSection
  <2>4. \A u \in Threads : Reserved(u)' => InSection(u)'
    BY DEF Reserved, InSection
  <2>5. \A u \in Threads : wpc'[u] # "idle" => wpc[u] # "idle"
    BY <2>1, <1>ty DEF TypeOK
  <2> QED BY <2>1, <2>3, <2>4, <2>5 DEF Exclusion
<1>8. CASE Wake \/ Empty \/ GetTopEventType \/ Get \/ Use
  <2>1. UNCHANGED <<writer, head, vhead, vtail>>
    BY <1>8 DEF Wake, Empty, GetTopEventType, Get, Use, shared, history
  <2> QED BY <2>1 DEF writer, Exclusion, InSection, Reserved
<1>9. CASE Pop
  <2>1. UNCHANGED <<writer, head, vhead>> /\ vtail' \in Nat /\ vtail' >= vtail
    <3>1. Header.size \in Nat
      BY <1>ty DEF TypeOK, Header, Word, Event
    <3>2. Align8(Header.size) \in Nat
      BY <3>1, Align8Facts
    <3> QED BY <1>9, <1>ty, <3>2 DEF Pop, TypeOK
  <2>2. \A t \in Threads : Reserved(t) => vhead + Align8(wev[t].size) < vtail' + Size
    <3> SUFFICES ASSUME NEW t \in Threads, Reserved(t) PROVE vhead + Align8(wev[t].size) < vtail' + Size
      OBVIOUS
    <3>1. wev[t].size \in Nat /\ Size \in Nat /\ vhead \in Nat /\ vtail \in Nat
      BY <1>ty, RingAssumption DEF TypeOK, Event
    <3>2. Align8(wev[t].size) \in Nat
      BY <3>1, Align8Facts
    <3> QED BY <2>1, <3>1, <3>2 DEF Exclusion
  <2> QED BY <2>1, <2>2 DEF writer, Exclusion, InSection, Reserved
<1> QED BY <1>1, <1>2, <1>3, <1>4, <1>5, <1>6, <1>7, <1>8, <1>9 DEF Next, ReaderStep, WriterStep

(* Every step but Commit, Use and Pop leaves positions and histories alone. *)
LEMMA QuietStep ==
  ASSUME [Next]_vars, ~Use, ~Pop, \A t \in Threads : ~Commit(t)
  PROVE  UNCHANGED <<head, tail, vhead, vtail, log, delivered>> /\ Popped' = Popped
<1>1. CASE UNCHANGED vars
  BY <1>1 DEF vars, shared, writer, reader, history, Popped
<1>2. CASE \E t \in Threads : Callback(t) \/ Lock(t) \/ Reserve(t) \/ ReserveFails(t) \/ Write(t)
  BY <1>2 DEF Callback, Lock, Reserve, ReserveFails, Write, shared, reader, history, Popped
<1>3. CASE Wake \/ Empty \/ GetTopEventType \/ Get
  BY <1>3 DEF Wake, Empty, GetTopEventType, Get, shared, history, Popped
<1> QED BY <1>1, <1>2, <1>3 DEF Next, ReaderStep, WriterStep

(* What commit() adds: an event of the reserved size at the old head.      *)
LEMMA CommitFacts ==
  ASSUME NEW n \in Nat, NoExactFill(n), IInv(n), NEW t \in Threads, Commit(t)
  PROVE  /\ wev[t].size \in EvSizes /\ wev[t].size \in Nat
         /\ Align8(wev[t].size) \in Nat /\ Align8(wev[t].size) > 0
         /\ vhead' = vhead + Align8(wev[t].size)
         /\ vhead' < vtail + Size
         /\ head' = (head + Align8(wev[t].size)) % Size
         /\ log' = Append(log, [start |-> vhead, ev |-> wev[t]])
         /\ Len(log') = Len(log) + 1
         /\ \A i \in 1 .. Len(log) : log'[i] = log[i]
         /\ log'[Len(log) + 1] = [start |-> vhead, ev |-> wev[t]]
         /\ UNCHANGED <<tail, mem, rpc, rev, wev, vtail, delivered>>
         /\ Popped' = Popped
<1>1. wpc[t] = "commit"
  BY DEF Commit
<1>2. Reserved(t) /\ wpc[t] # "idle"
  BY <1>1 DEF Reserved
<1>3. wev[t].size \in EvSizes /\ reserved_size = wev[t].size
      /\ vhead + Align8(wev[t].size) < vtail + Size
  BY <1>2 DEF IInv, Exclusion
<1>4. wev[t].size \in Nat /\ wev[t].size >= HeaderSize
  BY <1>3, RingAssumption
<1>5. Align8(wev[t].size) \in Nat /\ Align8(wev[t].size) > 0
  BY <1>4, Align8Facts DEF HeaderSize
<1>6. log \in Seq([start : Nat, ev : Event])
  BY DEF IInv, TypeOK
<1>7. log' = Append(log, [start |-> vhead, ev |-> wev[t]])
  BY DEF Commit
<1>8. /\ Len(log') = Len(log) + 1
      /\ \A i \in 1 .. Len(log) : log'[i] = log[i]
      /\ log'[Len(log) + 1] = [start |-> vhead, ev |-> wev[t]]
  BY <1>6, <1>7
<1>9. vhead' = vhead + Align8(wev[t].size) /\ head' = (head + Align8(wev[t].size)) % Size
  BY <1>3 DEF Commit, AdvanceHead
<1>10. UNCHANGED <<tail, mem, rpc, rev, wev, vtail, delivered>> /\ Popped' = Popped
  BY DEF Commit, reader, Popped
<1> QED BY <1>3, <1>4, <1>5, <1>7, <1>8, <1>9, <1>10

(* What pop() removes: exactly the first unread event.                     *)
LEMMA PopFacts ==
  ASSUME NEW n \in Nat, IInv(n), Pop
  PROVE  /\ rpc' = "empty" /\ vtail < vhead
         /\ tail' = (tail + Align8(Header.size)) % Size
         /\ vtail' = vtail + Align8(Header.size)
         /\ UNCHANGED <<head, mem, vhead, log, delivered, wpc, wev, rev>>
         /\ Popped' = Popped + 1
<1>1. rpc = "pop"
  BY DEF Pop
<1>2. vtail < vhead
  BY <1>1 DEF IInv, Reading
<1>3. vtail + Align8(Header.size) <= vhead /\ Align8(Header.size) >= HeaderSize
      /\ Align8(Header.size) \in Nat
  BY <1>2, TopEvent DEF IInv
<1>4. Align8(HeaderSize) = HeaderSize /\ HeaderSize \in Nat
  BY DEF Align8, HeaderSize
<1>5. vtail \in Nat /\ vhead \in Nat
  BY DEF IInv, TypeOK
<1>6. CanBeLoaded(HeaderSize)
  BY <1>3, <1>4, <1>5, LoadIff DEF IInv
<1>7. Popped' = Popped + 1
  BY <1>1 DEF Pop, Popped, IInv, TypeOK
<1> QED BY <1>2, <1>6, <1>7 DEF Pop, AdvanceTail, writer

(* Use hands out the first unread event and marks it as not yet popped.    *)
LEMMA UseFacts ==
  ASSUME NEW n \in Nat, IInv(n), Use
  PROVE  /\ rpc = "use" /\ rpc' = "pop" /\ vtail < vhead
         /\ Popped = Len(delivered) /\ Popped' = Popped
         /\ Len(delivered') = Len(delivered) + 1
         /\ \A i \in 1 .. Len(delivered) : delivered'[i] = delivered[i]
         /\ delivered'[Len(delivered) + 1] = log[Popped + 1].ev
         /\ delivered' = Append(delivered, log[Popped + 1].ev)
         /\ UNCHANGED <<head, tail, mem, vhead, vtail, log, wpc, wev, rev>>
<1>1. rpc = "use" /\ rpc' = "pop" /\ delivered' = Append(delivered, Header)
      /\ UNCHANGED <<head, tail, mem, vhead, vtail, log, wpc, wev, rev>>
  BY DEF Use, shared, writer
<1>2. vtail < vhead
  BY <1>1 DEF IInv, Reading
<1>3. Header = log[Popped + 1].ev
  BY <1>2, TopEvent DEF IInv
<1>4. delivered \in Seq(Event) /\ Header \in Event
  BY DEF IInv, TypeOK, Header, Word
<1>5. /\ Len(delivered') = Len(delivered) + 1
      /\ \A i \in 1 .. Len(delivered) : delivered'[i] = delivered[i]
      /\ delivered'[Len(delivered) + 1] = Header
  BY <1>1, <1>4
<1>6. Popped = Len(delivered) /\ Popped' = Popped
  BY <1>1, <1>4, <1>5 DEF Popped
<1> QED BY <1>1, <1>2, <1>3, <1>5, <1>6

(* Every step keeps head and tail equal to the byte counts modulo the ring
   size, and the unread bytes fewer than the ring has. *)
LEMMA PositionsStep ==
  ASSUME NEW n \in Nat, NoExactFill(n), IInv(n), [Next]_vars
  PROVE  Positions(n)'
<1>1. vhead \in Nat /\ vtail \in Nat /\ Size \in Nat /\ Size > 0
  BY RingAssumption DEF IInv, TypeOK
<1>2. PICK m \in Int : vhead - vtail = n * m
  BY DEF IInv, Positions
<1>3. ASSUME NEW t \in Threads, Commit(t) PROVE Positions(n)'
  <2> DEFINE a == Align8(wev[t].size)
  <2>1. a \in Nat /\ vhead' = vhead + a /\ vhead' < vtail + Size
        /\ head' = (head + a) % Size /\ UNCHANGED <<tail, vtail>>
        /\ wev[t].size \in EvSizes
    BY <1>3, CommitFacts
  <2>2. PICK k \in Nat : a = n * k
    BY <2>1 DEF NoExactFill
  <2> HIDE DEF a
  <2>3. head = vhead % Size /\ tail = vtail % Size /\ vtail <= vhead
    BY DEF IInv, Positions
  <2>4. head' = vhead' % Size
    <3>1. (((vhead % Size) + a) % Size) = ((vhead + a) % Size)
      <4>1. vhead \in Int /\ a \in Int
        BY <1>1, <2>1
      <4> QED BY <1>1, <4>1, ModAdd, Zenon
    <3> QED BY <2>1, <2>3, <3>1
  <2>5. vhead' - vtail' = n * (m + k) /\ m + k \in Int
    BY <1>1, <1>2, <2>1, <2>2
  <2>6. vtail' <= vhead' /\ vhead' < vtail' + Size
    BY <1>1, <2>1, <2>3
  <2> QED BY <2>1, <2>3, <2>4, <2>5, <2>6 DEF Positions
<1>4. CASE Pop
  <2> DEFINE a == Align8(Header.size)
  <2>1. vtail < vhead /\ vtail' = vtail + a /\ tail' = (tail + a) % Size
        /\ UNCHANGED <<head, vhead>>
    BY <1>4, PopFacts
  <2>2. a \in Nat /\ vtail + a <= vhead /\ Header.size \in EvSizes
    BY <2>1, TopEvent DEF IInv
  <2>3. PICK k \in Nat : a = n * k
    BY <2>2 DEF NoExactFill
  <2> HIDE DEF a
  <2>4. head = vhead % Size /\ tail = vtail % Size /\ vhead < vtail + Size
    BY DEF IInv, Positions
  <2>5. tail' = vtail' % Size
    <3>1. (((vtail % Size) + a) % Size) = ((vtail + a) % Size)
      <4>1. vtail \in Int /\ a \in Int
        BY <1>1, <2>2
      <4> QED BY <1>1, <4>1, ModAdd, Zenon
    <3> QED BY <2>1, <2>4, <3>1
  <2>6. vhead' - vtail' = n * (m - k) /\ m - k \in Int
    BY <1>1, <1>2, <2>1, <2>2, <2>3
  <2>7. vtail' <= vhead' /\ vhead' < vtail' + Size
    BY <1>1, <2>1, <2>2, <2>4
  <2> QED BY <2>1, <2>4, <2>5, <2>6, <2>7 DEF Positions
<1>5. CASE Use
  BY <1>5, UseFacts DEF Positions, IInv
<1>6. CASE ~Use /\ ~Pop /\ \A t \in Threads : ~Commit(t)
  BY <1>6, QuietStep DEF Positions, IInv
<1> QED BY <1>3, <1>4, <1>5, <1>6

(* Each event has a natural start and a positive length.                   *)
LEMMA EventTypes ==
  ASSUME TypeOK, Framing, NEW i \in 1 .. Len(log)
  PROVE  /\ Start(log, i) \in Nat /\ Length(log, i) \in Nat /\ Length(log, i) > 0
         /\ log[i].ev.size \in Nat
<1>1. log[i] \in [start : Nat, ev : Event]
  <2> DEFINE S == [start : Nat, ev : Event]
  <2>1. log \in Seq(S)
    BY DEF TypeOK
  <2> HIDE DEF S
  <2>2. log[i] \in S
    BY <2>1
  <2> QED BY <2>2 DEF S
<1>2. log[i].ev.size \in Nat /\ log[i].ev.size >= HeaderSize
  BY RingAssumption DEF Framing
<1>3. Length(log, i) \in Nat /\ Length(log, i) > 0
  <2>1. Align8(log[i].ev.size) \in Nat /\ Align8(log[i].ev.size) >= log[i].ev.size
    BY <1>2, Align8Facts
  <2> QED BY <1>2, <2>1 DEF Length, HeaderSize
<1> QED BY <1>1, <1>2, <1>3 DEF Start

(* Every step keeps the committed events adjacent in the byte stream, with
   the first unread one at the tail. *)
LEMMA FramingStep ==
  ASSUME NEW n \in Nat, NoExactFill(n), IInv(n), [Next]_vars
  PROVE  Framing'
<1>ty. TypeOK /\ Framing /\ vhead \in Nat /\ vtail \in Nat /\ Len(log) \in Nat
  BY DEF IInv, TypeOK
<1>ev. \A i \in 1 .. Len(log) : Start(log, i) \in Nat /\ Length(log, i) \in Nat /\ Length(log, i) > 0
  BY <1>ty, EventTypes
<1>1. ASSUME NEW t \in Threads, Commit(t) PROVE Framing'
  <2> DEFINE a == Align8(wev[t].size)
             L == Len(log)
  <2>1. /\ a \in Nat /\ a > 0 /\ wev[t].size \in EvSizes
        /\ vhead' = vhead + a /\ vtail' = vtail /\ Popped' = Popped
        /\ Len(log') = L + 1
        /\ \A i \in 1 .. L : log'[i] = log[i]
        /\ log'[L + 1] = [start |-> vhead, ev |-> wev[t]]
    BY <1>1, CommitFacts
  <2>2. Start(log', L + 1) = vhead /\ Length(log', L + 1) = a
    BY <2>1 DEF Start, Length
  <2>3. \A i \in 1 .. L : Start(log', i) = Start(log, i) /\ Length(log', i) = Length(log, i)
    BY <2>1 DEF Start, Length
  <2>size. \A i \in 1 .. L : log'[i].ev.size \in EvSizes
    BY <1>ty, <2>1 DEF Framing
  <2>last. log'[L + 1].ev.size \in EvSizes
    BY <2>1
  <2> HIDE DEF a, L
  <2>4. L \in Nat /\ Popped \in 0 .. L /\ vtail <= vhead
    BY <1>ty DEF L, Framing, IInv, Positions
  <2>5. \A i \in 1 .. L + 1 : i \in 1 .. L \/ i = L + 1
    BY <2>4
  <2>6. \A i \in 1 .. L : /\ Start(log, i) \in Nat /\ Length(log, i) \in Nat /\ Start(log, i) + Length(log, i) <= vhead
                          /\ IF i <= Popped THEN Start(log, i) < vtail ELSE Start(log, i) >= vtail
    BY <1>ty, <1>ev DEF L, Framing
  <2>7. \A i \in 1 .. L + 1 :
          /\ log'[i].ev.size \in EvSizes
          /\ Start(log', i) + Length(log', i) <= vhead'
          /\ IF i <= Popped THEN Start(log', i) < vtail ELSE Start(log', i) >= vtail
    <3> SUFFICES ASSUME NEW i \in 1 .. L + 1
                 PROVE  /\ log'[i].ev.size \in EvSizes
                        /\ Start(log', i) + Length(log', i) <= vhead'
                        /\ IF i <= Popped THEN Start(log', i) < vtail ELSE Start(log', i) >= vtail
      OBVIOUS
    <3>1. CASE i \in 1 .. L
      BY <1>ty, <2>1, <2>3, <2>4, <2>6, <2>size, <3>1
    <3>2. CASE i = L + 1
      BY <1>ty, <2>1, <2>2, <2>4, <2>last, <3>2
    <3> QED BY <2>5, <3>1, <3>2
  <2>8. \A i, j \in 1 .. L + 1 : i < j => Start(log', i) + Length(log', i) <= Start(log', j)
    <3> SUFFICES ASSUME NEW i \in 1 .. L + 1, NEW j \in 1 .. L + 1, i < j
                 PROVE  Start(log', i) + Length(log', i) <= Start(log', j)
      OBVIOUS
    <3>1. i \in 1 .. L
      BY <2>4
    <3>2. CASE j \in 1 .. L
      BY <1>ty, <2>3, <3>1, <3>2 DEF L, Framing
    <3>3. CASE j = L + 1
      BY <2>2, <2>3, <2>6, <3>1, <3>3
    <3> QED BY <2>5, <3>2, <3>3
  <2>9. \A i \in 1 .. L + 1 :
          Start(log', i) + Length(log', i) = IF i = L + 1 THEN vhead' ELSE Start(log', i + 1)
    <3> SUFFICES ASSUME NEW i \in 1 .. L + 1
                 PROVE  Start(log', i) + Length(log', i) = IF i = L + 1 THEN vhead' ELSE Start(log', i + 1)
      OBVIOUS
    <3>1. CASE i = L + 1
      BY <1>ty, <2>1, <2>2, <3>1
    <3>2. CASE i = L /\ i # L + 1
      <4>1. i \in 1 .. L
        BY <2>4, <3>2
      <4>2. Start(log, i) + Length(log, i) = vhead
        BY <1>ty, <3>2, <4>1 DEF L, Framing
      <4> QED BY <2>2, <2>3, <3>2, <4>1, <4>2
    <3>3. CASE i # L /\ i # L + 1
      <4>1. i \in 1 .. L /\ i + 1 \in 1 .. L
        BY <2>4, <3>3
      <4>2. Start(log, i) + Length(log, i) = Start(log, i + 1)
        BY <1>ty, <3>3, <4>1 DEF L, Framing
      <4> QED BY <2>3, <3>3, <4>1, <4>2
    <3> QED BY <3>1, <3>2, <3>3
  <2>10. Popped # L + 1 /\ vtail = Start(log', Popped + 1)
    <3>1. CASE Popped = L
      BY <1>ty, <2>2, <2>4, <3>1 DEF L, Framing
    <3>2. CASE Popped # L
      <4>1. Popped + 1 \in 1 .. L
        BY <2>4, <3>2
      <4>2. vtail = Start(log, Popped + 1)
        BY <1>ty, <3>2 DEF L, Framing
      <4>3. Start(log', Popped + 1) = log'[Popped + 1].start
        BY <2>1 DEF Start
      <4>4. log'[Popped + 1] = log[Popped + 1]
        BY <2>1, <4>1 DEF L
      <4> QED BY <2>4, <3>2, <4>2, <4>3, <4>4 DEF Start
    <3> QED BY <3>1, <3>2
  <2>11. Popped' \in 0 .. Len(log')
    BY <2>1, <2>4 DEF L
  <2> QED BY <2>1, <2>7, <2>8, <2>9, <2>10, <2>11 DEF L, Framing
<1>2. CASE Pop
  <2> DEFINE k == Popped + 1
             a == Align8(Header.size)
  <2>1. vtail < vhead /\ vtail' = vtail + a /\ UNCHANGED <<vhead, log>> /\ Popped' = k
    BY <1>2, PopFacts
  <2>2. k \in 1 .. Len(log) /\ Start(log, k) = vtail /\ Length(log, k) = a /\ a \in Nat /\ a > 0
    BY <2>1, TopEvent DEF IInv, Length, HeaderSize
  <2>3. \A i : Start(log', i) = Start(log, i) /\ Length(log', i) = Length(log, i)
    BY <2>1 DEF Start, Length
  <2> HIDE DEF a
  <2>4. Popped \in Int
    BY <1>ty DEF Framing
  <2>5. \A i \in 1 .. Len(log) : IF i <= k THEN Start(log, i) < vtail' ELSE Start(log, i) >= vtail'
    <3> SUFFICES ASSUME NEW i \in 1 .. Len(log)
                 PROVE  IF i <= k THEN Start(log, i) < vtail' ELSE Start(log, i) >= vtail'
      OBVIOUS
    <3>1. CASE i <= Popped
      <4>1. Start(log, i) < vtail
        BY <1>ty, <3>1 DEF Framing
      <4> QED BY <1>ty, <1>ev, <2>1, <2>2, <2>4, <3>1, <4>1
    <3>2. CASE i = k
      BY <1>ty, <1>ev, <2>1, <2>2, <2>4, <3>2
    <3>3. CASE i > k
      <4>1. Start(log, k) + Length(log, k) <= Start(log, i)
        BY <1>ty, <2>2, <3>3 DEF Framing
      <4> QED BY <1>ty, <1>ev, <2>1, <2>2, <2>4, <3>3, <4>1
    <3> QED BY <2>4, <3>1, <3>2, <3>3
  <2>6. IF k = Len(log) THEN vtail' = vhead ELSE vtail' = Start(log, k + 1)
    <3>1. Start(log, k) + Length(log, k) = IF k = Len(log) THEN vhead ELSE Start(log, k + 1)
      BY <1>ty, <2>2 DEF Framing
    <3> QED BY <2>1, <2>2, <3>1
  <2> HIDE DEF k
  <2>7. k \in 0 .. Len(log)
    BY <1>ty, <2>2
  <2>8. \A i \in 1 .. Len(log) : log[i].ev.size \in EvSizes /\ Start(log, i) + Length(log, i) <= vhead
    BY <1>ty DEF Framing
  <2>9. (IF Popped = Len(log) THEN vtail = vhead ELSE vtail = Start(log, Popped + 1))'
    <3>2. Start(log', Popped' + 1) = Start(log, k + 1)
      BY <2>1 DEF Start
    <3> QED BY <2>1, <2>6, <3>2
  <2> QED BY <1>ty, <2>1, <2>3, <2>5, <2>7, <2>8, <2>9 DEF Framing
<1>3. CASE Use
  <2>1. UNCHANGED <<vhead, vtail, log>> /\ Popped' = Popped
    BY <1>3, UseFacts
  <2> QED BY <1>ty, <2>1 DEF Framing, Start, Length
<1>4. CASE ~Use /\ ~Pop /\ \A t \in Threads : ~Commit(t)
  <2>1. UNCHANGED <<vhead, vtail, log>> /\ Popped' = Popped
    BY <1>4, QuietStep
  <2> QED BY <1>ty, <2>1 DEF Framing, Start, Length
<1> QED BY <1>1, <1>2, <1>3, <1>4

(* Writing into the room that reserve() found touches no unread event.     *)
LEMMA UnreadKept ==
  ASSUME NEW n \in Nat, IInv(n), NEW s \in Nat, vhead + Align8(s) < vtail + Size,
         NEW m, \A o \in Offsets : o \notin Region(head, s) => m[o] = mem[o],
         NEW i \in 1 .. Len(log), i > Popped
  PROVE  HoldsIn(m, Start(log, i) % Size, log[i].ev)
<1> DEFINE a == Start(log, i)
           r == log[i].ev.size
<1>1. a \in Nat /\ r \in Nat
  BY EventTypes DEF IInv
<1>2. a + Align8(r) <= vhead /\ a >= vtail
  <2>1. Popped \in Int
    BY DEF IInv, Framing
  <2> QED BY <2>1 DEF IInv, Framing, Length
<1>3. vhead \in Nat /\ vtail \in Nat /\ Size \in Nat /\ Align8(s) \in Nat
  BY RingAssumption, Align8Facts DEF IInv, TypeOK
<1>4. vhead + Align8(s) <= a + Size
  BY <1>1, <1>2, <1>3
<1>5. head = vhead % Size
  BY DEF IInv, Positions
<1>6. HoldsIn(mem, a % Size, log[i].ev)
  BY DEF IInv, Contents, HoldsEventAt, HoldsIn
<1> HIDE DEF a, r
<1>7. \A o \in Region(a % Size, r) : o \notin Region(vhead % Size, s)
  BY <1>1, <1>2, <1>3, <1>4, NoOverlap
<1>8. \A o \in Region(a % Size, r) : m[o] = mem[o]
  BY <1>5, <1>7 DEF Region
<1> QED BY <1>6, <1>8, Zenon DEF HoldsIn, a, r

(* Contents in terms of HoldsIn.                                           *)
LEMMA ContentsIn ==
  Contents <=> /\ \A t \in Threads : wpc[t] = "commit" => HoldsIn(mem, head, wev[t])
               /\ \A i \in 1 .. Len(log) :
                    i > Popped => HoldsIn(mem, Start(log, i) % Size, log[i].ev)
  BY DEF Contents, HoldsIn, HoldsEventAt

(* Every step keeps the unread events and the one being written intact. *)
LEMMA ContentsStep ==
  ASSUME NEW n \in Nat, NoExactFill(n), Serial, IInv(n), [Next]_vars
  PROVE  Contents'
<1>ty. TypeOK /\ Exclusion /\ Framing /\ Contents
  BY DEF IInv
<1>c1. \A t \in Threads : wpc[t] = "commit" => HoldsIn(mem, head, wev[t])
  BY <1>ty, ContentsIn
<1>c2. \A i \in 1 .. Len(log) : i > Popped => HoldsIn(mem, Start(log, i) % Size, log[i].ev)
  BY <1>ty, ContentsIn
<1> SUFFICES /\ \A t \in Threads : wpc'[t] = "commit" => HoldsIn(mem', head', wev'[t])
             /\ \A i \in 1 .. Len(log') :
                   i > Popped' => HoldsIn(mem', Start(log', i) % Size, log'[i].ev)
  BY DEF Contents, HoldsIn, HoldsEventAt
<1> DEFINE Goal == /\ \A t \in Threads : wpc'[t] = "commit" => HoldsIn(mem', head', wev'[t])
                   /\ \A i \in 1 .. Len(log') :
                        i > Popped' => HoldsIn(mem', Start(log', i) % Size, log'[i].ev)
<1>1. ASSUME NEW t \in Threads, Reserve(t) PROVE Goal
  <2>1. /\ wpc[t] = "reserve" /\ CanReserve(wev[t].size)
        /\ wpc' = [wpc EXCEPT ![t] = "write"]
        /\ UNCHANGED <<head, log, rpc, delivered>>
        /\ \A o \in Offsets : o \notin Region(head, wev[t].size) => mem'[o] = mem[o]
    BY <1>1 DEF Reserve, reader, history
  <2>2. wev[t].size \in EvSizes /\ wev[t].size \in Nat /\ InSection(t)
    BY <1>ty, <2>1, RingAssumption DEF Exclusion, InSection
  <2>3. vhead + Align8(wev[t].size) < vtail + Size
    BY <2>1, <2>2, RoomStrict DEF IInv
  <2>4. \A u \in Threads : wpc'[u] # "commit"
    <3>1. \A u \in Threads : InSection(u) => u = t
      BY <1>ty, <2>2, OneWriter
    <3> QED BY <1>ty, <2>1, <3>1 DEF InSection, TypeOK
  <2>5. \A i \in 1 .. Len(log) : i > Popped => HoldsIn(mem', Start(log, i) % Size, log[i].ev)
    BY <2>1, <2>2, <2>3, UnreadKept
  <2>6. Popped' = Popped
    BY <2>1 DEF Popped
  <2> QED BY <2>1, <2>4, <2>5, <2>6
<1>2. ASSUME NEW t \in Threads, Write(t) PROVE Goal
  <2>1. /\ wpc[t] = "write"
        /\ wpc' = [wpc EXCEPT ![t] = "commit"]
        /\ UNCHANGED <<head, log, rpc, delivered, wev>>
    BY <1>2 DEF Write, reader, history
  <2>2. wat[t] = head /\ vhead + Align8(wev[t].size) < vtail + Size /\ InSection(t)
    BY <1>ty, <2>1 DEF Exclusion, InSection, Reserved
  <2>3. mem' = [o \in Offsets |->
                  IF o \in Region(head, wev[t].size)
                  THEN [ev |-> wev[t], off |-> (o - head) % Size]
                  ELSE mem[o]]
    BY <1>2, <2>2 DEF Write
  <2>4. wev[t].size \in Nat
    BY <1>ty DEF TypeOK, Event
  <2>5. \A o \in Offsets : o \notin Region(head, wev[t].size) => mem'[o] = mem[o]
    BY <2>3
  <2>6. \A i \in 1 .. Len(log) : i > Popped => HoldsIn(mem', Start(log, i) % Size, log[i].ev)
    BY <2>2, <2>4, <2>5, UnreadKept
  <2>7. \A u \in Threads : wpc'[u] = "commit" => u = t
    <3>1. \A u \in Threads : InSection(u) => u = t
      BY <1>ty, <2>2, OneWriter
    <3> QED BY <1>ty, <2>1, <3>1 DEF InSection, TypeOK
  <2>8. HoldsIn(mem', head, wev[t])
    <3>1. Region(head, wev[t].size) \subseteq Offsets
      BY DEF Region
    <3> QED BY <2>3, <3>1, Zenon DEF HoldsIn
  <2>9. Popped' = Popped
    BY <2>1 DEF Popped
  <2> QED BY <2>1, <2>6, <2>7, <2>8, <2>9
<1>3. ASSUME NEW t \in Threads, Commit(t) PROVE Goal
  <2>1. wpc[t] = "commit" /\ wpc' = [wpc EXCEPT ![t] = "idle"]
    BY <1>3 DEF Commit
  <2>2. \A u \in Threads : wpc'[u] # "commit"
    <3>1. \A u \in Threads : InSection(u) => u = t
      BY <1>ty, <2>1, OneWriter DEF InSection
    <3> QED BY <1>ty, <2>1, <3>1 DEF InSection, TypeOK
  <2>3. /\ Len(log') = Len(log) + 1 /\ Len(log) \in Nat
        /\ \A i \in 1 .. Len(log) : log'[i] = log[i]
        /\ log'[Len(log) + 1] = [start |-> vhead, ev |-> wev[t]]
        /\ mem' = mem /\ Popped' = Popped
    BY <1>3, <1>ty, CommitFacts DEF TypeOK
  <2>4. HoldsIn(mem, head, wev[t]) /\ head = vhead % Size
    BY <1>c1, <2>1 DEF IInv, Positions
  <2>5. ASSUME NEW i \in 1 .. Len(log'), i > Popped
        PROVE  HoldsIn(mem, Start(log', i) % Size, log'[i].ev)
    <3>1. CASE i \in 1 .. Len(log)
      BY <1>c2, <2>3, <2>5, <3>1 DEF Start
    <3>2. CASE i = Len(log) + 1
      <4>1. Start(log', i) = vhead /\ log'[i].ev = wev[t]
        BY <2>3, <3>2 DEF Start
      <4> QED BY <2>4, <4>1
    <3> QED BY <2>3, <3>1, <3>2
  <2> QED BY <2>2, <2>3, <2>5
<1>4. CASE Pop
  <2>1. UNCHANGED <<mem, head, log, wpc, wev>> /\ Popped' = Popped + 1 /\ Popped \in Int
    BY <1>4, <1>ty, PopFacts DEF Framing
  <2> QED BY <1>c1, <1>c2, <2>1
<1>5. CASE Use
  <2>1. UNCHANGED <<mem, head, log, wpc, wev>> /\ Popped' = Popped
    BY <1>5, UseFacts
  <2> QED BY <1>c1, <1>c2, <2>1
<1>6. CASE Wake \/ Empty \/ GetTopEventType \/ Get \/ UNCHANGED vars
  <2>1. UNCHANGED <<mem, head, log, wpc, wev>> /\ Popped' = Popped
    BY <1>6 DEF Wake, Empty, GetTopEventType, Get, vars, shared, writer, reader, history, Popped
  <2> QED BY <1>c1, <1>c2, <2>1
<1>7. ASSUME NEW t \in Threads, Callback(t) \/ Lock(t) \/ ReserveFails(t) PROVE Goal
  <2>1. UNCHANGED <<mem, head, log>> /\ Popped' = Popped
    BY <1>7 DEF Callback, Lock, ReserveFails, shared, reader, history, Popped
  <2>2. \A u \in Threads : wpc'[u] = "commit" => wpc[u] = "commit" /\ wev'[u] = wev[u]
    BY <1>7, <1>ty DEF Callback, Lock, ReserveFails, TypeOK
  <2> QED BY <1>c1, <1>c2, <2>1, <2>2
<1> QED BY <1>1, <1>2, <1>3, <1>4, <1>5, <1>6, <1>7 DEF Next, ReaderStep, WriterStep

(* Every step keeps what the monitor knows between empty() and pop(). *)
LEMMA ReadingStep ==
  ASSUME NEW n \in Nat, NoExactFill(n), IInv(n), [Next]_vars
  PROVE  Reading'
<1>ty. TypeOK /\ Framing /\ Reading /\ vhead \in Nat /\ vtail \in Nat
       /\ Len(log) \in Nat /\ Len(delivered) \in Nat
  BY DEF IInv, TypeOK
<1>hs. Align8(HeaderSize) = HeaderSize /\ HeaderSize \in Nat /\ HeaderSize > 0
  BY DEF Align8, HeaderSize
<1>ld. CanBeLoaded(HeaderSize) <=> vtail < vhead
  <2>1. CanBeLoaded(HeaderSize) <=> vtail + HeaderSize <= vhead
    BY <1>hs, LoadIff DEF IInv
  <2>2. vtail < vhead => vtail + HeaderSize <= vhead
    <3> SUFFICES ASSUME vtail < vhead PROVE vtail + HeaderSize <= vhead
      OBVIOUS
    <3>1. vtail + Align8(Header.size) <= vhead /\ Align8(Header.size) \in Nat
          /\ Align8(Header.size) >= HeaderSize
      BY TopEvent DEF IInv
    <3> QED BY <1>ty, <1>hs, <3>1
  <2> QED BY <1>ty, <1>hs, <2>1, <2>2
<1>1. ASSUME NEW t \in Threads, Commit(t) PROVE Reading'
  <2>1. /\ vhead' = vhead + Align8(wev[t].size) /\ Align8(wev[t].size) \in Nat
        /\ Len(log') = Len(log) + 1 /\ \A i \in 1 .. Len(log) : log'[i] = log[i]
        /\ UNCHANGED <<rpc, rev, vtail, delivered>> /\ Popped' = Popped
    BY <1>1, CommitFacts
  <2>2. vtail < vhead => vtail < vhead'
    BY <1>ty, <2>1
  <2>3. rpc \in {"use", "pop"} => rev = log'[Popped + 1].ev
    <3> SUFFICES ASSUME rpc \in {"use", "pop"} PROVE rev = log'[Popped + 1].ev
      OBVIOUS
    <3>1. rev = log[Popped + 1].ev /\ vtail < vhead
      BY <1>ty DEF Reading
    <3>2. Popped + 1 \in 1 .. Len(log)
      BY <3>1, TopEvent DEF IInv
    <3> QED BY <2>1, <3>1, <3>2
  <2>4. Len(delivered) <= Len(log') /\ \A i \in 1 .. Len(delivered) : delivered[i] = log'[i].ev
    BY <1>ty, <2>1 DEF Reading
  <2> QED BY <1>ty, <2>1, <2>2, <2>3, <2>4 DEF Reading
<1>2. CASE Pop
  BY <1>2, <1>ty, PopFacts DEF Reading
<1>3. CASE Use
  <2>1. /\ rpc = "use" /\ rpc' = "pop" /\ vtail < vhead
        /\ Popped = Len(delivered) /\ Popped' = Popped
        /\ Len(delivered') = Len(delivered) + 1
        /\ \A i \in 1 .. Len(delivered) : delivered'[i] = delivered[i]
        /\ delivered'[Len(delivered) + 1] = log[Popped + 1].ev
        /\ UNCHANGED <<vhead, vtail, log, rev>>
    BY <1>3, UseFacts
  <2>2. Popped + 1 \in 1 .. Len(log)
    BY <2>1, TopEvent DEF IInv
  <2>3. \A i \in 1 .. Len(delivered') : delivered'[i] = log[i].ev
    <3> SUFFICES ASSUME NEW i \in 1 .. Len(delivered') PROVE delivered'[i] = log[i].ev
      OBVIOUS
    <3>1. CASE i \in 1 .. Len(delivered)
      BY <1>ty, <2>1, <3>1 DEF Reading
    <3>2. CASE i = Len(delivered) + 1
      BY <2>1, <3>2
    <3> QED BY <1>ty, <2>1, <3>1, <3>2
  <2>4. Len(delivered') <= Len(log)
    BY <1>ty, <2>1, <2>2
  <2> QED BY <1>ty, <2>1, <2>3, <2>4 DEF Reading
<1>4. CASE Wake
  BY <1>4, <1>ty DEF Wake, shared, history, Reading
<1>5. CASE Empty
  BY <1>5, <1>ty, <1>ld DEF Empty, shared, history, Reading
<1>6. CASE GetTopEventType
  BY <1>6, <1>ty, <1>ld DEF GetTopEventType, shared, history, Reading
<1>7. CASE Get
  <2>1. rpc = "get" /\ vtail < vhead /\ UNCHANGED <<vhead, vtail, log, delivered>>
    BY <1>7, <1>ty DEF Get, shared, history, Reading
  <2>2. Header = log[Popped + 1].ev /\ CanBeLoaded(Header.size)
    <3>1. Header = log[Popped + 1].ev /\ Header.size \in Nat /\ vtail + Align8(Header.size) <= vhead
      BY <2>1, TopEvent DEF IInv
    <3>2. CanBeLoaded(Header.size)
      BY <3>1, LoadIff DEF IInv
    <3> QED BY <3>1, <3>2
  <2>3. rpc' = "use" /\ rev' = Header
    BY <1>7, <1>ld, <2>1, <2>2 DEF Get
  <2>4. Popped' = Popped
    BY <2>1, <2>3 DEF Popped
  <2> QED BY <1>ty, <2>1, <2>2, <2>3, <2>4 DEF Reading
<1>8. CASE UNCHANGED vars \/ \E t \in Threads : Callback(t) \/ Lock(t) \/ Reserve(t) \/ ReserveFails(t) \/ Write(t)
  <2>1. UNCHANGED <<rpc, rev, vhead, vtail, log, delivered>>
    BY <1>8 DEF vars, Callback, Lock, Reserve, ReserveFails, Write, shared, reader, history
  <2>2. Popped' = Popped
    BY <2>1 DEF Popped
  <2> QED BY <1>ty, <2>1, <2>2 DEF Reading
<1> QED BY <1>1, <1>2, <1>3, <1>4, <1>5, <1>6, <1>7, <1>8 DEF Next, ReaderStep, WriterStep

(* The invariant holds of a new ring. *)
LEMMA InitIInv ==
  ASSUME NEW n \in Nat, Init PROVE IInv(n)
<1>1. TypeOK
  BY InitTypeInv DEF TypeInv
<1>2. Size \in Nat /\ Size > 0 /\ (0 % Size) = 0
  BY RingAssumption
<1>3. Popped = 0 /\ Len(log) = 0 /\ Len(delivered) = 0
  BY DEF Init, Popped
<1>4. Positions(n)
  <2>1. vhead - vtail = n * 0 /\ 0 \in Int
    BY DEF Init
  <2>2. head = 0 /\ tail = 0 /\ vhead = 0 /\ vtail = 0
    BY DEF Init
  <2> QED BY <1>2, <2>1, <2>2 DEF Positions
<1>5. Exclusion
  BY DEF Init, Exclusion, InSection, Reserved
<1>6. Framing
  BY <1>3 DEF Init, Framing
<1>7. Contents
  BY <1>3 DEF Init, Contents
<1>8. Reading
  BY <1>3 DEF Init, Reading
<1> QED BY <1>1, <1>4, <1>5, <1>6, <1>7, <1>8 DEF IInv

(* The invariant is kept by every step. *)
LEMMA IInvStep ==
  ASSUME NEW n \in Nat, NoExactFill(n), Serial, IInv(n), [Next]_vars
  PROVE  IInv(n)'
<1>1. TypeOK'
  BY TypeInvStep DEF IInv, TypeInv, Exclusion
<1> QED BY <1>1, ExclusionStep, PositionsStep, FramingStep, ContentsStep, ReadingStep DEF IInv

(* The inductive invariant holds in every reachable state. *)
LEMMA Inductive ==
  ASSUME NEW n \in Nat, NoExactFill(n), Serial
  PROVE  Spec => []IInv(n)
<1>1. Init => IInv(n)
  BY InitIInv
<1>2. IInv(n) /\ [Next]_vars => IInv(n)'
  BY IInvStep
<1> QED BY <1>1, <1>2, PTL DEF Spec

-----------------------------------------------------------------------------
(* What follows for a serial writer that cannot fill the ring exactly      *)

(* reserve() never finds a reservation of another callback, which it would *)
(* overwrite.                                                              *)
THEOREM ReservationsAreExclusive ==
  ASSUME NEW n \in Nat, NoExactFill(n), Serial
  PROVE  Spec => []NoOtherReservation
<1>1. IInv(n) => NoOtherReservation
  <2> SUFFICES ASSUME IInv(n), NEW t \in Threads, wpc[t] = "reserve" PROVE reserved_size = 0
    BY DEF NoOtherReservation
  <2>1. InSection(t) /\ TypeOK /\ Exclusion
    BY DEF InSection, IInv
  <2>2. \A u \in Threads : InSection(u) => u = t
    BY <2>1, OneWriter
  <2>3. \A u \in Threads : ~Reserved(u)
    BY <2>2 DEF Reserved, InSection
  <2> QED BY <2>1, <2>3 DEF Exclusion
<1> QED BY <1>1, Inductive, PTL

(* empty() tells the truth: no header to load means nothing was missed.    *)
THEOREM EmptyIsSound ==
  ASSUME NEW n \in Nat, NoExactFill(n), Serial
  PROVE  Spec => []EmptyMeansNothingNew
<1>1. IInv(n) => EmptyMeansNothingNew
  <2> SUFFICES ASSUME IInv(n), vtail # vhead PROVE CanBeLoaded(HeaderSize)
    BY DEF EmptyMeansNothingNew
  <2>1. vtail \in Nat /\ vhead \in Nat /\ vtail < vhead
    BY DEF IInv, TypeOK, Positions
  <2>2. vtail + Align8(Header.size) <= vhead /\ Align8(Header.size) \in Nat
        /\ Align8(Header.size) >= HeaderSize
    BY <2>1, TopEvent DEF IInv
  <2>3. Align8(HeaderSize) = HeaderSize /\ HeaderSize \in Nat
    BY DEF Align8, HeaderSize
  <2>4. vtail + Align8(HeaderSize) <= vhead
    BY <2>1, <2>2, <2>3
  <2> QED BY <2>3, <2>4, LoadIff DEF IInv
<1> QED BY <1>1, Inductive, PTL

(* A monitor that checked empty() never meets the exception or the null    *)
(* pointer.                                                                *)
THEOREM ReaderIsSafe ==
  ASSUME NEW n \in Nat, NoExactFill(n), Serial
  PROVE  Spec => []ReaderNeverFaults
<1>1. IInv(n) => ReaderNeverFaults
  BY DEF IInv, Reading, ReaderNeverFaults
<1> QED BY <1>1, Inductive, PTL

(* No writer touches the event a monitor works on in place, nor any other  *)
(* event that is still to be read.                                         *)
THEOREM EventsAreStable ==
  ASSUME NEW n \in Nat, NoExactFill(n), Serial
  PROVE  Spec => []EventInUseIsStable
<1>1. IInv(n) => (rpc \in {"use", "pop"} => HoldsEventAt(tail, rev))
  <2> SUFFICES ASSUME IInv(n), rpc \in {"use", "pop"} PROVE HoldsEventAt(tail, rev)
    OBVIOUS
  <2>1. vtail < vhead /\ rev = log[Popped + 1].ev
    BY DEF IInv, Reading
  <2>2. HoldsIn(mem, tail, log[Popped + 1].ev)
    BY <2>1, TopEvent DEF IInv
  <2> QED BY <2>1, <2>2 DEF HoldsIn, HoldsEventAt
<1>2. IInv(n) => UnreadIntact
  <2> SUFFICES ASSUME IInv(n), NEW i \in 1 .. Len(log), log[i].start >= vtail
               PROVE  HoldsEventAt(log[i].start % Size, log[i].ev)
    BY DEF UnreadIntact
  <2>1. Start(log, i) \in Nat /\ vtail \in Nat
    BY EventTypes DEF IInv, TypeOK
  <2>2. ~(i <= Popped) /\ Popped \in Int
    BY <2>1 DEF IInv, Framing, Start
  <2>3. i > Popped
    BY <2>2
  <2> QED BY <2>3 DEF IInv, Contents, Start
<1>3. IInv(n) => EventInUseIsStable
  BY <1>1, <1>2 DEF EventInUseIsStable
<1> QED BY <1>3, Inductive, PTL

(* The ring implements the queue: each committed event is delivered exactly *)
(* once and in the order of the commits.                                   *)
THEOREM RingIsQueue ==
  ASSUME NEW n \in Nat, NoExactFill(n), Serial
  PROVE  Spec => IsQueue
<1> DEFINE put == [i \in 1 .. Len(log) |-> log[i].ev]
<1>1. Init => Queue!Init
  <2> SUFFICES ASSUME Init PROVE put = <<>> /\ delivered = <<>>
    BY DEF Queue!Init
  <2>1. log = <<>> /\ delivered = <<>>
    BY DEF Init
  <2> QED BY <2>1
<1>2. IInv(n) /\ [Next]_vars => [Queue!Next]_<<put, delivered>>
  <2> SUFFICES ASSUME IInv(n), [Next]_vars PROVE [Queue!Next]_<<put, delivered>>
    OBVIOUS
  <2>ty. Len(log) \in Nat /\ Len(put) = Len(log)
    BY DEF IInv, TypeOK
  <2>1. ASSUME NEW t \in Threads, Commit(t) PROVE Queue!Put
    <3>1. /\ Len(log') = Len(log) + 1 /\ \A i \in 1 .. Len(log) : log'[i] = log[i]
          /\ UNCHANGED delivered
      BY <2>1, CommitFacts
    <3>2. Len(put') = Len(log')
      BY <2>ty, <3>1
    <3>3. \A i \in 1 .. Len(put) : put'[i] = put[i]
      BY <2>ty, <3>1
    <3> QED BY <2>ty, <3>1, <3>2, <3>3 DEF Queue!Put
  <2>2. CASE Use
    <3>1. /\ Popped = Len(delivered) /\ vtail < vhead
          /\ delivered' = Append(delivered, log[Popped + 1].ev)
          /\ UNCHANGED log
      BY <2>2, UseFacts
    <3>2. Popped + 1 \in 1 .. Len(log)
      BY <3>1, TopEvent DEF IInv
    <3>3. put[Len(delivered) + 1] = log[Popped + 1].ev /\ Len(delivered) < Len(put)
      BY <2>ty, <3>1, <3>2
    <3>4. put' = put
      BY <3>1
    <3>5. delivered' = Append(delivered, put[Len(delivered) + 1])
      BY <3>1, <3>3
    <3>6. Queue!Take
      BY <3>3, <3>4, <3>5, Zenon DEF Queue!Take
    <3> QED BY <3>6 DEF Queue!Next
  <2>3. CASE Pop
    <3>1. UNCHANGED <<log, delivered>>
      BY <2>3, PopFacts
    <3>2. UNCHANGED <<put, delivered>>
      BY <3>1
    <3> QED BY <3>2
  <2>4. CASE ~Use /\ ~Pop /\ \A t \in Threads : ~Commit(t)
    <3>1. UNCHANGED <<log, delivered>>
      BY <2>4, QuietStep
    <3>2. UNCHANGED <<put, delivered>>
      BY <3>1
    <3> QED BY <3>2
  <2> QED BY <2>1, <2>2, <2>3, <2>4 DEF Queue!Next
<1>3. Spec => []IInv(n)
  BY Inductive
<1> QED BY <1>1, <1>2, <1>3, PTL DEF Spec, IsQueue, Queue!Spec

-----------------------------------------------------------------------------
(* Time stamps                                                             *)

(* A thread's event under way is younger than all it has committed: a time *)
(* stamp is taken before the lock, but by a thread that has no other event *)
(* under way.                                                              *)
Times ==
  /\ \A i \in 1 .. Len(log) : log[i].ev.tp \in Nat /\ log[i].ev.tp <= clock
  /\ \A t \in Threads : wpc[t] # "idle" =>
       /\ wev[t].tid = t /\ wev[t].tp \in Nat /\ wev[t].tp <= clock
       /\ \A i \in 1 .. Len(log) : log[i].ev.tid = t => log[i].ev.tp < wev[t].tp
  /\ \A i, j \in 1 .. Len(log) :
       i < j /\ log[i].ev.tid = log[j].ev.tid => log[i].ev.tp < log[j].ev.tp

(* Every step keeps the time stamps of each thread in commit order. *)
LEMMA TimesStep ==
  ASSUME TypeInv, Times, [Next]_vars
  PROVE  Times'
<1>ty. TypeOK /\ clock \in Nat /\ Len(log) \in Nat
  BY DEF TypeInv, TypeOK
<1>1. ASSUME NEW t \in Threads, Callback(t) PROVE Times'
  <2>1. /\ clock' = clock + 1 /\ log' = log
        /\ wpc[t] = "idle"
        /\ wpc' = [wpc EXCEPT ![t] = IF Locked THEN "lock" ELSE "reserve"]
    BY <1>1 DEF Callback, history
  <2>2. wev'[t].tid = t /\ wev'[t].tp = clock + 1
    BY <1>1, <1>ty DEF Callback, TypeOK
  <2>3. \A u \in Threads : u # t => wev'[u] = wev[u] /\ wpc'[u] = wpc[u]
    BY <1>1, <1>ty DEF Callback, TypeOK
  <2>4. \A i \in 1 .. Len(log) : log[i].ev.tp \in Nat /\ log[i].ev.tp <= clock
    BY DEF Times
  <2>5. \A i \in 1 .. Len(log) : log[i].ev.tp < clock + 1 /\ log[i].ev.tp <= clock'
    BY <1>ty, <2>1, <2>4
  <2>6. ASSUME NEW u \in Threads, wpc'[u] # "idle"
        PROVE  /\ wev'[u].tid = u /\ wev'[u].tp \in Nat /\ wev'[u].tp <= clock'
               /\ \A i \in 1 .. Len(log) : log[i].ev.tid = u => log[i].ev.tp < wev'[u].tp
    <3>1. CASE u = t
      BY <1>ty, <2>1, <2>2, <2>5, <3>1
    <3>2. CASE u # t
      BY <1>ty, <2>1, <2>3, <2>6, <3>2 DEF Times
    <3> QED BY <3>1, <3>2
  <2> QED BY <2>1, <2>4, <2>5, <2>6 DEF Times
<1>2. ASSUME NEW t \in Threads, Commit(t) PROVE Times'
  <2>1. /\ log' = Append(log, [start |-> vhead, ev |-> wev[t]])
        /\ wpc[t] = "commit" /\ wpc' = [wpc EXCEPT ![t] = "idle"]
        /\ UNCHANGED <<wev, clock>>
    BY <1>2 DEF Commit
  <2>2. log \in Seq([start : Nat, ev : Event])
    BY <1>ty DEF TypeOK
  <2>3. /\ Len(log') = Len(log) + 1
        /\ \A i \in 1 .. Len(log) : log'[i] = log[i]
        /\ log'[Len(log) + 1] = [start |-> vhead, ev |-> wev[t]]
    BY <2>1, <2>2
  <2>4. log'[Len(log) + 1].ev = wev[t]
    BY <2>3
  <2>5. /\ wev[t].tid = t /\ wev[t].tp \in Nat /\ wev[t].tp <= clock
        /\ \A i \in 1 .. Len(log) : log[i].ev.tid = t => log[i].ev.tp < wev[t].tp
    BY <2>1 DEF Times
  <2>6. \A u \in Threads : wpc'[u] # "idle" => wpc[u] # "idle" /\ u # t
    BY <1>ty, <2>1 DEF TypeOK
  <2>7. \A i \in 1 .. Len(log') : i \in 1 .. Len(log) \/ i = Len(log) + 1
    BY <1>ty, <2>3
  <2>8. \A i \in 1 .. Len(log') : log'[i].ev.tp \in Nat /\ log'[i].ev.tp <= clock
    BY <2>3, <2>4, <2>5, <2>7 DEF Times
  <2>9. ASSUME NEW u \in Threads, wpc'[u] # "idle", NEW i \in 1 .. Len(log'), log'[i].ev.tid = u
        PROVE  log'[i].ev.tp < wev[u].tp
    <3>1. u # t /\ wpc[u] # "idle"
      BY <2>6, <2>9
    <3>2. i \in 1 .. Len(log)
      BY <2>4, <2>5, <2>7, <2>9, <3>1
    <3> QED BY <2>3, <2>9, <3>1, <3>2 DEF Times
  <2>10. ASSUME NEW i \in 1 .. Len(log'), NEW j \in 1 .. Len(log'), i < j,
                log'[i].ev.tid = log'[j].ev.tid
         PROVE  log'[i].ev.tp < log'[j].ev.tp
    <3>1. i \in 1 .. Len(log)
      BY <1>ty, <2>3, <2>10
    <3>2. CASE j \in 1 .. Len(log)
      BY <2>3, <2>10, <3>1, <3>2 DEF Times
    <3>3. CASE j = Len(log) + 1
      <4>1. log'[j].ev = wev[t] /\ log'[i] = log[i]
        BY <2>3, <2>4, <3>1, <3>3
      <4>2. log[i].ev.tid = t
        BY <2>5, <2>10, <4>1
      <4> QED BY <2>5, <3>1, <4>1, <4>2
    <3> QED BY <2>7, <3>2, <3>3
  <2>11. \A u \in Threads : wpc'[u] # "idle" => wev[u].tid = u /\ wev[u].tp \in Nat /\ wev[u].tp <= clock
    BY <2>6 DEF Times
  <2> QED BY <2>1, <2>8, <2>9, <2>10, <2>11 DEF Times
<1>3. ASSUME NEW t \in Threads, Lock(t) \/ Reserve(t) \/ ReserveFails(t) \/ Write(t) PROVE Times'
  <2>1. UNCHANGED <<log, wev, clock>>
    BY <1>3 DEF Lock, Reserve, ReserveFails, Write, history
  <2>2. \A u \in Threads : wpc'[u] # "idle" => wpc[u] # "idle"
    BY <1>3, <1>ty DEF Lock, Reserve, ReserveFails, Write, TypeOK
  <2> QED BY <2>1, <2>2 DEF Times
<1>4. CASE ReaderStep \/ UNCHANGED vars
  <2>1. UNCHANGED <<log, wev, wpc, clock>>
    BY <1>4 DEF ReaderStep, Wake, Empty, GetTopEventType, Get, Use, Pop, vars, writer, history
  <2> QED BY <2>1 DEF Times
<1> QED BY <1>1, <1>2, <1>3, <1>4 DEF Next, WriterStep

(* The events of one thread reach the monitor in the order of their time   *)
(* stamps, although these are taken outside the lock.                      *)
THEOREM ThreadsKeepOrder ==
  ASSUME NEW n \in Nat, NoExactFill(n), Serial
  PROVE  Spec => []ThreadOrder
<1>1. Init => TypeInv /\ Times
  <2>1. Init => Times
    BY DEF Init, Times
  <2> QED BY <2>1, InitTypeInv
<1>2. (TypeInv /\ Times) /\ [Next]_vars => (TypeInv /\ Times)'
  BY TypeInvStep, TimesStep
<1>3. IInv(n) /\ Times => ThreadOrder
  <2> SUFFICES ASSUME IInv(n), Times,
                      NEW i \in 1 .. Len(delivered), NEW j \in 1 .. Len(delivered),
                      i < j, delivered[i].tid = delivered[j].tid
               PROVE  delivered[i].tp < delivered[j].tp
    BY DEF ThreadOrder
  <2>1. delivered[i] = log[i].ev /\ delivered[j] = log[j].ev
    BY DEF IInv, Reading
  <2>2. i \in 1 .. Len(log) /\ j \in 1 .. Len(log)
    BY DEF IInv, Reading, TypeOK
  <2> QED BY <2>1, <2>2 DEF Times
<1> QED BY <1>1, <1>2, <1>3, Inductive, PTL DEF Spec

=============================================================================
