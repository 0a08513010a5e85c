------------------------- MODULE TargetSessionProofs ------------------------
(***************************************************************************)
(* The range checks are exact for every word size: they accept what lies   *)
(* inside the device in unbounded arithmetic and nothing else, and what    *)
(* they compute for it has not wrapped.                                    *)
(*                                                                         *)
(* Disks that share a context never leave it a registration of memory that *)
(* is gone, requests are accepted exactly if they fit, and they move their *)
(* blocks and nothing else: for any number of disks, sessions and          *)
(* contexts, any sizes and any word.                                       *)
(***************************************************************************)
EXTENDS TargetSession, TLAPS

\* Products of naturals are naturals and distribute over sums.
LEMMA TimesNat ==
    ASSUME NEW a \in Nat, NEW b \in Nat, NEW c \in Nat
    PROVE  a * c \in Nat /\ b * c \in Nat /\ (a + b) * c = a * c + b * c
PROOF OBVIOUS

\* The test against the largest word divided by the block size, which
\* checked_io_range and map_io make before they multiply, is the test whether
\* the product fits.
LEMMA GuardFits ==
    ASSUME NEW n \in Nat, NEW a \in Nat, NEW b \in Nat \ {0}
    PROVE  a <= n \div b <=> a * b <= n
PROOF OBVIOUS

\* A result that is a word is not changed by the wrap.
LEMMA NoWrap ==
    ASSUME NEW n \in U64
    PROVE  n % Word = n
PROOF BY Words DEF U64

\* The two halves of the test of an interval against the size, with the
\* subtraction in words, say where the interval ends.
LEMMA EndsInside ==
    ASSUME NEW offset \in Nat, NEW bytes \in Nat, NEW size \in U64
    PROVE  ~(offset > size \/ bytes > Sub(size, offset)) <=> offset + bytes <= size
<1>1. CASE offset > size
  BY <1>1, Words DEF U64
<1>2. CASE offset <= size
  <2>1. size - offset \in U64
    BY <1>2, Words DEF U64
  <2>2. Sub(size, offset) = size - offset
    BY <2>1, NoWrap DEF Sub
  <2> QED
    BY <1>2, <2>2, Words DEF U64
<1> QED
  BY <1>1, <1>2, Words DEF U64

\* checked_io_range accepts exactly what is inside, with exact results.
LEMMA CheckedIoRangeExact ==
    ASSUME NEW bs \in U64 \ {0}, NEW size \in 0 .. SizeMax, NEW lba \in U64, NEW count \in U64
    PROVE  LET r == CheckedIoRange(lba, count, bs, size)
           IN  /\ r.rc = "OK" <=> Inside(lba, count, bs, size)
               /\ r.rc = "OK" => r.offset = lba * bs /\ r.length = count * bs
<1> DEFINE r == CheckedIoRange(lba, count, bs, size)
<1>0. /\ Word \in Nat \ {0} /\ SizeMax \in Nat /\ SizeMax < Word /\ size \in U64
      /\ bs \in Nat \ {0} /\ size \in Nat /\ lba \in Nat /\ count \in Nat /\ size <= SizeMax
  BY Words DEF U64
<1>1. /\ lba * bs \in Nat /\ count * bs \in Nat
      /\ (lba + count) * bs = lba * bs + count * bs
  BY <1>0, TimesNat
<1>2. CASE count = 0
  <2>1. r.rc = "EINVAL"
    BY <1>2 DEF CheckedIoRange, Refused
  <2> QED
    BY <1>2, <2>1 DEF Inside
<1>3. CASE count > 0 /\ (lba * bs >= Word \/ count * bs >= Word)
  <2>1. lba > (Word - 1) \div bs \/ count > (Word - 1) \div bs
    <3>1. /\ lba <= (Word - 1) \div bs <=> lba * bs <= Word - 1
          /\ count <= (Word - 1) \div bs <=> count * bs <= Word - 1
      BY <1>0, GuardFits
    <3>2. (Word - 1) \div bs \in Nat
      BY <1>0
    <3> QED
      BY <1>0, <1>1, <1>3, <3>1, <3>2
  <2>2. r.rc = "EOVERFLOW"
    BY <1>0, <1>3, <2>1 DEF CheckedIoRange, Refused
  <2>3. ~Inside(lba, count, bs, size)
    BY <1>0, <1>1, <1>3 DEF Inside
  <2> QED
    BY <2>2, <2>3
<1>4. CASE count > 0 /\ lba * bs < Word /\ count * bs < Word
  <2>1. ~(lba > (Word - 1) \div bs \/ count > (Word - 1) \div bs)
    <3>1. /\ lba <= (Word - 1) \div bs <=> lba * bs <= Word - 1
          /\ count <= (Word - 1) \div bs <=> count * bs <= Word - 1
      BY <1>0, GuardFits
    <3>2. (Word - 1) \div bs \in Nat
      BY <1>0
    <3> QED
      BY <1>0, <1>1, <1>4, <3>1, <3>2
  <2>2. Mul(lba, bs) = lba * bs /\ Mul(count, bs) = count * bs
    BY <1>0, <1>1, <1>4, NoWrap DEF Mul, U64
  <2>3. InDisk(lba * bs, count * bs, size) <=> lba * bs + count * bs <= size
    BY <1>0, <1>1, EndsInside DEF InDisk
  <2>4. CASE lba * bs + count * bs <= size
    <3>1. r = [rc |-> "OK", offset |-> lba * bs, length |-> count * bs]
      BY <1>0, <1>1, <1>4, <2>1, <2>2, <2>3, <2>4 DEF CheckedIoRange
    <3>2. Inside(lba, count, bs, size)
      BY <1>1, <1>4, <2>4 DEF Inside
    <3> QED
      BY <3>1, <3>2
  <2>5. CASE ~(lba * bs + count * bs <= size)
    <3>1. r.rc = "ERANGE"
      BY <1>0, <1>4, <2>1, <2>2, <2>3, <2>5 DEF CheckedIoRange, Refused
    <3>2. ~Inside(lba, count, bs, size)
      BY <1>1, <2>5 DEF Inside
    <3> QED
      BY <3>1, <3>2
  <2> QED
    BY <2>4, <2>5
<1> QED
  BY <1>0, <1>1, <1>2, <1>3, <1>4

\* map_io of the kernel module adds an address, and refuses only one that would
\* wrap.
LEMMA MapIoExact ==
    ASSUME NEW bs \in U64 \ {0}, NEW size \in 0 .. SizeMax, NEW lba \in U64, NEW count \in U64,
           NEW ubva \in U64
    PROVE  LET r == CheckedIoRange(lba, count, bs, size)
               m == MapIo(lba, count, bs, size, ubva)
           IN  /\ m.rc = "OK" <=> r.rc = "OK" /\ ubva + lba * bs < Word
               /\ m.rc = "OK" => m.addr = ubva + lba * bs
<1> DEFINE r == CheckedIoRange(lba, count, bs, size)
           m == MapIo(lba, count, bs, size, ubva)
<1>0. /\ Word \in Nat \ {0} /\ ubva \in Nat /\ ubva < Word /\ bs # 0
      /\ lba * bs \in Nat
  BY Words, TimesNat DEF U64
<1>1. r.rc = "OK" => r.offset = lba * bs
  BY CheckedIoRangeExact
<1>2. CASE r.rc # "OK"
  <2>1. m.rc = r.rc
    BY <1>0, <1>2 DEF MapIo
  <2> QED
    BY <1>2, <2>1
<1>3. CASE r.rc = "OK" /\ ubva + lba * bs >= Word
  <2>1. ubva > Word - 1 - r.offset
    BY <1>0, <1>1, <1>3
  <2>2. m.rc = "EOVERFLOW"
    BY <1>0, <1>3, <2>1 DEF MapIo, Refused
  <2> QED
    BY <1>0, <1>3, <2>2
<1>4. CASE r.rc = "OK" /\ ubva + lba * bs < Word
  <2>1. ~(ubva > Word - 1 - r.offset)
    BY <1>0, <1>1, <1>4
  <2>2. Add(ubva, r.offset) = ubva + lba * bs
    BY <1>0, <1>1, <1>4, NoWrap DEF Add, U64
  <2>3. m.rc = "OK" /\ m.addr = ubva + lba * bs
    BY <1>0, <1>4, <2>1, <2>2 DEF MapIo
  <2> QED
    BY <1>4, <2>3
<1> QED
  BY <1>0, <1>2, <1>3, <1>4

\* For words and devices of every size, the LBA arithmetic of the RDMA ramdisk
\* and of urma_blkdev is exact (RangesExact).
THEOREM RangesAreExact == RangesExact
<1> SUFFICES ASSUME NEW bs \in U64 \ {0}, NEW size \in 0 .. SizeMax,
                    NEW lba \in U64, NEW count \in U64
             PROVE  LET r == CheckedIoRange(lba, count, bs, size)
                    IN  /\ r.rc = "OK" <=> Inside(lba, count, bs, size)
                        /\ r.rc = "OK" => r.offset = lba * bs /\ r.length = count * bs
                        /\ \A ubva \in U64 :
                             LET m == MapIo(lba, count, bs, size, ubva)
                             IN  /\ m.rc = "OK" <=> r.rc = "OK" /\ ubva + lba * bs < Word
                                 /\ m.rc = "OK" => m.addr = ubva + lba * bs
  BY DEF RangesExact
<1> QED
  BY CheckedIoRangeExact, MapIoExact

\* The windows of the mock transport, of the backend and of a transfer's segment
\* are exact for every word size (WindowsExact).
THEOREM WindowsAreExact == WindowsExact
<1> SUFFICES ASSUME NEW addr \in U64, NEW length \in U64, NEW base \in U64, NEW size \in U64
             PROVE  /\ Window(addr, length, base, size) = "OK"
                         <=> base <= addr /\ addr + length <= base + size
                    /\ ValidateRange(addr, length, size) = "OK" <=> addr + length <= size
  BY DEF WindowsExact
<1>0. Word \in Nat \ {0} /\ addr \in Nat /\ length \in Nat /\ base \in Nat /\ size \in Nat
      /\ addr < Word
  BY Words DEF U64
<1>1. ValidateRange(addr, length, size) = "OK" <=> addr + length <= size
  BY <1>0, EndsInside DEF ValidateRange
<1>2. CASE addr < base
  BY <1>0, <1>1, <1>2 DEF Window
<1>3. CASE base <= addr
  <2>1. addr - base \in U64 /\ addr - base \in Nat
    BY <1>0, <1>3 DEF U64
  <2>2. Sub(addr, base) = addr - base
    BY <2>1, NoWrap DEF Sub
  <2>3. ~(Sub(addr, base) > size \/ length > Sub(size, Sub(addr, base)))
          <=> addr - base + length <= size
    BY <1>0, <2>1, <2>2, EndsInside
  <2>4. Window(addr, length, base, size) = "OK" <=> addr - base + length <= size
    BY <1>0, <1>3, <2>3 DEF Window
  <2> QED
    BY <1>0, <1>1, <1>3, <2>4
<1> QED
  BY <1>0, <1>1, <1>2, <1>3

-----------------------------------------------------------------------------
(* Disks, sessions and contexts.                                           *)

Inv == TypeOK /\ RegisteredIsLive

\* What the type of a live disk says of its fields.
LEMMA LiveDisk ==
    ASSUME TypeOK, NEW d \in Live
    PROVE  /\ disks[d].ctx \in Contexts /\ disks[d].bs \in U64 \ {0}
           /\ disks[d].size \in 1 .. SizeMax /\ Iova + disks[d].size <= Word
           /\ disks[d].mr = Mr
           /\ disks[d].base \in [0 .. disks[d].size - 1 -> Vals]
<1>1. PICK c \in Configs : disks[d] \in DiskRecords(c.size)
  BY DEF TypeOK, Live
<1>2. c.size \in 1 .. SizeMax /\ Iova + c.size <= Word
  BY Mock
<1> QED
  BY <1>1, <1>2 DEF DiskRecords

\* A disk that changes its contents, and nothing else, keeps its type.
LEMMA NewContents ==
    ASSUME TypeOK, NEW d \in Live, NEW f \in [0 .. disks[d].size - 1 -> Vals]
    PROVE  /\ [disks EXCEPT ![d].base = f] \in
                [Disks -> {NULL} \cup UNION {DiskRecords(c.size) : c \in Configs}]
           /\ [disks EXCEPT ![d].base = f][d] # NULL
           /\ [disks EXCEPT ![d].base = f][d].base = f
           /\ [disks EXCEPT ![d].base = f][d].ctx = disks[d].ctx
           /\ [disks EXCEPT ![d].base = f][d].size = disks[d].size
           /\ \A e \in Disks \ {d} : [disks EXCEPT ![d].base = f][e] = disks[e]
<1>1. PICK c \in Configs : disks[d] \in DiskRecords(c.size)
  BY DEF TypeOK, Live
<1> DEFINE r == [disks[d] EXCEPT !.base = f]
<1>2. r \in DiskRecords(c.size) /\ r.base = f /\ r.ctx = disks[d].ctx /\ r.size = disks[d].size
  BY <1>1 DEF DiskRecords
<1>3. r # NULL
  BY <1>2, NoNull
<1>4. d \in Disks /\ disks \in [Disks -> {NULL} \cup UNION {DiskRecords(c2.size) : c2 \in Configs}]
  BY DEF TypeOK, Live
<1>5. [disks EXCEPT ![d].base = f] = [disks EXCEPT ![d] = r]
  OBVIOUS
<1> HIDE DEF r
<1> QED
  BY <1>2, <1>3, <1>4, <1>5

\* The range of a request, from rdma_ramdisk_map_lba.
LEMMA MapLbaExact ==
    ASSUME TypeOK, NEW d \in Live, NEW lba \in U64, NEW count \in U64
    PROVE  LET m == MapLba(d, lba, count)
               start == lba * disks[d].bs
               length == count * disks[d].bs
           IN  /\ m.lkey = Lkey
               /\ m.rc = "OK" <=> Inside(lba, count, disks[d].bs, disks[d].size)
               /\ m.rc = "OK" => /\ m.offset = start /\ m.length = length
                                 /\ start \in Nat /\ length \in Nat \ {0}
                                 /\ start + length <= disks[d].size
                                 /\ m.addr = Iova + start /\ m.addr \in U64 /\ length \in U64
<1> DEFINE bs == disks[d].bs
           size == disks[d].size
           r == CheckedIoRange(lba, count, bs, size)
           m == MapLba(d, lba, count)
<1>0. /\ bs \in U64 \ {0} /\ size \in 0 .. SizeMax /\ Iova + size <= Word /\ disks[d].mr = Mr
      /\ bs \in Nat \ {0} /\ size \in Nat /\ lba \in Nat /\ count \in Nat
      /\ Iova \in Nat /\ Word \in Nat /\ size < Word
  BY LiveDisk, Mock, Words DEF U64
<1>1. /\ r.rc = "OK" <=> Inside(lba, count, bs, size)
      /\ r.rc = "OK" => r.offset = lba * bs /\ r.length = count * bs
  BY <1>0, CheckedIoRangeExact
<1>2. m.rc = r.rc /\ m.offset = r.offset /\ m.length = r.length
      /\ m.addr = Add(Iova, r.offset) /\ m.lkey = Lkey
  BY <1>0 DEF MapLba, Mr
<1>3. ASSUME r.rc = "OK"
      PROVE  /\ lba * bs \in Nat /\ count * bs \in Nat \ {0}
             /\ lba * bs + count * bs <= size
    <2>1. count > 0 /\ (lba + count) * bs <= size
      BY <1>1, <1>3 DEF Inside
    <2>2. lba * bs \in Nat /\ count * bs \in Nat /\ (lba + count) * bs = lba * bs + count * bs
      BY <1>0, TimesNat
    <2>3. count * bs > 0
      BY <1>0, <2>1
    <2> HIDE DEF bs, size
    <2> QED
      BY <2>1, <2>2, <2>3
<1>4. ASSUME r.rc = "OK"
      PROVE  m.addr = Iova + lba * bs /\ m.addr \in U64 /\ count * bs \in U64
  <2>0. lba * bs \in Nat /\ count * bs \in Nat \ {0} /\ lba * bs + count * bs <= size
    BY <1>3, <1>4
  <2>1. Iova + lba * bs \in U64 /\ count * bs \in U64
    <3> HIDE DEF bs, size
    <3> QED
      BY <1>0, <2>0 DEF U64
  <2>2. Add(Iova, lba * bs) = Iova + lba * bs
    BY <2>1, NoWrap DEF Add
  <2> QED
    BY <1>1, <1>2, <1>4, <2>1, <2>2
<1> QED
  BY <1>1, <1>2, <1>3, <1>4

\* A copy of bytes of one memory over bytes of another keeps the latter's type.
LEMMA MemcpyType ==
    ASSUME NEW a \in Nat, NEW b \in Nat, NEW dst \in [0 .. a - 1 -> Vals],
           NEW src \in [0 .. b - 1 -> Vals],
           NEW at \in Nat, NEW from \in Nat, NEW length \in Nat,
           at + length <= a, from + length <= b
    PROVE  Memcpy(dst, at, src, from, length) \in [0 .. a - 1 -> Vals]
BY DEF Memcpy, Bytes

\* The local check of the transport, for a disk that is registered.
LEMMA LocalExact ==
    ASSUME NEW start \in Nat, NEW length \in U64, NEW size \in U64,
           Iova + start \in U64, NEW reg, NEW m,
           reg.iova = Iova, reg.length = size, reg.lkey = Lkey,
           m.lkey = Lkey, m.addr = Iova + start, m.length = length
    PROVE  LocalRc(reg, m) = "OK" <=> start + length <= size
<1>0. Iova \in U64 /\ Iova \in Nat /\ Word \in Nat /\ length \in Nat /\ size \in Nat
  BY Mock, Words DEF U64
<1>1. Window(Iova + start, length, Iova, size) = "OK"
        <=> Iova <= Iova + start /\ Iova + start + length <= Iova + size
  BY <1>0, WindowsAreExact DEF WindowsExact
<1>2. LocalRc(reg, m) = "OK" <=> Window(Iova + start, length, Iova, size) = "OK"
  BY DEF LocalRc
<1> QED
  BY <1>0, <1>1, <1>2

\* The registration of a context names a live disk on it, or none.
LEMMA RegisteredDisk ==
    ASSUME Inv, NEW x \in Contexts, contexts[x].reg # NoMr
    PROVE  LET reg == contexts[x].reg
           IN  /\ reg.addr \in Live /\ disks[reg.addr].ctx = x
               /\ reg.length = disks[reg.addr].size
               /\ reg.iova = Iova /\ reg.lkey = Lkey
<1>1. contexts[x].reg \in [addr : Disks, length : Nat, iova : {Iova}, lkey : {Lkey}]
  BY DEF Inv, TypeOK
<1> QED
  BY <1>1 DEF Inv, RegisteredIsLive

\* What is known of a request that is carried out: the local bytes are inside
\* the disk that is registered, whose offset is that of the session's own disk.
LEMMA Accepted ==
    ASSUME Inv, NEW s \in Sessions, NEW q \in Requests,
           sessions[s] # NULL, SubmitRc(s, q) = "OK"
    PROVE  LET d == sessions[s].disk
               m == MapLba(d, q.lba, q.count)
               reg == contexts[Ctx(s)].reg
           IN  /\ d \in Live /\ Ctx(s) \in Contexts /\ reg # NoMr
               /\ m.offset = Start(d, q) /\ m.length = Length(d, q)
               /\ Sub(m.addr, reg.iova) = Start(d, q)
               /\ Start(d, q) \in Nat /\ Length(d, q) \in Nat \ {0} /\ q.raddr \in Nat
               /\ Start(d, q) + Length(d, q) <= disks[reg.addr].size
               /\ q.raddr + Length(d, q) <= RemoteLength
<1> DEFINE d == sessions[s].disk
           m == MapLba(d, q.lba, q.count)
           x == Ctx(s)
           reg == contexts[x].reg
<1>1. d \in Live
  BY DEF Inv, TypeOK
<1>2. x \in Contexts
  BY <1>1, LiveDisk DEF Inv, Ctx
<1>3. q.lba \in U64 /\ q.count \in U64 /\ q.raddr \in U64 /\ q.rlen \in U64
  BY Inputs
<1>4. m.rc = "OK" /\ ~(q.rlen < m.length) /\ LocalRc(reg, m) = "OK"
      /\ RemoteRc(q.raddr, m.length) = "OK"
  BY DEF SubmitRc
<1>5. /\ m.lkey = Lkey /\ m.offset = Start(d, q) /\ m.length = Length(d, q)
      /\ Start(d, q) \in Nat /\ Length(d, q) \in Nat \ {0}
      /\ m.addr = Iova + Start(d, q) /\ m.addr \in U64 /\ Length(d, q) \in U64
  BY <1>1, <1>3, <1>4, MapLbaExact DEF Inv, Start, Length
<1>6. reg # NoMr
  <2>1. m.lkey = reg.lkey
    BY <1>4 DEF LocalRc
  <2> QED
    BY <1>5, <2>1, Mock DEF NoMr
<1>7. /\ reg.addr \in Live /\ reg.length = disks[reg.addr].size
      /\ reg.iova = Iova /\ reg.lkey = Lkey
  BY <1>2, <1>6, RegisteredDisk
<1>8. disks[reg.addr].size \in U64
  BY <1>7, LiveDisk, Words DEF Inv, U64
<1>9. Start(d, q) + Length(d, q) <= disks[reg.addr].size
  <2> HIDE DEF m, reg, d
  <2> QED
    BY <1>4, <1>5, <1>7, <1>8, LocalExact
<1>10. q.raddr \in Nat /\ q.raddr + Length(d, q) <= RemoteLength
  <2>1. 0 \in U64 /\ RemoteLength \in U64
    BY Mock, Words DEF U64
  <2>2. 0 <= q.raddr /\ q.raddr + Length(d, q) <= 0 + RemoteLength
    BY <1>3, <1>4, <1>5, <2>1, WindowsAreExact DEF WindowsExact, RemoteRc
  <2> QED
    BY <1>3, <2>1, <2>2, Words DEF U64
<1>11. Sub(m.addr, reg.iova) = Start(d, q)
  <2>1. Iova \in Nat /\ Word \in Nat
    BY Mock, Words DEF U64
  <2>2. Start(d, q) \in U64 /\ (Iova + Start(d, q)) - Iova = Start(d, q)
    BY <1>5, <2>1 DEF U64
  <2> QED
    BY <1>5, <1>7, <2>2, NoWrap DEF Sub
<1> QED
  BY <1>1, <1>2, <1>5, <1>6, <1>9, <1>10, <1>11

\* Registered disks stay registered through a step that changes contents only.
LEMMA ContentsStep ==
    ASSUME Inv, NEW d \in Live, NEW f \in [0 .. disks[d].size - 1 -> Vals],
           disks' = [disks EXCEPT ![d].base = f], UNCHANGED <<contexts, sessions>>
    PROVE  Inv'
<1>1. /\ disks' \in [Disks -> {NULL} \cup UNION {DiskRecords(c.size) : c \in Configs}]
      /\ disks'[d] # NULL /\ disks'[d].ctx = disks[d].ctx /\ disks'[d].size = disks[d].size
      /\ \A e \in Disks \ {d} : disks'[e] = disks[e]
  BY NewContents DEF Inv
<1>2. /\ Live' = Live
      /\ \A e \in Live : disks'[e].ctx = disks[e].ctx /\ disks'[e].size = disks[e].size
  BY <1>1 DEF Live
<1>3. TypeOK'
  BY <1>1, <1>2 DEF Inv, TypeOK
<1>4. RegisteredIsLive'
  BY <1>2 DEF Inv, RegisteredIsLive
<1> QED
  BY <1>3, <1>4 DEF Inv

\* A new disk takes over the registration of its context, and is live.
LEMMA CreateStep ==
    ASSUME Inv, NEW d \in Disks, NEW x \in Contexts, NEW cfg \in Configs, Create(d, x, cfg)
    PROVE  Inv'
<1> DEFINE r == [ctx |-> x, bs |-> cfg.bs, size |-> cfg.size, mr |-> Mr,
                 base |-> [i \in 0 .. cfg.size - 1 |-> 0]]
<1>1. r \in DiskRecords(cfg.size) /\ r # NULL
  <2>1. r \in DiskRecords(cfg.size)
    BY Mock, Inputs DEF DiskRecords
  <2> QED
    BY <2>1, NoNull
<1>2. /\ disks[d] = NULL
      /\ disks' = [disks EXCEPT ![d] = r]
      /\ contexts' = [contexts EXCEPT ![x].reg = Registered(d, cfg.size)]
      /\ sessions' = sessions
  BY DEF Create
<1>3. disks' \in [Disks -> {NULL} \cup UNION {DiskRecords(c.size) : c \in Configs}]
  BY <1>1, <1>2 DEF Inv, TypeOK
<1>4. /\ disks'[d] # NULL /\ disks'[d].ctx = x /\ disks'[d].size = cfg.size
      /\ \A e \in Live : e # d /\ disks'[e] = disks[e]
      /\ d \in Live' /\ Live \subseteq Live'
  <2>1. disks'[d] = r
    BY <1>2 DEF Inv, TypeOK
  <2>2. r.ctx = x /\ r.size = cfg.size
    OBVIOUS
  <2> HIDE DEF r
  <2>3. \A e \in Live : e # d /\ disks'[e] = disks[e]
    BY <1>2 DEF Live, Inv, TypeOK
  <2> QED
    BY <1>1, <2>1, <2>2, <2>3 DEF Live
<1>5. cfg.size \in Nat /\ cfg.size # 0
  BY Mock, Words DEF U64
<1>6. Registered(d, cfg.size) \in [addr : Disks, length : Nat, iova : {Iova}, lkey : {Lkey}]
  BY <1>5 DEF Registered
<1>7. TypeOK'
  <2>1. contexts' \in [Contexts ->
          [connected : BOOLEAN, remote : [0 .. RemoteLength - 1 -> Vals],
           reg : {NoMr} \cup [addr : Disks, length : Nat, iova : {Iova}, lkey : {Lkey}]]]
    BY <1>2, <1>6 DEF Inv, TypeOK
  <2>2. /\ sessions' \in [Sessions -> {NULL} \cup SessionRecords]
        /\ \A s \in Sessions : sessions'[s] # NULL => sessions'[s].disk \in Live'
    BY <1>2, <1>4 DEF Inv, TypeOK
  <2> QED
    BY <1>3, <2>1, <2>2 DEF TypeOK
<1>8. RegisteredIsLive'
  <2> SUFFICES ASSUME NEW y \in Contexts
               PROVE  LET reg == contexts'[y].reg
                      IN  \/ reg = NoMr
                          \/ /\ reg.addr \in Live' /\ disks'[reg.addr].ctx = y
                             /\ reg.length = disks'[reg.addr].size
    BY DEF RegisteredIsLive
  <2>1. CASE y = x
    <3>1. contexts'[y].reg = Registered(d, cfg.size)
      BY <1>2, <2>1 DEF Inv, TypeOK
    <3> QED
      BY <1>4, <2>1, <3>1 DEF Registered
  <2>2. CASE y # x
    <3>1. contexts'[y].reg = contexts[y].reg
      BY <1>2, <2>2 DEF Inv, TypeOK
    <3> QED
      BY <1>4, <3>1 DEF Inv, RegisteredIsLive
  <2> QED
    BY <2>1, <2>2
<1> QED
  BY <1>7, <1>8 DEF Inv

\* The disk that goes was on the context whose registration is cleared.
LEMMA DestroyStep ==
    ASSUME Inv, NEW d \in Disks, Destroy(d)
    PROVE  Inv'
<1> DEFINE x == disks[d].ctx
<1>1. d \in Live /\ x \in Contexts
  BY LiveDisk DEF Destroy, Inv, Live
<1>2. /\ disks' = [disks EXCEPT ![d] = NULL]
      /\ contexts' = [contexts EXCEPT ![x].reg = NoMr]
      /\ sessions' = [s \in Sessions |->
                        IF sessions[s] # NULL /\ sessions[s].disk = d THEN NULL ELSE sessions[s]]
  BY DEF Destroy, Deregistered
<1>3. Live' = Live \ {d} /\ \A e \in Live \ {d} : disks'[e] = disks[e]
  BY <1>1, <1>2 DEF Live, Inv, TypeOK
<1>4. TypeOK'
  <2>1. disks' \in [Disks -> {NULL} \cup UNION {DiskRecords(c.size) : c \in Configs}]
    BY <1>2 DEF Inv, TypeOK
  <2>2. contexts' \in [Contexts ->
          [connected : BOOLEAN, remote : [0 .. RemoteLength - 1 -> Vals],
           reg : {NoMr} \cup [addr : Disks, length : Nat, iova : {Iova}, lkey : {Lkey}]]]
    BY <1>1, <1>2 DEF Inv, TypeOK
  <2>3. /\ sessions' \in [Sessions -> {NULL} \cup SessionRecords]
        /\ \A s \in Sessions : sessions'[s] # NULL => sessions'[s].disk \in Live'
    BY <1>2, <1>3 DEF Inv, TypeOK
  <2> QED
    BY <2>1, <2>2, <2>3 DEF TypeOK
<1>5. RegisteredIsLive'
  <2> SUFFICES ASSUME NEW y \in Contexts, contexts'[y].reg # NoMr
               PROVE  LET reg == contexts'[y].reg
                      IN  /\ reg.addr \in Live' /\ disks'[reg.addr].ctx = y
                          /\ reg.length = disks'[reg.addr].size
    BY DEF RegisteredIsLive
  <2>1. y # x /\ contexts'[y].reg = contexts[y].reg
    BY <1>1, <1>2 DEF Inv, TypeOK
  <2>2. contexts[y].reg.addr \in Live \ {d}
    BY <2>1 DEF Inv, RegisteredIsLive
  <2> QED
    BY <1>3, <2>1, <2>2 DEF Inv, RegisteredIsLive
<1> QED
  BY <1>4, <1>5 DEF Inv

\* Filling a disk changes contents only.
LEMMA FillStep ==
    ASSUME Inv, NEW d \in Disks, NEW q \in Fills, Fill(d, q)
    PROVE  Inv'
<1> DEFINE m == MapLba(d, q.lba, q.count)
           f == [i \in DOMAIN disks[d].base |-> IF i \in Bytes(m.offset, m.length)
                                               THEN q.val ELSE disks[d].base[i]]
<1>1. d \in Live /\ disks' = [disks EXCEPT ![d].base = f] /\ UNCHANGED <<contexts, sessions>>
  BY DEF Fill, Live
<1>2. f \in [0 .. disks[d].size - 1 -> Vals]
  <2>1. disks[d].base \in [0 .. disks[d].size - 1 -> Vals]
    BY <1>1, LiveDisk DEF Inv
  <2> HIDE DEF m
  <2> QED
    BY <2>1, Inputs
<1> HIDE DEF f
<1> QED
  BY <1>1, <1>2, ContentsStep

\* Sessions come and go, and set flags, without touching a registration.
LEMMA SessionStep ==
    ASSUME Inv, NEW s \in Sessions,
           (\E d \in Disks : SessionInit(s, d)) \/ Connect(s) \/ Disconnect(s)
    PROVE  Inv'
<1>1. ASSUME NEW d \in Disks, SessionInit(s, d) PROVE Inv'
  <2>1. [disk |-> d, connected |-> FALSE] \in SessionRecords
    BY DEF SessionRecords
  <2>2. /\ sessions' = [sessions EXCEPT ![s] = [disk |-> d, connected |-> FALSE]]
        /\ d \in Live /\ disks' = disks /\ contexts' = contexts
    BY <1>1 DEF SessionInit, Live
  <2>3. TypeOK'
    BY <2>1, <2>2 DEF Inv, TypeOK, Live
  <2> QED
    BY <2>2, <2>3 DEF Inv, RegisteredIsLive, Live
<1>2. ASSUME NEW b \in BOOLEAN, sessions[s] # NULL, disks' = disks,
             contexts' = [contexts EXCEPT ![Ctx(s)].connected = b],
             sessions' = [sessions EXCEPT ![s].connected = b]
      PROVE  Inv'
  <2>1. sessions[s] \in SessionRecords /\ sessions[s].disk \in Live
    BY <1>2 DEF Inv, TypeOK
  <2>2. Ctx(s) \in Contexts
    BY <2>1, LiveDisk DEF Inv, Ctx
  <2>3. sessions' \in [Sessions -> {NULL} \cup SessionRecords]
        /\ \A t \in Sessions : sessions'[t] # NULL => sessions'[t].disk \in Live
    BY <1>2, <2>1 DEF Inv, TypeOK, SessionRecords
  <2>4. /\ contexts' \in [Contexts ->
             [connected : BOOLEAN, remote : [0 .. RemoteLength - 1 -> Vals],
              reg : {NoMr} \cup [addr : Disks, length : Nat, iova : {Iova}, lkey : {Lkey}]]]
        /\ \A x \in Contexts : contexts'[x].reg = contexts[x].reg
    BY <1>2, <2>2 DEF Inv, TypeOK
  <2>5. Live' = Live
    BY <1>2 DEF Live
  <2>6. TypeOK'
    BY <1>2, <2>3, <2>4, <2>5 DEF Inv, TypeOK
  <2> QED
    BY <1>2, <2>4, <2>5, <2>6 DEF Inv, RegisteredIsLive
<1> QED
  BY <1>1, <1>2 DEF Connect, Disconnect

\* A request is refused or moves bytes of registered, live memory.
LEMMA SubmitStep ==
    ASSUME Inv, NEW s \in Sessions, NEW q \in Requests, Submit(s, q)
    PROVE  Inv'
<1> DEFINE d == sessions[s].disk
           m == MapLba(d, q.lba, q.count)
           x == Ctx(s)
           reg == contexts[x].reg
           at == Sub(m.addr, reg.iova)
<1>1. /\ x \in Contexts /\ reg # NoMr /\ m.length = Length(d, q) /\ at = Start(d, q)
      /\ Start(d, q) \in Nat /\ Length(d, q) \in Nat /\ q.raddr \in Nat
      /\ Start(d, q) + Length(d, q) <= disks[reg.addr].size
      /\ q.raddr + Length(d, q) <= RemoteLength
  BY Accepted DEF Submit
<1>2. /\ reg.addr \in Live /\ RemoteLength \in Nat /\ disks[reg.addr].size \in Nat
      /\ disks[reg.addr].base \in [0 .. disks[reg.addr].size - 1 -> Vals]
  <2>1. reg.addr \in Live
    BY <1>1, RegisteredDisk
  <2>2. /\ disks[reg.addr].size \in 1 .. SizeMax
        /\ disks[reg.addr].base \in [0 .. disks[reg.addr].size - 1 -> Vals]
    BY <2>1, LiveDisk DEF Inv
  <2>3. RemoteLength \in Nat /\ \A n \in 1 .. SizeMax : n \in Nat
    BY Mock, Words DEF U64
  <2> QED
    BY Zenon, <2>1, <2>2, <2>3
<1>3. contexts[x].remote \in [0 .. RemoteLength - 1 -> Vals]
  BY <1>1 DEF Inv, TypeOK
<1>4. CASE q.dir = "READ" /\ UNCHANGED <<disks, sessions>> /\
           contexts' = [contexts EXCEPT ![x].remote =
                          Memcpy(@, q.raddr, disks[reg.addr].base, at, m.length)]
  <2> DEFINE f == Memcpy(contexts[x].remote, q.raddr, disks[reg.addr].base,
                         Start(d, q), Length(d, q))
  <2>1. f \in [0 .. RemoteLength - 1 -> Vals]
    <3> HIDE DEF d, x, reg
    <3> QED
      BY <1>1, <1>2, <1>3, MemcpyType
  <2>2. contexts' = [contexts EXCEPT ![x].remote = f]
    <3> HIDE DEF d, m, x, reg, at
    <3> QED
      BY <1>1, <1>4
  <2> HIDE DEF f, x
  <2>3. /\ contexts' \in [Contexts ->
             [connected : BOOLEAN, remote : [0 .. RemoteLength - 1 -> Vals],
              reg : {NoMr} \cup [addr : Disks, length : Nat, iova : {Iova}, lkey : {Lkey}]]]
        /\ \A y \in Contexts : contexts'[y].reg = contexts[y].reg
    BY <1>1, <2>1, <2>2 DEF Inv, TypeOK
  <2>4. Live' = Live
    BY <1>4 DEF Live
  <2>5. TypeOK'
    BY <1>4, <2>3, <2>4 DEF Inv, TypeOK
  <2>6. RegisteredIsLive'
    <3> HIDE DEF d, m, reg, at
    <3> QED
      BY <1>4, <2>3, <2>4 DEF Inv, RegisteredIsLive
  <2> QED
    BY <2>5, <2>6 DEF Inv
<1>5. CASE q.dir = "WRITE" /\ UNCHANGED <<contexts, sessions>> /\
           disks' = [disks EXCEPT ![reg.addr].base =
                       Memcpy(@, at, contexts[x].remote, q.raddr, m.length)]
  <2> DEFINE f == Memcpy(disks[reg.addr].base, Start(d, q), contexts[x].remote,
                         q.raddr, Length(d, q))
  <2>1. f \in [0 .. disks[reg.addr].size - 1 -> Vals]
    <3> HIDE DEF d, x, reg
    <3> QED
      BY <1>1, <1>2, <1>3, MemcpyType
  <2>2. disks' = [disks EXCEPT ![reg.addr].base = f]
    <3> HIDE DEF d, m, x, reg, at
    <3> QED
      BY <1>1, <1>5
  <2> HIDE DEF f, reg
  <2> QED
    BY <1>2, <1>5, <2>1, <2>2, ContentsStep
<1> QED
  BY <1>4, <1>5 DEF Submit

\* Inv is inductive.
LEMMA InvHolds == Spec => []Inv
<1>1. Init => Inv
  <2> SUFFICES ASSUME Init PROVE Inv
    OBVIOUS
  <2>1. [i \in 0 .. RemoteLength - 1 |-> 0] \in [0 .. RemoteLength - 1 -> Vals]
    BY Inputs
  <2>2. TypeOK
    BY <2>1 DEF Init, TypeOK
  <2>3. RegisteredIsLive
    BY DEF Init, RegisteredIsLive
  <2> QED
    BY <2>2, <2>3 DEF Inv
<1>2. Inv /\ [Next]_vars => Inv'
  <2> SUFFICES ASSUME Inv, [Next]_vars PROVE Inv'
    OBVIOUS
  <2>1. CASE UNCHANGED vars
    BY <2>1 DEF vars, Inv, TypeOK, RegisteredIsLive, Live
  <2> QED
    BY <2>1, CreateStep, DestroyStep, FillStep, SessionStep, SubmitStep DEF Next
<1> QED
  BY <1>1, <1>2, PTL DEF Spec

\* Whatever disks are created on a context and destroyed, its registration is
\* of a live disk, all of it, or there is none (RegisteredIsLive).
THEOREM RegistrationIsLive == Spec => []RegisteredIsLive
<1>1. Inv => RegisteredIsLive
  BY DEF Inv
<1> QED
  BY <1>1, InvHolds, PTL

\* A session that is ready accepts what fits.
LEMMA ReadyAccepts ==
    ASSUME Inv, NEW s \in Sessions, NEW q \in Requests, Ready(s)
    PROVE  LET d == sessions[s].disk
           IN  SubmitRc(s, q) = "OK" <=>
                 /\ Inside(q.lba, q.count, disks[d].bs, disks[d].size)
                 /\ Length(d, q) <= q.rlen
                 /\ q.raddr + Length(d, q) <= RemoteLength
<1> DEFINE d == sessions[s].disk
           m == MapLba(d, q.lba, q.count)
           reg == contexts[Ctx(s)].reg
           size == disks[d].size
<1>1. d \in Live /\ d \in Disks
  BY DEF Ready, Inv, TypeOK, Live
<1>2. Ctx(s) \in Contexts
  BY <1>1, LiveDisk DEF Inv, Ctx
<1>3. q.lba \in U64 /\ q.count \in U64 /\ q.raddr \in U64 /\ q.rlen \in U64
  BY Inputs
<1>4. reg # NoMr /\ reg.addr = d
  <2>1. NoMr.addr = NULL
    BY DEF NoMr
  <2> QED
    BY <1>1, <2>1, NoNull DEF Ready
<1>5. reg.length = size /\ reg.iova = Iova /\ reg.lkey = Lkey
  BY <1>2, <1>4, RegisteredDisk
<1>6. /\ m.lkey = Lkey
      /\ m.rc = "OK" <=> Inside(q.lba, q.count, disks[d].bs, size)
      /\ m.rc = "OK" => /\ m.length = Length(d, q) /\ Start(d, q) \in Nat
                        /\ Start(d, q) + Length(d, q) <= size
                        /\ m.addr = Iova + Start(d, q) /\ m.addr \in U64
                        /\ Length(d, q) \in U64
  BY <1>1, <1>3, MapLbaExact DEF Inv, Start, Length
<1>7. CASE m.rc # "OK"
  <2>1. SubmitRc(s, q) # "OK"
    BY <1>7 DEF SubmitRc
  <2> QED
    BY <1>6, <1>7, <2>1
<1>8. CASE m.rc = "OK"
  <2>1. LocalRc(reg, m) = "OK"
    <3>1. size \in U64
      BY <1>1, LiveDisk, Words DEF Inv, U64
    <3> HIDE DEF m, reg, d, size
    <3> QED
      BY <1>5, <1>6, <1>8, <3>1, LocalExact
  <2>2. RemoteRc(q.raddr, m.length) = "OK" <=> q.raddr + Length(d, q) <= RemoteLength
    <3>1. 0 \in U64 /\ RemoteLength \in U64 /\ q.raddr \in Nat /\ RemoteLength \in Nat
      BY <1>3, Mock, Words DEF U64
    <3>2. RemoteRc(q.raddr, m.length) = "OK"
            <=> 0 <= q.raddr /\ q.raddr + Length(d, q) <= 0 + RemoteLength
      <4>1. m.length = Length(d, q) /\ Length(d, q) \in U64
        BY <1>6, <1>8
      <4>2. Window(q.raddr, Length(d, q), 0, RemoteLength) = "OK"
              <=> 0 <= q.raddr /\ q.raddr + Length(d, q) <= 0 + RemoteLength
        BY <1>3, <3>1, <4>1, WindowsAreExact DEF WindowsExact
      <4> HIDE DEF m, d
      <4> QED
        BY <4>1, <4>2 DEF RemoteRc
    <3> QED
      BY <3>1, <3>2
  <2>3. q.rlen < m.length <=> ~(Length(d, q) <= q.rlen)
    <3>1. q.rlen \in Nat /\ Length(d, q) \in Nat
      BY <1>3, <1>6, <1>8, Words DEF U64
    <3> QED
      BY <1>6, <1>8, <3>1
  <2>4. SubmitRc(s, q) = IF q.rlen < m.length THEN "ERANGE" ELSE RemoteRc(q.raddr, m.length)
    BY <1>8, <2>1 DEF SubmitRc, Ready
  <2>5. Inside(q.lba, q.count, disks[d].bs, size)
    BY <1>6, <1>8
  <2> HIDE DEF m, reg, d, size
  <2> QED
    BY <2>2, <2>3, <2>4, <2>5 DEF d, size
<1> QED
  BY <1>7, <1>8

\* Requests are accepted exactly if they fit (AcceptsExactly).
THEOREM AcceptanceIsExact == Spec => []AcceptsExactly
<1>1. Inv => AcceptsExactly
  <2> SUFFICES ASSUME Inv, NEW s \in Sessions, NEW q \in Requests, sessions[s] # NULL,
                      ~(sessions[s].connected /\ contexts[Ctx(s)].connected
                          /\ contexts[Ctx(s)].reg # NoMr),
                      SubmitRc(s, q) = "OK"
               PROVE  FALSE
    BY ReadyAccepts DEF AcceptsExactly
  <2>1. contexts[Ctx(s)].reg # NoMr
    BY Accepted
  <2> QED
    BY <2>1 DEF SubmitRc
<1> QED
  BY <1>1, InvHolds, PTL

\* One step of MovesExactly.
LEMMA SubmitMoves ==
    ASSUME Inv, NEW s \in Sessions, NEW q \in Requests, Ready(s), Submit(s, q)
    PROVE  Moves(s, q)
<1> DEFINE d == sessions[s].disk
           m == MapLba(d, q.lba, q.count)
           x == Ctx(s)
           reg == contexts[x].reg
           at == Sub(m.addr, reg.iova)
           start == Start(d, q)
           length == Length(d, q)
<1>1. /\ d \in Live /\ x \in Contexts /\ reg.addr = d /\ m.length = length /\ at = start
      /\ start \in Nat /\ length \in Nat /\ q.raddr \in Nat
      /\ start + length <= disks[d].size /\ q.raddr + length <= RemoteLength
  BY Accepted DEF Submit, Ready
<1>2. /\ RemoteLength \in Nat /\ disks[d].size \in Nat
      /\ disks[d].base \in [0 .. disks[d].size - 1 -> Vals]
      /\ contexts[x].remote \in [0 .. RemoteLength - 1 -> Vals]
  <2>1. /\ disks[d].size \in 1 .. SizeMax
        /\ disks[d].base \in [0 .. disks[d].size - 1 -> Vals]
    BY <1>1, LiveDisk DEF Inv
  <2>2. contexts[x].remote \in [0 .. RemoteLength - 1 -> Vals]
    BY <1>1 DEF Inv, TypeOK
  <2> QED
    BY <2>1, <2>2, Mock, Words DEF U64
<1>3. \/ /\ q.dir = "READ" /\ disks' = disks
         /\ contexts' = [contexts EXCEPT ![x].remote =
                           Memcpy(contexts[x].remote, q.raddr, disks[d].base, start, length)]
      \/ /\ q.dir = "WRITE" /\ contexts' = contexts
         /\ disks' = [disks EXCEPT ![d].base =
                        Memcpy(disks[d].base, start, contexts[x].remote, q.raddr, length)]
  <2>1. \/ /\ q.dir = "READ" /\ disks' = disks
           /\ contexts' = [contexts EXCEPT ![x].remote =
                             Memcpy(@, q.raddr, disks[reg.addr].base, at, m.length)]
        \/ /\ q.dir = "WRITE" /\ contexts' = contexts
           /\ disks' = [disks EXCEPT ![reg.addr].base =
                          Memcpy(@, at, contexts[x].remote, q.raddr, m.length)]
    BY DEF Submit
  <2> HIDE DEF d, m, x, reg, at, start, length
  <2> QED
    BY <1>1, <2>1
<1>4. CASE q.dir = "READ" /\ disks' = disks /\
           contexts' = [contexts EXCEPT ![x].remote =
                          Memcpy(contexts[x].remote, q.raddr, disks[d].base, start, length)]
  <2> DEFINE f == Memcpy(contexts[x].remote, q.raddr, disks[d].base, start, length)
  <2>1. /\ \A i \in 0 .. length - 1 : f[q.raddr + i] = disks[d].base[start + i]
        /\ \A i \in DOMAIN contexts[x].remote \ Bytes(q.raddr, length) :
             f[i] = contexts[x].remote[i]
    <3> HIDE DEF d, x, start, length
    <3>1. ASSUME NEW i \in 0 .. length - 1
          PROVE  f[q.raddr + i] = disks[d].base[start + i]
      <4>1. /\ q.raddr + i \in DOMAIN contexts[x].remote /\ q.raddr + i \in Bytes(q.raddr, length)
            /\ start + (q.raddr + i) - q.raddr = start + i
        <5> DEFINE raddr == q.raddr
        <5>1. /\ raddr \in Nat /\ start \in Nat /\ length \in Nat /\ raddr + length <= RemoteLength
              /\ RemoteLength \in Nat /\ DOMAIN contexts[x].remote = 0 .. RemoteLength - 1
          BY <1>1, <1>2
        <5> HIDE DEF raddr
        <5>2. /\ raddr + i \in 0 .. RemoteLength - 1 /\ raddr + i \in Bytes(raddr, length)
              /\ start + (raddr + i) - raddr = start + i
          BY <5>1 DEF Bytes
        <5> QED
          BY <5>1, <5>2 DEF raddr
      <4> QED
        BY <4>1 DEF Memcpy
    <3> QED
      BY <3>1 DEF Memcpy
  <2>2. contexts'[x].remote = f
    <3>1. contexts[x] \in [connected : BOOLEAN, remote : [0 .. RemoteLength - 1 -> Vals],
            reg : {NoMr} \cup [addr : Disks, length : Nat, iova : {Iova}, lkey : {Lkey}]]
      BY <1>1 DEF Inv, TypeOK
    <3>2. x \in DOMAIN contexts
      BY <1>1 DEF Inv, TypeOK
    <3> HIDE DEF f, x
    <3> QED
      BY <1>4, <3>1, <3>2 DEF f
  <2> HIDE DEF d, x, start, length, f
  <2> QED
    BY <1>4, <2>1, <2>2 DEF d, x, start, length, Moves
<1>5. CASE q.dir = "WRITE" /\ contexts' = contexts /\
           disks' = [disks EXCEPT ![d].base =
                       Memcpy(disks[d].base, start, contexts[x].remote, q.raddr, length)]
  <2> DEFINE f == Memcpy(disks[d].base, start, contexts[x].remote, q.raddr, length)
  <2>1. /\ f \in [0 .. disks[d].size - 1 -> Vals]
        /\ \A i \in 0 .. length - 1 : f[start + i] = contexts[x].remote[q.raddr + i]
        /\ \A i \in DOMAIN disks[d].base \ Bytes(start, length) :
             f[i] = disks[d].base[i]
    <3> HIDE DEF d, x, start, length
    <3>1. f \in [0 .. disks[d].size - 1 -> Vals]
      <4>1. /\ start \in Nat /\ length \in Nat /\ q.raddr \in Nat
            /\ start + length <= disks[d].size /\ q.raddr + length <= RemoteLength
        BY <1>1
      <4> QED
        BY Zenon, <1>2, <4>1, MemcpyType
    <3>2. ASSUME NEW i \in 0 .. length - 1
          PROVE  f[start + i] = contexts[x].remote[q.raddr + i]
      <4>1. /\ start + i \in DOMAIN disks[d].base /\ start + i \in Bytes(start, length)
            /\ q.raddr + (start + i) - start = q.raddr + i
        BY <1>1, <1>2 DEF Bytes
      <4> QED
        BY <4>1 DEF Memcpy
    <3> QED
      BY <3>1, <3>2 DEF Memcpy
  <2>2. disks'[d].base = f /\ \A e \in Disks \ {d} : disks'[e] = disks[e]
    <3>1. disks' = [disks EXCEPT ![d].base = f] /\ TypeOK
      BY <1>5 DEF Inv
    <3> HIDE DEF d, f
    <3> QED
      BY <1>1, <2>1, <3>1, NewContents
  <2>3. q.dir # "READ" /\ Live \subseteq Disks
    BY <1>5 DEF Live
  <2> HIDE DEF d, x, start, length, f
  <2> QED
    BY <1>5, <2>1, <2>2, <2>3 DEF d, x, start, length, Moves
<1> QED
  BY <1>3, <1>4, <1>5

\* The bytes of the request's blocks are moved, in its direction, and no other
\* byte changes (MovesExactly).
THEOREM MovesAreExact == Spec => MovesExactly
<1>1. Inv => \A s \in Sessions, q \in Requests : Ready(s) /\ Submit(s, q) => Moves(s, q)
  BY SubmitMoves
<1> QED
  BY <1>1, InvHolds, PTL DEF MovesExactly

\* Every variable of the library's model has its type (TypeOK), the contexts a
\* session or a registration refers to among them.
THEOREM Types == Spec => []TypeOK
<1>1. Inv => TypeOK
  BY DEF Inv
<1> QED
  BY <1>1, InvHolds, PTL
=============================================================================
