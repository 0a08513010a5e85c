------------------------------ MODULE IoRange -------------------------------
(***************************************************************************)
(* The range arithmetic of the repository, in unsigned words that wrap:    *)
(* checked_io_range of the RDMA ramdisk, urma_blkdev_map_io, the range     *)
(* check of the userspace backend, and the address translation of the mock *)
(* transport, whose remote half has the shape of the segment check of      *)
(* validate_xfer_locked.                                                   *)
(***************************************************************************)
EXTENDS Integers

CONSTANTS
    Word,           \* a 64-bit variable holds 0 .. Word - 1
    SizeMax         \* SIZE_MAX

ASSUME Words == Word \in Nat \ {0} /\ SizeMax \in 0 .. Word - 1

U64 == 0 .. Word - 1

Mul(a, b) == (a * b) % Word
Add(a, b) == (a + b) % Word
Sub(a, b) == (a - b) % Word

Refused(rc) == [rc |-> rc, offset |-> 0, length |-> 0]

InDisk(offset, bytes, size) == ~(offset > size \/ bytes > Sub(size, offset))

\* The offset and the length of count blocks at lba, or the code they are
\* refused with.
CheckedIoRange(lba, count, bs, size) ==
    LET offset == Mul(lba, bs)
        bytes == Mul(count, bs)
    IN  IF count = 0 THEN Refused("EINVAL")
        ELSE IF lba > (Word - 1) \div bs \/ count > (Word - 1) \div bs THEN Refused("EOVERFLOW")
        ELSE IF ~InDisk(offset, bytes, size) THEN Refused("ERANGE")
        ELSE IF bytes > SizeMax THEN Refused("EOVERFLOW")
        ELSE [rc |-> "OK", offset |-> offset, length |-> bytes]

\* urma_blkdev_map_io: the same, and an address in the registered segment.
MapIo(lba, count, bs, size, ubva) ==
    LET r == CheckedIoRange(lba, count, bs, size)
        Out(s, addr) == [rc |-> s.rc, offset |-> s.offset, length |-> s.length, addr |-> addr]
    IN  IF bs = 0 THEN Out(Refused("EINVAL"), 0)
        ELSE IF r.rc # "OK" THEN Out(r, 0)
        ELSE IF ubva > Word - 1 - r.offset THEN Out(Refused("EOVERFLOW"), 0)
        ELSE Out(r, Add(ubva, r.offset))

\* ramdisk_backend_validate_range, for a backend that exists.
ValidateRange(offset, len, size) ==
    IF offset > size \/ len > Sub(size, offset) THEN "ERANGE" ELSE "OK"

\* A region that starts at addr, seen through a window of size bytes that
\* starts at base: local_sge_to_ptr and remote_region_to_ptr (base 0), and the
\* end of validate_xfer_locked.
Window(addr, length, base, size) ==
    IF addr < base THEN "below"
    ELSE IF Sub(addr, base) > size \/ length > Sub(size, Sub(addr, base)) THEN "ERANGE"
    ELSE "OK"

-----------------------------------------------------------------------------
\* count blocks at lba lie inside a device of size bytes.
Inside(lba, count, bs, size) == count > 0 /\ (lba + count) * bs <= size

\* For devices that fit the address space, as rdma_ramdisk_create demands:
\* checked_io_range and map_io accept exactly the non-empty ranges inside the
\* device, whatever lba and count are sent; what they hand out has not wrapped;
\* and map_io refuses no more than addresses that would.
RangesExact ==
    \A bs \in U64 \ {0}, size \in 0 .. SizeMax, lba \in U64, count \in U64 :
      LET r == CheckedIoRange(lba, count, bs, size)
      IN  /\ r.rc = "OK" <=> Inside(lba, count, bs, size)
          /\ r.rc = "OK" => r.offset = lba * bs /\ r.length = count * bs
          /\ \A ubva \in U64 :
               LET m == MapIo(lba, count, bs, size, ubva)
               IN  /\ m.rc = "OK" <=> r.rc = "OK" /\ ubva + lba * bs < Word
                   /\ m.rc = "OK" => m.addr = ubva + lba * bs

\* A region is accepted exactly if it lies in the window, in unbounded
\* arithmetic: the backend's range check, the mock's translation and the segment
\* check of a transfer let nothing through that starts inside and wraps.
WindowsExact ==
    \A addr \in U64, length \in U64, base \in U64, size \in U64 :
      /\ Window(addr, length, base, size) = "OK" <=> base <= addr /\ addr + length <= base + size
      /\ ValidateRange(addr, length, size) = "OK" <=> addr + length <= size
=============================================================================
