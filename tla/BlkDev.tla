------------------------------- MODULE BlkDev -------------------------------
(***************************************************************************)
(* The ramdisk block devices of the two kernel modules, kernel-urma and    *)
(* kernel: what loading acquires and gives back when a part of it fails,   *)
(* block requests and readers of the sysfs attributes, and unloading.  The *)
(* two modules are the same program but for their ladders; drv says which  *)
(* one is loaded.                                                          *)
(*                                                                         *)
(* Memory is counted in sectors of 512 bytes.  External: the block layer   *)
(* sends requests within the capacity, aligned to logical blocks and       *)
(* without conflict among themselves, and may run queue_rq for several of  *)
(* them at once; del_gendisk waits for requests and readers.               *)
(***************************************************************************)
EXTENDS Naturals, Sequences, FiniteSets

CONSTANTS
    Drivers,        \* subset of {"urma", "rdma"}
    Params,         \* values of logical_block_size (bs) and ramdisk_size, in sectors
    MaxSectors,     \* blk_queue_max_hw_sectors
    Vals,           \* contents of a sector, 0 among them
    Tags,           \* numbers of the requests under way, the least free one first
    Readers,        \* processes that read sysfs attributes
    Named,          \* is ib_dev_name given
    NULL

ASSUME Config ==
    /\ Drivers \subseteq {"urma", "rdma"}
    /\ Params \subseteq [bs : Nat \ {0}, size : Nat] /\ 0 \in Vals
    /\ NULL \notin [dir : {"READ", "WRITE"}, pos : Nat, n : Nat, val : Vals,
                     data : Seq(Vals), ends : Nat]

VARIABLES
    drv, par,       \* the module, and its parameters
    mpc,            \* the module: "out", a step of its ladder, "live", "undo"
    todo,           \* what error labels or exit still have to release
    held,           \* what the module has acquired
    ptrs,           \* pointers of the device to its transport that are not NULL
    drvdata,        \* is drvdata of the disk's device set
    mem,            \* the ramdisk
    rq,             \* requests of the block layer, NULL if a tag is free
    content,        \* what the completed writes have put in each sector
    shows,          \* readers inside a show function
    oops,           \* a reader followed a NULL pointer
    misuse          \* something was used, or released, that was not held

module == <<drv, par, mpc, todo, held, ptrs, drvdata>>
io == <<mem, rq, content>>
readers == <<shows, oops>>
vars == <<module, io, readers, misuse>>

\* The ramdisk is zeroed when it is allocated.
Blank(p) == [s \in 0 .. p.size - 1 |-> 0]

-----------------------------------------------------------------------------
(* Loading.                                                                 *)

\* The parts of init in order.  "tags", "disk" and "added" are alloc_disk.
Ladder ==
    IF drv = "urma" THEN <<"major", "dev", "queue", "ram", "setup", "tags", "disk", "added">>
    ELSE <<"major", "dev", "ram", "setup", "tags", "disk", "added">>

\* cleanup_urma and cleanup_rdma release what the device refers to.
Transport == IF drv = "urma" THEN {"seg", "token", "ub_dev"} ELSE {"dma", "mr", "pd", "ib_dev"}

\* The error labels in order: those of alloc_disk, and those of init from
\* err_cleanup_urma and err_cleanup_rdma on.
ErrLabels ==
    IF drv = "urma"
      THEN <<"disk", "tags", "seg", "token", "ub_dev", "ram", "queue", "dev", "major">>
      ELSE <<"disk", "tags", "dma", "mr", "pd", "ib_dev", "ram", "dev", "major">>

\* What is released when a part of init fails: the labels from the one the goto
\* leads to.
LastOf(s, n) == [i \in 1 .. n |-> s[Len(s) - n + i]]

OnFailure(part) ==
    CASE part = "major" -> <<>>
      [] part = "dev" -> LastOf(ErrLabels, 1)
      [] part = "queue" -> LastOf(ErrLabels, 2)
      [] part = "ram" -> LastOf(ErrLabels, IF drv = "urma" THEN 3 ELSE 2)
      [] part = "tags" -> LastOf(ErrLabels, 7)
      [] part = "disk" -> LastOf(ErrLabels, 8)
      [] part = "added" -> ErrLabels

PartAfter(part) ==
    LET i == CHOOSE i \in DOMAIN Ladder : Ladder[i] = part
    IN  IF i = Len(Ladder) THEN "live" ELSE Ladder[i + 1]

Load ==
    /\ mpc = "out"
    /\ drv' \in Drivers /\ par' \in Params
    /\ mpc' = "major"
    /\ mem' = Blank(par') /\ content' = Blank(par')
    /\ UNCHANGED <<todo, held, ptrs, drvdata, rq, readers, misuse>>

\* A part other than the transport: it is acquired, or init fails.
LoadPart ==
    /\ mpc \in {Ladder[i] : i \in DOMAIN Ladder} \ {"setup"}
    /\ \/ /\ held' = held \cup {mpc}
          /\ mpc' = PartAfter(mpc)
          /\ drvdata' = (drvdata \/ (drv = "urma" /\ mpc = "disk"))
          /\ UNCHANGED todo
       \/ /\ todo' = OnFailure(mpc)
          /\ mpc' = "undo"
          /\ UNCHANGED <<held, drvdata>>
    /\ UNCHANGED <<drv, par, ptrs, io, readers, misuse>>

\* The transport; the module goes on with whatever it got.
Setup(got, refs) ==
    /\ mpc = "setup"
    /\ held' = held \cup got \cup refs
    /\ ptrs' = got
    /\ mpc' = PartAfter("setup")
    /\ UNCHANGED <<drv, par, todo, drvdata, io, readers, misuse>>

SetupUrmaKeepsToken ==
    /\ drv = "urma"
    /\ \E got \in {{}, {"ub_dev"}, {"ub_dev", "token", "seg"}} :
         Setup(got, IF got = {"ub_dev"} THEN {"token"} ELSE {})

\* find_device and setup_urma: no device; no token id, or no segment and the
\* token id freed again; or all.
SetupUrma ==
    /\ drv = "urma"
    /\ \E got \in {{}, {"ub_dev"}, {"ub_dev", "token", "seg"}} : Setup(got, {})

\* setup_rdma undoes all of it when a part fails.  Without ib_dev_name the device
\* is looked up up to three times; the references of the first two are forgotten.
SetupRdma ==
    /\ drv = "rdma"
    /\ \E got \in {{}, {"ib_dev", "pd", "mr", "dma"}} :
       \E refs \in IF Named THEN {{}} ELSE IF got = {} THEN {{}, {"ref"}} ELSE {{"ref"}} :
         Setup(got, refs)

-----------------------------------------------------------------------------
(* Unloading, and undoing a load that failed.                               *)

ExitRamFirst ==
    IF drv = "urma"
      THEN <<"queue", "ram", "added", "disk", "tags", "seg", "token", "ub_dev", "dev", "major">>
      ELSE <<"ram", "added", "disk", "tags", "dma", "mr", "pd", "ib_dev", "dev", "major">>

\* urma_blkdev_exit stops the direct-IO queue first (see UrmaBlkQueue).
ExitOrder ==
    IF drv = "urma"
      THEN <<"queue", "added", "disk", "tags", "seg", "token", "ub_dev", "ram", "dev", "major">>
      ELSE <<"added", "disk", "tags", "dma", "mr", "pd", "ib_dev", "ram", "dev", "major">>

Exit ==
    /\ mpc = "live"
    /\ todo' = ExitOrder
    /\ mpc' = "undo"
    /\ UNCHANGED <<drv, par, held, ptrs, drvdata, io, readers, misuse>>

\* del_gendisk returns: nobody is inside a show function, no request is under way.
Drained == shows = {} /\ \A t \in Tags : rq[t] = NULL

\* A part of the transport is released if its pointer is not NULL.
Undo ==
    /\ mpc = "undo" /\ todo # <<>>
    /\ LET part == Head(todo)
           skip == part \in Transport \ ptrs
       IN  /\ part = "added" => Drained
           /\ held' = held \ (IF skip THEN {} ELSE {part})
           /\ ptrs' = ptrs \ {part}
           /\ drvdata' = (drvdata /\ part # "disk")
           /\ misuse' = (misuse \/ (~skip /\ part \notin held))
           /\ IF part = "ram" THEN mem' = Blank(par) /\ content' = Blank(par)
              ELSE UNCHANGED <<mem, content>>
    /\ todo' = Tail(todo)
    /\ UNCHANGED <<drv, par, mpc, rq, readers>>

Out ==
    /\ mpc = "undo" /\ todo = <<>>
    /\ mpc' = "out"
    /\ UNCHANGED <<drv, par, todo, held, ptrs, drvdata, io, readers, misuse>>

-----------------------------------------------------------------------------
(* Block requests.                                                          *)

\* set_capacity, in sectors.
CapacitySectors == par.size
Capacity == par.size \div par.bs

Sectors(r) == r.pos .. r.pos + r.n - 1

Conflict(r, s) ==
    (r.dir = "WRITE" \/ s.dir = "WRITE") /\ Sectors(r) \cap Sectors(s) # {}

\* The offset of base_addr: a sector is multiplied by logical_block_size.
Base(r) == r.pos * par.bs

\* What the block layer may send (external), from add_disk to del_gendisk.
Sent ==
    LET blocks == {k \in 0 .. Capacity : k % par.bs = 0}
        all == [dir : {"WRITE"}, pos : blocks, n : blocks \ {0}, val : Vals]
                 \cup [dir : {"READ"}, pos : blocks, n : blocks \ {0}, val : {0}]
    IN  {r \in all : r.n <= MaxSectors /\ r.pos + r.n <= Capacity /\
                      \A t \in Tags : rq[t] # NULL => ~Conflict(r, rq[t])}

Reachable == "added" \in held /\ (mpc = "undo" => Head(todo) # "added")

\* queue_rq up to its loop.  A request beyond the device is completed, and then
\* also refused, which makes the block layer complete it again.
QueueRq(t) ==
    /\ Reachable
    /\ rq[t] = NULL /\ \A u \in Tags : u < t => rq[u] # NULL
    /\ \E r \in Sent :
         rq' = [rq EXCEPT ![t] = [dir |-> r.dir, pos |-> r.pos, n |-> r.n, val |-> r.val,
                                  data |-> <<>>,
                                  ends |-> IF Base(r) + r.n > par.size THEN 2 ELSE 0]]
    /\ UNCHANGED <<module, mem, content, readers, misuse>>

CopyAtBase(t) ==
    /\ rq[t] # NULL /\ rq[t].ends = 0
    /\ Len(rq[t].data) < rq[t].n
    /\ LET at == Base(rq[t])
           there == {"ram", "dev"} \subseteq held /\ at \in DOMAIN mem
           val == IF rq[t].dir = "READ" /\ there THEN mem[at] ELSE rq[t].val
       IN  /\ misuse' = (misuse \/ ~there)
           /\ mem' = IF rq[t].dir = "WRITE" /\ there THEN [mem EXCEPT ![at] = val] ELSE mem
           /\ rq' = [rq EXCEPT ![t].data = Append(@, val)]
    /\ UNCHANGED <<module, content, readers>>

CopyPastEnd(t) ==
    /\ rq[t] # NULL /\ rq[t].ends = 0
    /\ Len(rq[t].data) <= rq[t].n
    /\ LET at == Base(rq[t]) + Len(rq[t].data)
           there == {"ram", "dev"} \subseteq held /\ at \in DOMAIN mem
           val == IF rq[t].dir = "READ" /\ there THEN mem[at] ELSE rq[t].val
       IN  /\ misuse' = (misuse \/ ~there)
           /\ mem' = IF rq[t].dir = "WRITE" /\ there THEN [mem EXCEPT ![at] = val] ELSE mem
           /\ rq' = [rq EXCEPT ![t].data = Append(@, val)]
    /\ UNCHANGED <<module, content, readers>>

\* One segment of rq_for_each_segment.
CopySegment(t) ==
    /\ rq[t] # NULL /\ rq[t].ends = 0
    /\ Len(rq[t].data) < rq[t].n
    /\ LET at == Base(rq[t]) + Len(rq[t].data)
           there == {"ram", "dev"} \subseteq held /\ at \in DOMAIN mem
           val == IF rq[t].dir = "READ" /\ there THEN mem[at] ELSE rq[t].val
       IN  /\ misuse' = (misuse \/ ~there)
           /\ mem' = IF rq[t].dir = "WRITE" /\ there THEN [mem EXCEPT ![at] = val] ELSE mem
           /\ rq' = [rq EXCEPT ![t].data = Append(@, val)]
    /\ UNCHANGED <<module, content, readers>>

CompleteWrites(t) ==
    /\ rq[t] # NULL /\ rq[t].ends = 0 /\ Len(rq[t].data) = rq[t].n
    /\ rq' = [rq EXCEPT ![t] = IF @.dir = "WRITE" THEN NULL ELSE @]
    /\ content' = [s \in DOMAIN content |->
                     IF rq[t].dir = "WRITE" /\ s \in Sectors(rq[t]) THEN rq[t].val ELSE content[s]]
    /\ UNCHANGED <<module, mem, readers, misuse>>

\* complete_request after the loop.
Complete(t) ==
    /\ rq[t] # NULL /\ rq[t].ends = 0 /\ Len(rq[t].data) = rq[t].n
    /\ rq' = [rq EXCEPT ![t] = NULL]
    /\ content' = [s \in DOMAIN content |->
                     IF rq[t].dir = "WRITE" /\ s \in Sectors(rq[t]) THEN rq[t].val ELSE content[s]]
    /\ UNCHANGED <<module, mem, readers, misuse>>

-----------------------------------------------------------------------------
(* Readers of the attributes.                                               *)

\* External: sysfs calls a show function while the disk is added.
ShowBegin(p) ==
    /\ Reachable /\ p \notin shows
    /\ shows' = shows \cup {p}
    /\ UNCHANGED <<module, io, oops, misuse>>

\* The show functions read the device through drvdata.  Those of kernel-urma
\* check it for NULL.  Those of kernel do not, and there it is never set: the
\* reader dies inside the function.
ShowEnd(p) ==
    /\ p \in shows
    /\ IF drv = "rdma" /\ ~drvdata THEN oops' = TRUE /\ UNCHANGED <<shows, misuse>>
       ELSE /\ shows' = shows \ {p}
            /\ misuse' = (misuse \/ (drvdata /\ "dev" \notin held))
            /\ UNCHANGED oops
    /\ UNCHANGED <<module, io>>

-----------------------------------------------------------------------------
Init ==
    /\ drv \in Drivers /\ par \in Params
    /\ mpc = "out" /\ todo = <<>> /\ held = {} /\ ptrs = {} /\ drvdata = FALSE
    /\ mem = Blank(par) /\ content = Blank(par)
    /\ rq = [t \in Tags |-> NULL]
    /\ shows = {} /\ oops = FALSE /\ misuse = FALSE

Module == LoadPart \/ SetupUrma \/ SetupRdma \/ Undo \/ Out
Copies(t) == CopySegment(t) \/ Complete(t)

Next ==
    \/ Load \/ Module \/ Exit
    \/ \E t \in Tags : QueueRq(t) \/ Copies(t)
    \/ \E p \in Readers : ShowBegin(p) \/ ShowEnd(p)

Spec == Init /\ [][Next]_vars

\* Loading and unloading go on, and so do requests and readers that have begun.
FairSpec ==
    /\ Spec
    /\ WF_vars(Module)
    /\ WF_vars((\E t \in Tags : Copies(t)) \/ (\E p \in Readers : ShowEnd(p)))

-----------------------------------------------------------------------------
\* Every variable has its type, and the ladder is where mpc says.
TypeOK ==
    /\ drv \in Drivers /\ par \in Params
    /\ mpc \in {"out", "undo", "live"} \cup {Ladder[i] : i \in DOMAIN Ladder}
    /\ mpc # "undo" => todo = <<>>
    /\ mpc = "live" => {"major", "dev", "ram", "tags", "disk", "added"} \subseteq held
    /\ ptrs \subseteq Transport
    /\ {mem, content} \subseteq [0 .. par.size - 1 -> Vals]
    /\ \A t \in Tags : rq[t] # NULL => "added" \in held /\ Len(rq[t].data) <= rq[t].n

\* What a resource was created from, or refers to.
Needs(x) ==
    CASE x = "queue" -> {"dev"}
      [] x = "seg" -> {"token", "ub_dev", "ram"}
      [] x = "token" -> {"ub_dev"}
      [] x = "dma" -> {"ib_dev", "ram"}
      [] x = "mr" -> {"pd"}
      [] x = "pd" -> {"ib_dev"}
      [] x = "added" -> {"disk"}
      [] x = "disk" -> {"tags", "dev", "ram", "major"}
      [] OTHER -> {}

\* On every path through init, its error labels and exit a resource outlives
\* what was made from it: a registered segment or a mapping its memory, the
\* disk its tag set and the ramdisk.
Grounded == \A x \in held : Needs(x) \subseteq held

\* Whichever part of init fails, and after every unload, nothing stays
\* acquired (for kernel: when ib_dev_name names the device).
NothingLeft == mpc = "out" => held = {} /\ ptrs = {}

\* No request copies to or from memory that is not there, no show function
\* reads a freed device, and nothing is released twice.
NoMisuse == ~misuse

\* The range check of queue_rq never fails for a request within the capacity,
\* whatever the block size: its error path would complete the request twice.
CompletedOnce == \A t \in Tags : rq[t] # NULL => rq[t].ends <= 1

\* Sector s is not being written.
Quiet(s) == \A t \in Tags : rq[t] # NULL /\ rq[t].dir = "WRITE" => s \notin Sectors(rq[t])

\* With sectors as logical blocks, the default, a read returns what the
\* completed writes have put there, while other requests are copied next to it.
ReadsReturnWrites ==
    par.bs = 1 =>
      \A t \in Tags : rq[t] # NULL /\ rq[t].dir = "READ" =>
        \A i \in 1 .. Len(rq[t].data) : rq[t].data[i] = content[rq[t].pos + i - 1]

\* README, "LBA to address": mem_addr = ramdisk_addr + lba * logical_block_size,
\* the address map_io gives the direct path: that memory holds what was
\* written to the block.
LbaAddressed ==
    "added" \in held =>
      \A s \in 0 .. Capacity - 1 : Quiet(s) => mem[s] = content[s]

\* An unload, or the undoing of a failed load, comes to its end, unless a reader
\* has died inside a show function.
UnloadEnds == mpc = "undo" ~> mpc = "out" \/ oops
=============================================================================
