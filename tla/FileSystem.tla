----------------------------- MODULE FileSystem -----------------------------
(***************************************************************************)
(* The CP/M-style file system of src/fs/fs.c, with its callers in bios.c   *)
(* (DEL, the compilers, SELDISK, WRITE) and api.c (tos_disk_put_file,      *)
(* tos_disk_reload), over the disk images the HAL loads and saves.         *)
(*                                                                         *)
(* Every function runs to its end before the next is called, so each is    *)
(* one action; callers that flush do so within theirs.  A unit of data is  *)
(* a sector; a name is an element of Names, parsed already.                *)
(*                                                                         *)
(* Abstracted: malformed names, the extent and record bytes, images        *)
(* shorter than a disk, more disks than DiskCount, and directory sectors   *)
(* forged by a program (it may only wipe one).  fs_read's and fs_get_file's *)
(* result is Contents.                                                     *)
(***************************************************************************)
EXTENDS Integers, Sequences, FiniteSets

CONSTANTS
  DiskCount,    \* cfg.disks
  Names,        \* file names
  Data,         \* contents of a sector
  DirSize,      \* FS_DIR_ENTRIES
  BlockCount,   \* FS_BLOCK_COUNT, with block 0, the directory
  EntryBlocks,  \* FS_ENTRY_BLOCKS
  Units,        \* sectors in a block
  HandleCount,  \* FS_OPEN_MAX
  FileContents, \* contents the clients put, create and write
  ReadSizes,    \* lengths they read
  SectorData,   \* what programs write into data sectors
  Delivered,    \* [name, contents] of the one file disks come with
  TornAt,       \* whole blocks of an image that reach the host when a save fails half way
  LastHandle,   \* do clients keep the last handle?
  MaxCalls      \* bound: calls of the file system

Zero == 0
ASSUME FileSystemAssumption ==
  /\ DiskCount \in Nat \ {0} /\ DirSize \in Nat \ {0} /\ BlockCount \in Nat \ {0}
  /\ EntryBlocks \in Nat \ {0} /\ Units \in Nat \ {0} /\ HandleCount \in Nat \ {0}
  /\ Names \subseteq STRING /\ Zero \in Data /\ Data \subseteq Nat
  /\ FileContents \subseteq Seq(Data) /\ ReadSizes \subseteq Nat /\ SectorData \subseteq Data
  /\ Delivered \subseteq [name : Names, contents : FileContents]
  /\ TornAt \subseteq 0..(BlockCount - 1)
  /\ LastHandle \in BOOLEAN /\ MaxCalls \in Nat

VARIABLES
  image,        \* g_img: [dir, data] of each disk
  dirty,        \* g_dirty
  stored,       \* the host's copy of each disk: {} or {an image}
  selected,     \* g_selected
  table,        \* g_open; name is history: the file the handle was opened on
  kept,         \* fs_state_save of the last snapshot
  answer,       \* the last call and its result, see FileStore
  calls         \* bookkeeping

vars == <<image, dirty, stored, selected, table, kept, answer, calls>>

Disks == 0..(DiskCount - 1)
Entries == 0..(DirSize - 1)
Blocks == 1..(BlockCount - 1)
Slots == 0..(EntryBlocks - 1)
Offsets == 0..(Units - 1)
Handles == 0..(HandleCount - 1)
FileMax == EntryBlocks * Units
NoName == ""
NoBlock == 0
None == -1
Least(S) == IF S = {} THEN None ELSE CHOOSE x \in S : \A y \in S : x <= y
Larger(x, y) == IF x > y THEN x ELSE y

---------------------------------------------------------------------------
(* Images: the directory, allocation, and reading and writing one file.    *)

Deleted == [active |-> FALSE, name |-> NoName, len |-> 0, alloc |-> [s \in Slots |-> NoBlock]]
ZeroBlock == [o \in Offsets |-> Zero]
Formatted == [dir |-> [i \in Entries |-> Deleted], data |-> [b \in Blocks |-> ZeroBlock]]

Active(im) == {i \in Entries : im.dir[i].active}
Find(im, n) == Least({i \in Active(im) : im.dir[i].name = n})
FreeEntry(im) == Least(Entries \ Active(im))

HeldBy(im, i) == {im.dir[i].alloc[s] : s \in Slots} \ {NoBlock}
UsedLastSlotMissed(im) ==                    \* mutated: j stops one short
  UNION {{im.dir[i].alloc[s] : s \in Slots \ {EntryBlocks - 1}} \ {NoBlock} : i \in Active(im)}
Used(im) == UNION {HeldBy(im, i) : i \in Active(im)}
AllocBlockPastEnd(im) == Least((Blocks \cup {BlockCount}) \ Used(im))  \* mutated: <= for <
AllocBlock(im) == Least(Blocks \ Used(im))
FreeBlocks(im) == Cardinality(Blocks \ Used(im))
EntryBlockCount(im, i) == Cardinality({s \in Slots : im.dir[i].alloc[s] # NoBlock})

\* fs_copy_out from the start of the file: up to its length or a missing block.
Contents(im, i) ==
  LET e == im.dir[i]
      size == Least({e.len} \cup {s * Units : s \in {t \in Slots : e.alloc[t] = NoBlock}})
  IN [k \in 1..size |-> im.data[e.alloc[(k - 1) \div Units]][(k - 1) % Units]]

Erased(im, i) == [im EXCEPT !.dir[i] = Deleted]
Created(im, i, n) == [im EXCEPT !.dir[i] = [Deleted EXCEPT !.active = TRUE, !.name = n]]

\* One sector of fs_write: find or allocate its block, which is zeroed first.
WriteUnit(w, v) ==
  LET slot == w.pos \div Units
      old == w.im.dir[w.i].alloc[slot]
      block == IF old # NoBlock THEN old ELSE AllocBlock(w.im)
      before == IF old # NoBlock THEN w.im.data[block] ELSE ZeroBlock
  IN IF w.full \/ w.pos >= FileMax \/ block = None THEN [w EXCEPT !.full = TRUE]
     ELSE [w EXCEPT !.im.dir[w.i].alloc[slot] = block,
                    !.im.data[block] = [before EXCEPT ![w.pos % Units] = v],
                    !.pos = @ + 1]
Written(im, i, pos, c) ==
  LET after[n \in 0..Len(c)] ==
        IF n = 0 THEN [im |-> im, i |-> i, pos |-> pos, full |-> FALSE]
        ELSE WriteUnit(after[n - 1], c[n])
      w == after[Len(c)]
  IN [im |-> [w.im EXCEPT !.dir[i].len = Larger(@, w.pos)], total |-> w.pos - pos]

---------------------------------------------------------------------------
(* The open table.                                                         *)

Closed == [used |-> FALSE, disk |-> 0, index |-> 0, pos |-> 0, name |-> NoName]
FreeHandle(t) == Least({h \in Handles : ~t[h].used})
Opened(t, h, d, i, n) ==
  [t EXCEPT ![h] = [used |-> TRUE, disk |-> d, index |-> i, pos |-> 0, name |-> n]]

\* fs_handles_drop, and fs_handles_prune of what an image no longer has.
DroppedNone(t, d, gone) == t                 \* mutated: handles outlive the file
Dropped(t, d, gone) ==
  [h \in Handles |-> IF t[h].used /\ t[h].disk = d /\ t[h].index \in gone THEN Closed ELSE t[h]]
Pruned(t, d, im) == Dropped(t, d, Entries \ Active(im))

NoHandles == \A h \in Handles : ~table[h].used

\* fs_handle_entry
Usable(h) == table[h].used /\ table[h].index \in Active(image[table[h].disk])

---------------------------------------------------------------------------
(* fs_put_file on disk d, as a function of its state: what it leaves of the *)
(* image and the open table, whether it made the disk dirty, its result.   *)

BlocksFor(c) == (Len(c) + Units - 1) \div Units

PutNew(im, n, c) ==
  LET i == FreeEntry(im)
      w == Written(Created(im, i, n), i, 0, c) IN
  IF w.total = Len(c) THEN [im |-> w.im, ok |-> TRUE] ELSE [im |-> Erased(w.im, i), ok |-> FALSE]

TooBigUnchecked(im, old, c) == Len(c) > FileMax    \* mutated: deletes before it knows
TooBig(im, old, c) ==
  Len(c) > FileMax \/ (old # None /\ BlocksFor(c) > FreeBlocks(im) + EntryBlockCount(im, old))
PutFile(d, n, c) ==
  LET im == image[d]
      old == Find(im, n)
      refused == TooBig(im, old, c)
      cleared == IF old = None THEN im ELSE Erased(im, old)
      dropped == IF old = None THEN table ELSE Dropped(table, d, {old})
      create == FreeEntry(cleared) # None /\ FreeHandle(dropped) # None
      new == PutNew(cleared, n, c)
  IN IF refused THEN [im |-> im, t |-> table, touched |-> FALSE, ok |-> FALSE]
     ELSE IF create THEN [im |-> new.im, t |-> dropped, touched |-> TRUE, ok |-> new.ok]
     ELSE [im |-> cleared, t |-> dropped, touched |-> old # None, ok |-> FALSE]

---------------------------------------------------------------------------
(* fs_flush and the HAL.                                                   *)

\* hal_disk_save truncates the host's file before it writes: a save can fail
\* with nothing done, or with the first k blocks written, the rest read as zero.
Torn(im, k) ==
  IF k = 0 THEN {}
  ELSE {[im EXCEPT !.data = [b \in Blocks |-> IF b < k THEN @[b] ELSE ZeroBlock]]}
SaveResults(im, old) ==
  {[copy |-> {im}, ok |-> TRUE], [copy |-> old, ok |-> FALSE]}
  \cup {[copy |-> Torn(im, k), ok |-> FALSE] : k \in TornAt}

FlushedAnyway(im, dt) ==                     \* mutated: a failed save is not looked at
  \E r \in [Disks -> UNION {SaveResults(im[d], stored[d]) : d \in Disks}] :
    /\ \A d \in Disks : r[d] \in SaveResults(im[d], stored[d])
    /\ stored' = [d \in Disks |-> IF dt[d] THEN r[d].copy ELSE stored[d]]
    /\ dirty' = [d \in Disks |-> FALSE]
Flushed(im, dt) ==
  \E r \in [Disks -> UNION {SaveResults(im[d], stored[d]) : d \in Disks}] :
    /\ \A d \in Disks : r[d] \in SaveResults(im[d], stored[d])
    /\ stored' = [d \in Disks |-> IF dt[d] THEN r[d].copy ELSE stored[d]]
    /\ dirty' = [d \in Disks |-> dt[d] /\ ~r[d].ok]

\* fs_init: images from the host, or a formatted one that is to be saved.
Loaded(copies) == [d \in Disks |-> IF copies[d] = {} THEN Formatted ELSE CHOOSE im \in copies[d] : TRUE]
AllClosed == [h \in Handles |-> Closed]

---------------------------------------------------------------------------
(* The calls.                                                              *)

Answer(op, d, n, arg, ok) == [op |-> op, disk |-> d, name |-> n, arg |-> arg, ok |-> ok]
NoAnswer == Answer("NONE", 0, NoName, <<>>, TRUE)

Call == calls < MaxCalls /\ calls' = calls + 1
Quietly == answer' = NoAnswer

\* Disks as mkdisk delivers them: formatted, or with one file.
DeliveredDisks == {Formatted} \cup {PutNew(Formatted, f.name, f.contents).im : f \in Delivered}

Init ==
  /\ stored \in [Disks -> {{}} \cup {{im} : im \in DeliveredDisks}]
  /\ image = Loaded(stored) /\ dirty = [d \in Disks |-> stored[d] = {}]
  /\ selected = 0 /\ table = AllClosed
  /\ kept = [selected |-> 0, table |-> AllClosed]
  /\ answer = NoAnswer /\ calls = 0

\* fs_init again: tos_reset, a machine lever, or a new process after a crash.
Restart ==
  /\ Call /\ answer' = Answer("IMAGE", 0, NoName, <<>>, TRUE)
  /\ image' = Loaded(stored) /\ dirty' = [d \in Disks |-> stored[d] = {}]
  /\ selected' = 0 /\ table' = AllClosed
  /\ kept' = [selected |-> 0, table |-> AllClosed]
  /\ UNCHANGED stored

SelectDisk(d) ==
  /\ Call /\ Quietly
  /\ selected' = d
  /\ UNCHANGED <<image, dirty, stored, table, kept>>

\* Clients leave one handle to fs_put_file, unless LastHandle.
HandleToSpare == LastHandle \/ Cardinality({h \in Handles : ~table[h].used}) > 1

Open(n) ==
  /\ Call /\ Quietly /\ HandleToSpare
  /\ LET i == Find(image[selected], n)
         h == FreeHandle(table) IN
     /\ i # None /\ h # None
     /\ table' = Opened(table, h, selected, i, n)
  /\ UNCHANGED <<image, dirty, stored, selected, kept>>

Create(n) ==
  /\ Call /\ HandleToSpare
  /\ LET im == image[selected]
         i == FreeEntry(im)
         h == FreeHandle(table)
         ok == Find(im, n) = None /\ i # None /\ h # None IN
     /\ answer' = Answer("CREATE", selected, n, <<>>, ok)
     /\ image' = IF ok THEN [image EXCEPT ![selected] = Created(im, i, n)] ELSE image
     /\ table' = IF ok THEN Opened(table, h, selected, i, n) ELSE table
     /\ dirty' = IF ok THEN [dirty EXCEPT ![selected] = TRUE] ELSE dirty
  /\ UNCHANGED <<stored, selected, kept>>

Read(h, len) ==
  /\ Call /\ Quietly /\ Usable(h)
  /\ LET size == Len(Contents(image[table[h].disk], table[h].index)) IN
       table' = [table EXCEPT ![h].pos = IF @ + len < size THEN @ + len ELSE Larger(@, size)]
  /\ UNCHANGED <<image, dirty, stored, selected, kept>>

Write(h, c) ==
  /\ Call /\ Usable(h) /\ c # <<>>
  /\ LET t == table[h]
         w == Written(image[t.disk], t.index, t.pos, c) IN
     /\ answer' = Answer("WRITE", t.disk, t.name, c, w.total > 0)
     /\ image' = [image EXCEPT ![t.disk] = w.im]
     /\ dirty' = [dirty EXCEPT ![t.disk] = @ \/ w.total > 0]
     /\ table' = [table EXCEPT ![h].pos = @ + w.total]
  /\ UNCHANGED <<stored, selected, kept>>

Close(h) ==
  /\ Call /\ Quietly /\ table[h].used
  /\ table' = [table EXCEPT ![h] = Closed]
  /\ UNCHANGED <<image, dirty, stored, selected, kept>>

\* svc_del: fs_delete and, if there was such a file, fs_flush.
Delete(n) ==
  /\ Call
  /\ LET im == image[selected]
         i == Find(im, n) IN
     /\ answer' = Answer("DELETE", selected, n, <<>>, i # None)
     /\ IF i = None THEN UNCHANGED <<image, table, dirty, stored>>
        ELSE /\ image' = [image EXCEPT ![selected] = Erased(im, i)]
             /\ table' = Dropped(table, selected, {i})
             /\ Flushed(image', [dirty EXCEPT ![selected] = TRUE])
  /\ UNCHANGED <<selected, kept>>

\* tos_disk_put_file: on any disk, without a flush.
Put(d, n, c) ==
  /\ Call
  /\ LET r == PutFile(d, n, c) IN
     /\ answer' = Answer("PUT", d, n, c, r.ok)
     /\ image' = [image EXCEPT ![d] = r.im] /\ table' = r.t
     /\ dirty' = [dirty EXCEPT ![d] = @ \/ r.touched]
  /\ UNCHANGED <<stored, selected, kept>>

\* svc_compile, once there is a program to write: fs_put_file and fs_flush.
Compile(n, c) ==
  /\ Call
  /\ LET r == PutFile(selected, n, c) IN
     /\ answer' = Answer("PUT", selected, n, c, r.ok)
     /\ image' = [image EXCEPT ![selected] = r.im] /\ table' = r.t
     /\ LET dt == [dirty EXCEPT ![selected] = @ \/ r.touched] IN
          IF r.ok THEN Flushed(image', dt) ELSE dirty' = dt /\ UNCHANGED stored
  /\ UNCHANGED <<selected, kept>>

\* fs_write_sector: a sector of a data block, or of the directory.
WriteSector(b, o, v) ==
  /\ Call /\ answer' = Answer("SECTOR", selected, NoName, <<>>, TRUE)
  /\ image' = [image EXCEPT ![selected].data[b][o] = v]
  /\ dirty' = [dirty EXCEPT ![selected] = TRUE]
  /\ UNCHANGED <<stored, selected, table, kept>>
WipeEntry(i) ==
  /\ Call /\ answer' = Answer("SECTOR", selected, NoName, <<>>, TRUE)
  /\ image' = [image EXCEPT ![selected] = Erased(@, i)]
  /\ dirty' = [dirty EXCEPT ![selected] = TRUE]
  /\ table' = Pruned(table, selected, image'[selected])
  /\ UNCHANGED <<stored, selected, kept>>

\* The host writes another image through tos_disk_ptr and calls tos_disk_reload,
\* between two calls of the machine: the BIOS has closed its handles by then.
Reload(d, im) ==
  /\ Call /\ NoHandles /\ answer' = Answer("IMAGE", d, NoName, <<>>, TRUE)
  /\ image' = [image EXCEPT ![d] = im]
  /\ table' = Pruned(table, d, im)
  /\ dirty' = [dirty EXCEPT ![d] = TRUE]
  /\ UNCHANGED <<stored, selected, kept>>

Flush ==
  /\ Call /\ Quietly
  /\ Flushed(image, dirty)
  /\ UNCHANGED <<image, selected, table, kept>>

\* snapshot_save and snapshot_restore: selection and open table, not the images.
\* Snapshots are taken between two instructions too, with no handle open.
SaveState ==
  /\ Call /\ Quietly /\ NoHandles
  /\ kept' = [selected |-> selected, table |-> table]
  /\ UNCHANGED <<image, dirty, stored, selected, table>>
LoadState ==
  /\ Call /\ Quietly
  /\ selected' = kept.selected /\ table' = kept.table
  /\ UNCHANGED <<image, dirty, stored, kept>>

HandleCall ==
  \/ \E n \in Names : Open(n) \/ Create(n)
  \/ \E h \in Handles : Close(h) \/ (\E len \in ReadSizes : Read(h, len))
                                \/ (\E c \in FileContents : Write(h, c))
BiosCall ==
  \/ \E d \in Disks : SelectDisk(d)
  \/ \E n \in Names : Delete(n) \/ (\E c \in FileContents : Compile(n, c))
  \/ \E b \in Blocks, o \in Offsets, v \in SectorData : WriteSector(b, o, v)
  \/ \E i \in Entries : WipeEntry(i)
HostCall ==
  \/ \E d \in Disks, n \in Names, c \in FileContents : Put(d, n, c)
  \/ \E d \in Disks, im \in DeliveredDisks : Reload(d, im)
  \/ Flush \/ Restart \/ SaveState \/ LoadState

Next == HandleCall \/ BiosCall \/ HostCall
Spec == Init /\ [][Next]_vars

---------------------------------------------------------------------------
(* Properties.                                                             *)

Files(im) == [n \in {im.dir[i].name : i \in Active(im)} |-> Contents(im, Find(im, n))]
Store == INSTANCE FileStore WITH files <- [d \in Disks |-> Files(image[d])]

EntryRecords == [active : BOOLEAN, name : Names \cup {NoName}, len : 0..FileMax,
                 alloc : [Slots -> Blocks \cup {NoBlock}]]
Images == [dir : [Entries -> EntryRecords], data : [Blocks -> [Offsets -> Data]]]
HandleRecords == [used : BOOLEAN, disk : Disks, index : Entries, pos : 0..FileMax,
                  name : Names \cup {NoName}]
Tables == [Handles -> HandleRecords]

\* Every variable stays in its type: lengths and positions within one extent,
\* block numbers within the image.
TypeOK ==
  /\ image \in [Disks -> Images] /\ dirty \in [Disks -> BOOLEAN]
  /\ \A d \in Disks : stored[d] \subseteq Images /\ Cardinality(stored[d]) <= 1
  /\ selected \in Disks /\ table \in Tables
  /\ kept \in [selected : Disks, table : Tables]
  /\ answer \in [op : Store!Ops, disk : Disks, name : Names \cup {NoName}, arg : Seq(Data),
                 ok : BOOLEAN]
  /\ calls \in 0..MaxCalls

\* A directory is sound: names are unique, no block is in two files or twice in
\* one, and every file has the blocks its length covers (fs_alloc_block reads
\* what is free from the directory each time, there is no free list).
SoundImage(im) ==
  /\ \A i, j \in Active(im) : i # j =>
       im.dir[i].name # im.dir[j].name /\ HeldBy(im, i) \cap HeldBy(im, j) = {}
  /\ \A i \in Active(im) :
       /\ EntryBlockCount(im, i) = Cardinality(HeldBy(im, i))
       /\ \A p \in 0..(im.dir[i].len - 1) : im.dir[i].alloc[p \div Units] # NoBlock
DirectorySound == \A d \in Disks : SoundImage(image[d]) /\ \A im \in stored[d] : SoundImage(im)

\* An open handle is on the file it was opened on, within its length, whatever
\* deletes, puts, sector writes and resets came between.
HandlesLive ==
  \A h \in Handles : table[h].used =>
    LET im == image[table[h].disk] IN
    /\ table[h].index \in Active(im)
    /\ im.dir[table[h].index].name = table[h].name
    /\ table[h].pos <= im.dir[table[h].index].len

\* A disk that is not dirty is on the host as it is (fs_flush, fs_init): what a
\* crash or a reset can lose is on a dirty disk.
CleanIsStored == \A d \in Disks : ~dirty[d] => stored[d] = {image[d]}

\* The file system implements a store of named contents.
StoreSpec == Store!Spec

\* fs_put_file: overwriting must not destroy the file it replaces.
FailedPutHarmless ==
  [][answer'.op = "PUT" /\ ~answer'.ok =>
       Files(image'[answer'.disk]) = Files(image[answer'.disk])]_vars
=============================================================================
