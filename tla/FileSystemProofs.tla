-------------------------- MODULE FileSystemProofs --------------------------
(***************************************************************************)
(* Proofs about FileSystem.tla for every value of its constants.           *)
(***************************************************************************)
EXTENDS FileSystem, Induction, FiniteSetTheorems, SequenceTheorems

---------------------------------------------------------------------------
(* The inductive invariant.                                                *)

\* SoundImage without counting: a block is in one slot of one file.
NamesOnce(im) ==
  /\ \A i \in Active(im) : im.dir[i].name \in Names
  /\ \A i, j \in Active(im) : im.dir[i].name = im.dir[j].name => i = j
BlocksOnce(im) ==
  \A i, j \in Active(im), s, t \in Slots :
    im.dir[i].alloc[s] # NoBlock /\ im.dir[i].alloc[s] = im.dir[j].alloc[t] => i = j /\ s = t
Covered(im) ==
  \A i \in Active(im) : \A p \in 0..(im.dir[i].len - 1) : im.dir[i].alloc[p \div Units] # NoBlock
SoundImages == {im \in Images : NamesOnce(im) /\ BlocksOnce(im) /\ Covered(im)}

\* The host has a sound image of a disk, or none.
OneCopy(copies) == copies \subseteq SoundImages /\ \A x, y \in copies : x = y

\* HandlesLive of any open table and images.
Live(t, ims) ==
  \A h \in Handles : t[h].used =>
    LET im == ims[t[h].disk] IN
    /\ t[h].index \in Active(im)
    /\ im.dir[t[h].index].name = t[h].name
    /\ t[h].pos <= im.dir[t[h].index].len

\* CleanIsStored of any images and marks.
Clean(ims, dt) == \A d \in Disks : ~dt[d] => stored[d] = {ims[d]}

Control ==
  /\ selected \in Disks
  /\ kept \in [selected : Disks, table : Tables] /\ \A h \in Handles : ~kept.table[h].used
  /\ answer \in [op : Store!Ops, disk : Disks, name : Names \cup {NoName}, arg : Seq(Data),
                 ok : BOOLEAN]
  /\ calls \in 0..MaxCalls
Stores ==
  /\ image \in [Disks -> SoundImages] /\ dirty \in [Disks -> BOOLEAN]
  /\ \A d \in Disks : OneCopy(stored[d])
  /\ Clean(image, dirty)
Opens == table \in Tables /\ Live(table, image)
Inv == Control /\ Stores /\ Opens

---------------------------------------------------------------------------
(* Searching: the least index, or none.                                    *)

\* A file's largest length is a number.
LEMMA FileMaxType == FileMax \in Nat
BY FileSystemAssumption DEF FileSystemAssumption, FileMax

\* A block's slot and offset: a position of a file is in its extent.
LEMMA SlotOf ==
  ASSUME NEW p \in 0..(FileMax - 1)
  PROVE  p \div Units \in Slots /\ p % Units \in Offsets
<1>1. ASSUME NEW u \in Nat \ {0}, NEW e \in Nat \ {0}, NEW q \in 0..(e * u - 1)
      PROVE  q \div u \in 0..(e - 1) /\ q % u \in 0..(u - 1)
  OBVIOUS
<1> QED BY <1>1, FileSystemAssumption DEF FileSystemAssumption, FileMax, Slots, Offsets

\* The loops that look for the first free or matching index find one if there is one.
LEMMA LeastIs ==
  ASSUME NEW S, S \subseteq Nat
  PROVE  /\ Least(S) = None <=> S = {}
         /\ Least(S) # None => Least(S) \in S /\ \A y \in S : Least(S) <= y
<1>1. CASE S = {}
  BY <1>1 DEF Least
<1>2. CASE S # {}
  <2>1. PICK x \in S : \A y \in S : x <= y
    BY <1>2, NatMinimum
  <2>2. Least(S) \in S /\ \A y \in S : Least(S) <= y
    BY <1>2, <2>1 DEF Least
  <2>3. Least(S) # None
    BY <2>2 DEF None
  <2> QED BY <1>2, <2>2, <2>3
<1> QED BY <1>1, <1>2

\* fs_find: the entry of that name, or none has it.
LEMMA FindIs ==
  ASSUME NEW im, NEW n
  PROVE  \/ Find(im, n) = None /\ \A i \in Active(im) : im.dir[i].name # n
         \/ Find(im, n) # None /\ Find(im, n) \in Active(im) /\ im.dir[Find(im, n)].name = n
<1> DEFINE S == {i \in Active(im) : im.dir[i].name = n}
<1>1. S \subseteq Nat
  BY DEF Active, Entries
<1>2. Least(S) = None \/ Least(S) \in S
  BY <1>1, LeastIs
<1>3. Least(S) = None => S = {}
  BY <1>1, LeastIs
<1> QED BY <1>2, <1>3 DEF Find

\* fs_free_entry: an entry that is not in use, or none.
LEMMA FreeEntryIs ==
  ASSUME NEW im, FreeEntry(im) # None
  PROVE  FreeEntry(im) \in Entries /\ FreeEntry(im) \notin Active(im)
<1>1. Entries \ Active(im) \subseteq Nat
  BY DEF Entries
<1> QED BY <1>1, LeastIs DEF FreeEntry

\* The first free handle is a handle that is not in use, or none.
LEMMA FreeHandleIs ==
  ASSUME NEW t, FreeHandle(t) # None
  PROVE  FreeHandle(t) \in Handles /\ ~t[FreeHandle(t)].used
<1>1. {h \in Handles : ~t[h].used} \subseteq Nat
  BY DEF Handles
<1> QED BY <1>1, LeastIs DEF FreeHandle

\* fs_alloc_block: a block no file has, or none.
LEMMA AllocBlockIs ==
  ASSUME NEW im, AllocBlock(im) # None
  PROVE  /\ AllocBlock(im) \in Blocks
         /\ \A i \in Active(im), s \in Slots : im.dir[i].alloc[s] # AllocBlock(im)
<1>1. Blocks \ Used(im) \subseteq Nat
  BY DEF Blocks
<1>2. AllocBlock(im) \in Blocks \ Used(im)
  BY <1>1, LeastIs DEF AllocBlock
<1>3. AllocBlock(im) # NoBlock
  BY <1>2 DEF Blocks, NoBlock
<1> QED BY <1>2, <1>3 DEF Used, HeldBy

---------------------------------------------------------------------------
(* Images.                                                                 *)

\* A deleted entry and a fresh one are entries; a zeroed block is a block.
LEMMA EntryTypes ==
  /\ Deleted \in EntryRecords
  /\ \A n \in Names : [Deleted EXCEPT !.active = TRUE, !.name = n] \in EntryRecords
  /\ ZeroBlock \in [Offsets -> Data]
<1>1. FileMax \in Nat
  BY FileMaxType
<1>2. [s \in Slots |-> NoBlock] \in [Slots -> Blocks \cup {NoBlock}]
  OBVIOUS
<1>3. Deleted \in EntryRecords
  BY <1>1, <1>2 DEF Deleted, EntryRecords
<1>4. \A n \in Names : [Deleted EXCEPT !.active = TRUE, !.name = n] \in EntryRecords
  BY <1>3 DEF EntryRecords
<1>5. ZeroBlock \in [Offsets -> Data]
  BY FileSystemAssumption DEF FileSystemAssumption, ZeroBlock
<1> QED BY <1>3, <1>4, <1>5

\* fs_format leaves a sound image with nothing in it.
LEMMA FormattedSound == Formatted \in SoundImages /\ Active(Formatted) = {}
<1>1. Formatted \in Images
  BY EntryTypes DEF Formatted, Images
<1>2. Active(Formatted) = {}
  BY DEF Active, Formatted, Deleted
<1> QED BY <1>1, <1>2 DEF SoundImages, NamesOnce, BlocksOnce, Covered

\* fs_entry_erase: the other files are as they were, and the image is sound.
LEMMA ErasedSound ==
  ASSUME NEW im \in SoundImages, NEW i \in Entries
  PROVE  /\ Erased(im, i) \in SoundImages
         /\ Active(Erased(im, i)) = Active(im) \ {i}
         /\ \A j \in Active(im) \ {i} : Erased(im, i).dir[j] = im.dir[j]
<1> DEFINE new == Erased(im, i)
<1>1. im \in Images
  BY DEF SoundImages
<1>2. new \in Images
  BY <1>1, EntryTypes DEF Erased, Images
<1>3. \A j \in Entries : new.dir[j] = IF j = i THEN Deleted ELSE im.dir[j]
  BY <1>1 DEF Erased, Images
<1>4. Active(new) = Active(im) \ {i}
  BY <1>3 DEF Active, Deleted
<1>5. \A j \in Active(im) \ {i} : new.dir[j] = im.dir[j]
  BY <1>3 DEF Active
<1> HIDE DEF new
<1>6. NamesOnce(new) /\ BlocksOnce(new) /\ Covered(new)
  BY <1>4, <1>5 DEF SoundImages, NamesOnce, BlocksOnce, Covered
<1> QED BY <1>2, <1>4, <1>5, <1>6 DEF SoundImages, new

\* A new entry has no blocks and no length.
LEMMA CreatedSound ==
  ASSUME NEW im \in SoundImages, NEW i \in Entries \ Active(im), NEW n \in Names,
         \A j \in Active(im) : im.dir[j].name # n
  PROVE  /\ Created(im, i, n) \in SoundImages
         /\ Active(Created(im, i, n)) = Active(im) \cup {i}
         /\ \A j \in Active(im) : Created(im, i, n).dir[j] = im.dir[j]
         /\ Created(im, i, n).dir[i].name = n /\ Created(im, i, n).dir[i].len = 0
<1> DEFINE new == Created(im, i, n)
           fresh == [Deleted EXCEPT !.active = TRUE, !.name = n]
<1>1. im \in Images
  BY DEF SoundImages
<1>2. new \in Images
  BY <1>1, EntryTypes DEF Created, Images
<1>3. \A j \in Entries : new.dir[j] = IF j = i THEN fresh ELSE im.dir[j]
  BY <1>1 DEF Created, Images
<1>4. /\ fresh.active /\ fresh.name = n /\ fresh.len = 0
      /\ \A s \in Slots : fresh.alloc[s] = NoBlock
  BY DEF Deleted
<1> HIDE DEF fresh, new
<1>5. Active(new) = Active(im) \cup {i}
  BY <1>3, <1>4 DEF Active
<1>6. (\A j \in Active(im) : new.dir[j] = im.dir[j]) /\ new.dir[i] = fresh
  BY <1>3 DEF Active
<1>7. NamesOnce(new)
  BY <1>4, <1>5, <1>6 DEF SoundImages, NamesOnce
<1>8. BlocksOnce(new)
  BY <1>4, <1>5, <1>6 DEF SoundImages, BlocksOnce
<1>9. Covered(new)
  BY <1>4, <1>5, <1>6 DEF SoundImages, Covered
<1> QED BY <1>2, <1>4, <1>5, <1>6, <1>7, <1>8, <1>9 DEF SoundImages, new

---------------------------------------------------------------------------
(* fs_write, sector by sector.                                             *)

\* What writing to entry i of im from pos on goes through: other fields than the
\* blocks and their contents stay, and what was written is covered.
Writings(im, i, pos) ==
  {w \in [im : SoundImages, i : {i}, pos : pos..FileMax, full : BOOLEAN] :
     /\ \A j \in Entries : /\ w.im.dir[j].active = im.dir[j].active
                          /\ w.im.dir[j].name = im.dir[j].name
                          /\ w.im.dir[j].len = im.dir[j].len
     /\ \A p \in pos..(w.pos - 1) : w.im.dir[i].alloc[p \div Units] # NoBlock
     /\ w.pos = pos => w.im = im}

\* A block of sectors stored in a slot of an entry.
Storing(im, i, slot, block, sectors) ==
  [im EXCEPT !.dir[i].alloc[slot] = block, !.data[block] = sectors]

\* A sector stored in a block that is the entry's or no one's keeps an image sound.
LEMMA SectorStored ==
  ASSUME NEW im \in SoundImages, NEW i \in Active(im), NEW slot \in Slots,
         NEW block \in Blocks, NEW sectors \in [Offsets -> Data],
         \/ im.dir[i].alloc[slot] = block
         \/ /\ im.dir[i].alloc[slot] = NoBlock
            /\ \A j \in Active(im), s \in Slots : im.dir[j].alloc[s] # block
  PROVE  LET new == Storing(im, i, slot, block, sectors) IN
         /\ new \in SoundImages
         /\ \A j \in Entries : /\ new.dir[j].active = im.dir[j].active
                              /\ new.dir[j].name = im.dir[j].name
                              /\ new.dir[j].len = im.dir[j].len
         /\ \A s \in Slots : new.dir[i].alloc[s] = IF s = slot THEN block ELSE im.dir[i].alloc[s]
<1> DEFINE new == Storing(im, i, slot, block, sectors)
<1>1. im \in Images /\ i \in Entries
  BY DEF SoundImages, Active
<1>2. /\ \A j \in Entries : /\ new.dir[j].active = im.dir[j].active
                            /\ new.dir[j].name = im.dir[j].name
                            /\ new.dir[j].len = im.dir[j].len
                            /\ j # i => new.dir[j].alloc = im.dir[j].alloc
      /\ new.dir[i].alloc = [im.dir[i].alloc EXCEPT ![slot] = block]
  BY <1>1 DEF Images, EntryRecords, Storing
<1> HIDE DEF new
<1>3. \A s \in Slots : new.dir[i].alloc[s] = IF s = slot THEN block ELSE im.dir[i].alloc[s]
  BY <1>1, <1>2 DEF Images, EntryRecords
<1>4. new \in Images
  <2> DEFINE e == [im.dir[i] EXCEPT !.alloc = [@ EXCEPT ![slot] = block]]
  <2>1. im.dir[i] \in EntryRecords
    BY <1>1 DEF Images
  <2>2. [im.dir[i].alloc EXCEPT ![slot] = block] \in [Slots -> Blocks \cup {NoBlock}]
    BY <2>1 DEF EntryRecords
  <2>3. e \in EntryRecords
    BY <2>1, <2>2 DEF EntryRecords
  <2> DEFINE dir == [im.dir EXCEPT ![i] = e]
             data == [im.data EXCEPT ![block] = sectors]
  <2>4. dir \in [Entries -> EntryRecords]
    BY <1>1, <2>3 DEF Images
  <2>5. data \in [Blocks -> [Offsets -> Data]]
    BY <1>1 DEF Images
  <2> HIDE DEF dir
  <2>6. [im EXCEPT !.dir = dir].data = im.data
    BY <1>1 DEF Images
  <2>7. new = [[im EXCEPT !.dir = dir] EXCEPT !.data = data]
    BY <2>6 DEF Storing, new, dir
  <2> HIDE DEF data
  <2> QED BY <1>1, <2>4, <2>5, <2>7 DEF Images
<1>5. Active(new) = Active(im)
  BY <1>2 DEF Active
<1>6. \A j \in Active(im), s \in Slots :
        new.dir[j].alloc[s] = IF j = i /\ s = slot THEN block ELSE im.dir[j].alloc[s]
  BY <1>2, <1>3 DEF Active
<1>7. block # NoBlock
  BY DEF Blocks, NoBlock
<1>8. NamesOnce(new)
  BY <1>2, <1>5 DEF SoundImages, NamesOnce, Active
<1>9. BlocksOnce(new)
  BY <1>5, <1>6, <1>7 DEF SoundImages, BlocksOnce
<1>10. Covered(new)
  <2> SUFFICES ASSUME NEW j \in Active(im), NEW p \in 0..(im.dir[j].len - 1)
               PROVE  new.dir[j].alloc[p \div Units] # NoBlock
    BY <1>2, <1>5 DEF Covered, Active
  <2>1. im.dir[j].len \in 0..FileMax
    BY <1>1 DEF Images, EntryRecords, Active
  <2>2. p \div Units \in Slots
    BY <2>1, SlotOf, FileMaxType
  <2>3. im.dir[j].alloc[p \div Units] # NoBlock
    BY DEF SoundImages, Covered
  <2> QED BY <1>6, <1>7, <2>2, <2>3
<1> QED BY <1>2, <1>3, <1>4, <1>8, <1>9, <1>10 DEF SoundImages, new

\* One sector: stored, or the write is over.
LEMMA UnitWritten ==
  ASSUME NEW im \in SoundImages, NEW i \in Active(im), NEW pos \in 0..FileMax,
         NEW w \in Writings(im, i, pos), NEW v \in Data
  PROVE  WriteUnit(w, v) \in Writings(im, i, pos)
<1> DEFINE slot == w.pos \div Units
           old == w.im.dir[i].alloc[slot]
           block == IF old # NoBlock THEN old ELSE AllocBlock(w.im)
           before == IF old # NoBlock THEN w.im.data[block] ELSE ZeroBlock
           sectors == [before EXCEPT ![w.pos % Units] = v]
           stop == w.full \/ w.pos >= FileMax \/ block = None
           new == Storing(w.im, i, slot, block, sectors)
<1>0. FileMax \in Nat
  BY FileMaxType
<1>1. /\ w.im \in SoundImages /\ w.i = i /\ w.pos \in pos..FileMax /\ w.full \in BOOLEAN
      /\ w = [im |-> w.im, i |-> i, pos |-> w.pos, full |-> w.full]
  BY DEF Writings
<1>2. /\ \A j \in Entries : /\ w.im.dir[j].active = im.dir[j].active
                            /\ w.im.dir[j].name = im.dir[j].name
                            /\ w.im.dir[j].len = im.dir[j].len
      /\ \A p \in pos..(w.pos - 1) : w.im.dir[i].alloc[p \div Units] # NoBlock
      /\ w.pos = pos => w.im = im
  BY DEF Writings
<1>3. Active(w.im) = Active(im) /\ i \in Active(w.im)
  BY <1>2 DEF Active
<1>4. CASE stop
  <2>1. WriteUnit(w, v) = [w EXCEPT !.full = TRUE]
    BY <1>1, <1>4 DEF WriteUnit
  <2>2. WriteUnit(w, v) = [im |-> w.im, i |-> i, pos |-> w.pos, full |-> TRUE]
    BY <1>1, <2>1
  <2> QED BY <1>1, <1>2, <2>2 DEF Writings
<1>5. CASE ~stop
  <2> HIDE DEF block, before, sectors
  <2>1. w.pos \in 0..(FileMax - 1) /\ ~w.full /\ block # None
    BY <1>0, <1>1, <1>5
  <2>2. slot \in Slots /\ w.pos % Units \in Offsets
    BY <2>1, SlotOf
  <2>3. w.im \in Images
    BY <1>1 DEF SoundImages
  <2>4. old \in Blocks \cup {NoBlock}
    BY <1>3, <2>2, <2>3 DEF Images, EntryRecords, Active
  <2>5. /\ block \in Blocks
        /\ \/ old = block
           \/ old = NoBlock /\ \A j \in Active(w.im), s \in Slots : w.im.dir[j].alloc[s] # block
    BY <2>1, <2>4, AllocBlockIs DEF block
  <2>6. before \in [Offsets -> Data]
    BY <2>3, <2>5, EntryTypes DEF before, Images
  <2>7. sectors \in [Offsets -> Data]
    BY <2>6 DEF sectors
  <2>8. /\ new \in SoundImages
        /\ \A j \in Entries : /\ new.dir[j].active = w.im.dir[j].active
                             /\ new.dir[j].name = w.im.dir[j].name
                             /\ new.dir[j].len = w.im.dir[j].len
        /\ \A s \in Slots : new.dir[i].alloc[s] = IF s = slot THEN block ELSE w.im.dir[i].alloc[s]
    <3> HIDE DEF slot, sectors
    <3> QED BY <1>1, <1>3, <2>2, <2>5, <2>7, SectorStored
  <2>9. WriteUnit(w, v) = [im |-> new, i |-> i, pos |-> w.pos + 1, full |-> FALSE]
    <3>1. WriteUnit(w, v) = [w EXCEPT !.im.dir[i].alloc[slot] = block,
                                      !.im.data[block] = sectors, !.pos = @ + 1]
      BY <1>1, <1>5 DEF WriteUnit, block, before, sectors
    <3> HIDE DEF slot
    <3> QED BY <1>1, <2>1, <3>1 DEF Storing
  <2> HIDE DEF new, slot
  <2>10. \A p \in pos..((w.pos + 1) - 1) : new.dir[i].alloc[p \div Units] # NoBlock
    <3> SUFFICES ASSUME NEW p \in pos..w.pos PROVE new.dir[i].alloc[p \div Units] # NoBlock
      BY <1>1
    <3>1. p \div Units \in Slots
      BY <1>0, <1>1, <2>1, SlotOf
    <3>2. block # NoBlock
      BY <2>5 DEF Blocks, NoBlock
    <3>3. p \div Units = slot \/ w.im.dir[i].alloc[p \div Units] # NoBlock
      BY <1>1, <1>2 DEF slot
    <3> QED BY <2>8, <3>1, <3>2, <3>3
  <2>11. w.pos + 1 \in pos..FileMax /\ w.pos + 1 # pos
    BY <1>0, <1>1, <2>1
  <2> QED BY <1>2, <2>8, <2>9, <2>10, <2>11 DEF Writings
<1> QED BY <1>4, <1>5

\* The loop of fs_write ends in a state it can be in after the last sector.
LEMMA WrittenAlong ==
  ASSUME NEW im \in SoundImages, NEW i \in Active(im), NEW pos \in 0..FileMax,
         NEW c \in Seq(Data), NEW R, \A n \in 0..Len(c) : R[n] \subseteq Writings(im, i, pos),
         [im |-> im, i |-> i, pos |-> pos, full |-> FALSE] \in R[0],
         \A n \in 0..(Len(c) - 1) : \A w \in R[n] : WriteUnit(w, c[n + 1]) \in R[n + 1]
  PROVE  \E w \in R[Len(c)] :
           Written(im, i, pos, c) = [im |-> [w.im EXCEPT !.dir[i].len = Larger(@, w.pos)],
                                     total |-> w.pos - pos]
<1> DEFINE S == Writings(im, i, pos)
           start == [im |-> im, i |-> i, pos |-> pos, full |-> FALSE]
           step == [n \in 1..Len(c) |-> [w \in S |-> WriteUnit(w, c[n])]]
           after[n \in 0..Len(c)] == IF n = 0 THEN start ELSE WriteUnit(after[n - 1], c[n])
<1>3. Len(c) \in Nat
  OBVIOUS
<1>1. start \in S
  BY <1>3
<1>2. step \in [1..Len(c) -> [S -> S]]
  <2>1. \A n \in 1..Len(c) : c[n] \in Data
    OBVIOUS
  <2> HIDE DEF S
  <2>2. \A n \in 1..Len(c) : \A w \in S : WriteUnit(w, c[n]) \in S
    BY <2>1, UnitWritten DEF S
  <2> QED BY <2>2
<1> HIDE DEF S, step
<1>4. PICK f : IsRun(f, S, start, Len(c), step)
  <2> HIDE DEF start
  <2> QED BY <1>1, <1>2, <1>3, Iteration
<1>5. /\ f \in [0..Len(c) -> S] /\ f[0] = start
      /\ \A n \in 1..Len(c) : f[n] = step[n][f[n - 1]]
  BY <1>4 DEF IsRun
<1>6. f = [n \in 0..Len(c) |-> IF n = 0 THEN start ELSE WriteUnit(f[n - 1], c[n])]
  <2> HIDE DEF start
  <2>1. ASSUME NEW n \in 0..Len(c)
        PROVE  f[n] = IF n = 0 THEN start ELSE WriteUnit(f[n - 1], c[n])
    <3>1. CASE n = 0
      BY <1>5, <3>1
    <3>2. CASE n # 0
      <4>1. n \in 1..Len(c) /\ n - 1 \in 0..Len(c)
        BY <1>3, <3>2
      <4>2. f[n] = step[n][f[n - 1]] /\ f[n - 1] \in S
        BY <1>5, <4>1
      <4> QED BY <3>2, <4>1, <4>2 DEF step
    <3> QED BY <3>1, <3>2
  <2> QED BY <1>5, <2>1
<1>7. after = [n \in 0..Len(c) |-> IF n = 0 THEN start ELSE WriteUnit(after[n - 1], c[n])]
  BY <1>6
<1> HIDE DEF after
<1>8. after[Len(c)] \in R[Len(c)]
  <2> DEFINE Good == {n \in 0..Len(c) : after[n] \in R[n]}
  <2>1. 0 \in Good
    BY <1>3, <1>7
  <2> HIDE DEF start
  <2>2. ASSUME NEW n \in 0..(Len(c) - 1), n \in Good PROVE n + 1 \in Good
    <3>1. n + 1 \in 0..Len(c) /\ (n + 1) - 1 = n /\ n + 1 # 0
      BY <1>3
    <3>2. after[n + 1] = WriteUnit(after[n], c[n + 1])
      BY <1>7, <3>1
    <3>3. after[n] \in R[n]
      BY <2>2
    <3> QED BY <3>1, <3>2, <3>3
  <2> HIDE DEF Good
  <2>3. 0..Len(c) \subseteq Good
    BY <1>3, <2>1, <2>2, UpTo
  <2> QED BY <1>3, <2>3 DEF Good
<1>9. Written(im, i, pos, c) =
        [im |-> [after[Len(c)].im EXCEPT !.dir[i].len = Larger(@, after[Len(c)].pos)],
         total |-> after[Len(c)].pos - pos]
  BY DEF Written, after, start
<1> QED BY <1>8, <1>9

\* In particular in one of those of Writings.
LEMMA WrittenIs ==
  ASSUME NEW im \in SoundImages, NEW i \in Active(im), NEW pos \in 0..FileMax,
         NEW c \in Seq(Data)
  PROVE  \E w \in Writings(im, i, pos) :
           Written(im, i, pos, c) = [im |-> [w.im EXCEPT !.dir[i].len = Larger(@, w.pos)],
                                     total |-> w.pos - pos]
<1> DEFINE S == Writings(im, i, pos)
           R == [n \in 0..Len(c) |-> S]
<1>1. [im |-> im, i |-> i, pos |-> pos, full |-> FALSE] \in S
  <2>1. pos \in pos..FileMax
    BY FileMaxType
  <2> QED BY <2>1 DEF Writings
<1>2. Len(c) \in Nat /\ \A n \in 1..Len(c) : c[n] \in Data
  OBVIOUS
<1> HIDE DEF S
<1>3. \A n \in 0..Len(c) : R[n] = S
  OBVIOUS
<1>4. ASSUME NEW n \in 0..(Len(c) - 1), NEW w \in R[n] PROVE WriteUnit(w, c[n + 1]) \in R[n + 1]
  <2>1. n \in 0..Len(c) /\ n + 1 \in 0..Len(c) /\ n + 1 \in 1..Len(c)
    BY <1>2
  <2>2. w \in S /\ c[n + 1] \in Data
    BY <1>2, <1>3, <2>1
  <2> QED BY <1>3, <2>1, <2>2, UnitWritten DEF S
<1>5. R[0] = S /\ R[Len(c)] = S /\ \A n \in 0..Len(c) : R[n] \subseteq Writings(im, i, pos)
  BY <1>2, <1>3 DEF S
<1>6. [im |-> im, i |-> i, pos |-> pos, full |-> FALSE] \in R[0]
  BY <1>1, <1>5
<1> HIDE DEF R
<1>7. \E w \in R[Len(c)] :
           Written(im, i, pos, c) = [im |-> [w.im EXCEPT !.dir[i].len = Larger(@, w.pos)],
                                     total |-> w.pos - pos]
  BY <1>4, <1>5, <1>6, WrittenAlong
<1> QED BY <1>5, <1>7 DEF S

\* File j is in both images, under one name, and no shorter in the second.
Keeps(im, new, j) ==
  /\ j \in Active(im) /\ j \in Active(new)
  /\ new.dir[j].name = im.dir[j].name /\ im.dir[j].len <= new.dir[j].len

\* fs_write on a position within the file: the image is sound, every file is kept,
\* the file reaches what was written, and nothing written is nothing changed.
LEMMA WrittenSound ==
  ASSUME NEW im \in SoundImages, NEW i \in Active(im), NEW pos \in 0..im.dir[i].len,
         NEW c \in Seq(Data)
  PROVE  LET w == Written(im, i, pos, c) IN
         /\ w.im \in SoundImages /\ w.total \in 0..(FileMax - pos)
         /\ \A j \in Active(im) : Keeps(im, w.im, j)
         /\ Active(w.im) = Active(im)
         /\ pos + w.total <= w.im.dir[i].len
         /\ w.total = 0 => w.im = im
<1>1. im \in Images /\ i \in Entries
  BY DEF SoundImages, Active
<1>2. im.dir[i].len \in 0..FileMax /\ pos \in 0..FileMax
  BY <1>1, FileMaxType DEF Images, EntryRecords
<1>3. PICK w \in Writings(im, i, pos) :
        Written(im, i, pos, c) = [im |-> [w.im EXCEPT !.dir[i].len = Larger(@, w.pos)],
                                  total |-> w.pos - pos]
  BY <1>2, WrittenIs
<1> DEFINE new == [w.im EXCEPT !.dir[i].len = Larger(@, w.pos)]
           len == Larger(im.dir[i].len, w.pos)
<1>4. /\ w.im \in SoundImages /\ w.im \in Images /\ w.pos \in pos..FileMax
      /\ \A j \in Entries : /\ w.im.dir[j].active = im.dir[j].active
                           /\ w.im.dir[j].name = im.dir[j].name
                           /\ w.im.dir[j].len = im.dir[j].len
      /\ w.pos = pos => w.im = im
  BY <1>3 DEF Writings, SoundImages
<1>0. \A p \in pos..(w.pos - 1) : w.im.dir[i].alloc[p \div Units] # NoBlock
  BY <1>3 DEF Writings
<1>5. len \in 0..FileMax /\ im.dir[i].len <= len /\ w.pos <= len
  BY <1>2, <1>4, FileMaxType DEF Larger
<1>6. new = [w.im EXCEPT !.dir = [w.im.dir EXCEPT ![i] = [w.im.dir[i] EXCEPT !.len = len]]]
  BY <1>1, <1>4
<1>7. new \in Images
  <2>1. w.im.dir[i] \in EntryRecords
    BY <1>1, <1>4 DEF Images
  <2>2. [w.im.dir[i] EXCEPT !.len = len] \in EntryRecords
    BY <1>5, <2>1 DEF EntryRecords
  <2> HIDE DEF new, len
  <2> QED BY <1>4, <1>6, <2>2 DEF Images
<1> HIDE DEF len
<1>8. \A j \in Entries : /\ new.dir[j].active = im.dir[j].active
                         /\ new.dir[j].name = im.dir[j].name
                         /\ new.dir[j].alloc = w.im.dir[j].alloc
                         /\ new.dir[j].len = IF j = i THEN len ELSE im.dir[j].len
                         /\ im.dir[j].len \in Nat /\ new.dir[j].len \in Nat
                         /\ im.dir[j].len <= new.dir[j].len
  <2>1. \A j \in Entries : w.im.dir[j] \in EntryRecords /\ im.dir[j].len \in Nat
    BY <1>1, <1>4, FileMaxType DEF Images, EntryRecords
  <2> DEFINE e == [w.im.dir[i] EXCEPT !.len = len]
  <2>2. \A j \in Entries : new.dir[j] = IF j = i THEN e ELSE w.im.dir[j]
    BY <1>1, <1>4, <1>6 DEF Images
  <2> HIDE DEF new
  <2>3. /\ e.active = w.im.dir[i].active /\ e.name = w.im.dir[i].name
        /\ e.alloc = w.im.dir[i].alloc /\ e.len = len
    BY <1>1, <2>1 DEF EntryRecords
  <2> HIDE DEF e
  <2> SUFFICES ASSUME NEW j \in Entries
               PROVE  /\ new.dir[j].active = im.dir[j].active
                      /\ new.dir[j].name = im.dir[j].name
                      /\ new.dir[j].alloc = w.im.dir[j].alloc
                      /\ new.dir[j].len = IF j = i THEN len ELSE im.dir[j].len
                      /\ im.dir[j].len \in Nat /\ new.dir[j].len \in Nat
                      /\ im.dir[j].len <= new.dir[j].len
    OBVIOUS
  <2>4. CASE j = i
    <3>1. new.dir[j] = e
      BY <2>2, <2>4
    <3> QED BY <1>1, <1>4, <1>5, <2>1, <2>3, <2>4, <3>1, FileMaxType
  <2>5. CASE j # i
    <3>1. new.dir[j] = w.im.dir[j]
      BY <2>2, <2>5
    <3>2. new.dir[j].len = im.dir[j].len
      BY <1>4, <3>1
    <3> QED BY <1>4, <2>1, <2>5, <3>1, <3>2
  <2> QED BY <2>4, <2>5
<1> HIDE DEF new
<1>9. Active(new) = Active(im) /\ Active(w.im) = Active(im)
  BY <1>4, <1>8 DEF Active
<1>15. \A j \in Active(im) : j \in Entries
  BY DEF Active
<1>10. NamesOnce(new) /\ BlocksOnce(new)
  <2>1. NamesOnce(w.im) /\ BlocksOnce(w.im)
    BY <1>4 DEF SoundImages
  <2>2. NamesOnce(new)
    BY <1>4, <1>8, <1>9, <1>15, <2>1 DEF NamesOnce
  <2>3. BlocksOnce(new)
    <3> SUFFICES ASSUME NEW j \in Active(im), NEW k \in Active(im), NEW s \in Slots, NEW t \in Slots,
                        new.dir[j].alloc[s] # NoBlock, new.dir[j].alloc[s] = new.dir[k].alloc[t]
                 PROVE  j = k /\ s = t
      BY <1>9 DEF BlocksOnce
    <3>1. new.dir[j].alloc = w.im.dir[j].alloc /\ new.dir[k].alloc = w.im.dir[k].alloc
      BY <1>8, <1>15
    <3> QED BY <1>9, <2>1, <3>1 DEF BlocksOnce
  <2> QED BY <2>2, <2>3
<1>11. Covered(new)
  <2> SUFFICES ASSUME NEW j \in Active(im), NEW p \in 0..(new.dir[j].len - 1)
               PROVE  w.im.dir[j].alloc[p \div Units] # NoBlock
    BY <1>8, <1>9, <1>15 DEF Covered
  <2>0. j \in Entries
    BY <1>15
  <2>1. CASE p < im.dir[j].len
    <3>1. p \in 0..(w.im.dir[j].len - 1)
      BY <1>4, <1>8, <2>0, <2>1
    <3> QED BY <1>4, <1>9, <3>1 DEF SoundImages, Covered
  <2>2. CASE ~(p < im.dir[j].len)
    <3>1. j = i /\ len = w.pos
      BY <1>2, <1>4, <1>8, <2>0, <2>2 DEF len, Larger
    <3>2. p \in pos..(w.pos - 1)
      BY <1>2, <1>4, <1>8, <2>0, <2>2, <3>1
    <3> QED BY <1>0, <3>1, <3>2
  <2> QED BY <2>1, <2>2
<1>12. w.pos = pos => new = im
  <2> SUFFICES ASSUME w.pos = pos PROVE new = im
    OBVIOUS
  <2>1. len = im.dir[i].len /\ w.im = im
    BY <1>2, <1>4 DEF len, Larger
  <2>2. im.dir[i] \in EntryRecords
    BY <1>1 DEF Images
  <2>3. [im.dir[i] EXCEPT !.len = len] = im.dir[i]
    BY <2>1, <2>2 DEF EntryRecords
  <2>4. [im.dir EXCEPT ![i] = im.dir[i]] = im.dir
    BY <1>1 DEF Images
  <2>5. [im EXCEPT !.dir = im.dir] = im
    BY <1>1 DEF Images
  <2> QED BY <1>6, <2>1, <2>3, <2>4, <2>5
<1>13. new \in SoundImages /\ \A j \in Active(im) : Keeps(im, new, j)
  BY <1>7, <1>8, <1>9, <1>10, <1>11, <1>15 DEF SoundImages, Keeps
<1>14. w.pos - pos \in 0..(FileMax - pos) /\ pos + (w.pos - pos) = w.pos
  BY <1>2, <1>4, FileMaxType
<1>16. Written(im, i, pos, c).im = new /\ Written(im, i, pos, c).total = w.pos - pos
  BY <1>3 DEF new
<1>17. w.pos - pos = 0 => new = im
  BY <1>2, <1>4, <1>12
<1>18. w.pos <= new.dir[i].len
  BY <1>1, <1>5, <1>8
<1> HIDE DEF Keeps
<1> QED BY <1>9, <1>13, <1>14, <1>16, <1>17, <1>18

\* Writing a new file: whether it fits or is erased again, the image is sound and
\* keeps the files there were.
LEMMA PutNewSound ==
  ASSUME NEW im \in SoundImages, FreeEntry(im) # None, NEW n \in Names, NEW c \in Seq(Data),
         \A j \in Active(im) : im.dir[j].name # n
  PROVE  /\ PutNew(im, n, c).im \in SoundImages /\ PutNew(im, n, c).ok \in BOOLEAN
         /\ \A j \in Active(im) : Keeps(im, PutNew(im, n, c).im, j)
<1> DEFINE i == FreeEntry(im)
           made == Created(im, i, n)
           w == Written(made, i, 0, c)
<1>1. i \in Entries /\ i \notin Active(im)
  BY FreeEntryIs
<1> HIDE DEF i
<1>2. /\ made \in SoundImages /\ Active(made) = Active(im) \cup {i}
      /\ \A j \in Active(im) : made.dir[j] = im.dir[j]
      /\ made.dir[i].len = 0
  BY <1>1, CreatedSound
<1> HIDE DEF made
<1>3. /\ w.im \in SoundImages
      /\ \A j \in Active(made) : Keeps(made, w.im, j)
      /\ Active(w.im) = Active(made)
  <2>1. i \in Active(made) /\ 0 \in 0..made.dir[i].len
    BY <1>2
  <2> HIDE DEF Keeps
  <2> QED BY <1>2, <2>1, WrittenSound
<1> HIDE DEF w
<1>4. \A j \in Active(im) : Keeps(im, w.im, j)
  BY <1>2, <1>3 DEF Keeps
<1>5. /\ Erased(w.im, i) \in SoundImages
      /\ Active(Erased(w.im, i)) = Active(w.im) \ {i}
      /\ \A j \in Active(w.im) \ {i} : Erased(w.im, i).dir[j] = w.im.dir[j]
  BY <1>1, <1>3, ErasedSound
<1>6. \A j \in Active(im) : Keeps(im, Erased(w.im, i), j)
  BY <1>1, <1>4, <1>5 DEF Keeps
<1>7. PutNew(im, n, c) = IF w.total = Len(c) THEN [im |-> w.im, ok |-> TRUE]
                         ELSE [im |-> Erased(w.im, i), ok |-> FALSE]
  BY DEF PutNew, i, made, w
<1> QED BY <1>3, <1>4, <1>5, <1>6, <1>7

\* Disks as delivered are sound.
LEMMA DeliveredSound == DeliveredDisks \subseteq SoundImages
<1> SUFFICES ASSUME NEW f \in Delivered
             PROVE  PutNew(Formatted, f.name, f.contents).im \in SoundImages
  BY FormattedSound DEF DeliveredDisks
<1>1. f.name \in Names /\ f.contents \in Seq(Data)
  BY FileSystemAssumption DEF FileSystemAssumption
<1>2. FreeEntry(Formatted) # None
  <2>1. 0 \in Entries \ Active(Formatted)
    BY FormattedSound, FileSystemAssumption DEF FileSystemAssumption, Entries
  <2>2. Entries \ Active(Formatted) \subseteq Nat
    BY DEF Entries
  <2> QED BY <2>1, <2>2, LeastIs DEF FreeEntry
<1> QED BY <1>1, <1>2, FormattedSound, PutNewSound

\* fs_read's data ends within the file's length.
LEMMA ContentsWithin ==
  ASSUME NEW im \in Images, NEW i \in Entries
  PROVE  Len(Contents(im, i)) \in 0..im.dir[i].len
<1> DEFINE e == im.dir[i]
           ends == {e.len} \cup {s * Units : s \in {t \in Slots : e.alloc[t] = NoBlock}}
           size == Least(ends)
           sector(k) == im.data[e.alloc[(k - 1) \div Units]][(k - 1) % Units]
<1>1. e.len \in Nat
  BY FileMaxType DEF Images, EntryRecords
<1>2. ends \subseteq Nat
  <2>1. \A s \in Slots : s * Units \in Nat
    BY FileSystemAssumption DEF FileSystemAssumption, Slots
  <2> QED BY <1>1, <2>1
<1>3. size \in 0..e.len
  <2> HIDE DEF ends
  <2>1. e.len \in ends
    BY DEF ends
  <2>2. size \in Nat /\ size <= e.len
    BY <1>2, <2>1, LeastIs
  <2> QED BY <1>1, <2>2
<1> HIDE DEF size, ends
<1>4. Contents(im, i) = [k \in 1..size |-> sector(k)]
  BY DEF Contents, size, ends
<1> DEFINE read == [k \in 1..size |-> sector(k)]
           sectors == {sector(k) : k \in 1..size}
<1>5. size \in Nat /\ read \in [1..size -> sectors]
  <2> HIDE DEF sector, e
  <2>1. size \in Nat
    BY <1>1, <1>3
  <2> QED BY <2>1
<1>6. Len(read) = size
  <2> HIDE DEF read, sectors
  <2>1. read \in Seq(sectors)
    BY <1>5, SeqDef
  <2>2. Len(read) \in Nat /\ read \in [1..Len(read) -> sectors]
    BY <2>1, LenProperties
  <2>3. 1..Len(read) = 1..size
    BY <1>5, <2>2
  <2> QED BY <1>5, <2>2, <2>3
<1> QED BY <1>3, <1>4, <1>6

---------------------------------------------------------------------------
(* The open table.                                                         *)

\* A handle that is closed, opened or moved is a handle.
LEMMA HandleTypes ==
  /\ Closed \in HandleRecords /\ ~Closed.used
  /\ AllClosed \in Tables /\ \A h \in Handles : ~AllClosed[h].used
<1>1. Closed \in HandleRecords /\ ~Closed.used
  BY FileMaxType, FileSystemAssumption
     DEF FileSystemAssumption, Closed, HandleRecords, Disks, Entries
<1> QED BY <1>1 DEF AllClosed, Tables

\* fs_handles_drop and fs_handles_prune close the handles on what is gone, and no others.
LEMMA DroppedIs ==
  ASSUME NEW t \in Tables, NEW d, NEW gone
  PROVE  /\ Dropped(t, d, gone) \in Tables
         /\ \A h \in Handles : Dropped(t, d, gone)[h].used =>
              Dropped(t, d, gone)[h] = t[h] /\ ~(t[h].disk = d /\ t[h].index \in gone)
<1>1. \A h \in Handles : t[h] \in HandleRecords
  BY DEF Tables
<1> QED BY <1>1, HandleTypes DEF Dropped, Tables

\* When the files under the open handles of a disk are kept, the handles are live.
LEMMA StaysLive ==
  ASSUME NEW t \in Tables, NEW ims \in [Disks -> SoundImages], Live(t, ims),
         NEW d \in Disks, NEW im \in SoundImages,
         NEW u \in Tables, \A h \in Handles : u[h].used => u[h] = t[h],
         \A h \in Handles : u[h].used /\ u[h].disk = d => Keeps(ims[d], im, u[h].index)
  PROVE  Live(u, [ims EXCEPT ![d] = im])
<1> SUFFICES ASSUME NEW h \in Handles, u[h].used
             PROVE  LET new == [ims EXCEPT ![d] = im][u[h].disk] IN
                    /\ u[h].index \in Active(new)
                    /\ new.dir[u[h].index].name = u[h].name
                    /\ u[h].pos <= new.dir[u[h].index].len
  BY DEF Live
<1>1. /\ u[h] = t[h]
      /\ u[h].disk \in Disks /\ u[h].index \in Entries /\ u[h].pos \in Nat
  BY FileMaxType DEF Tables, HandleRecords
<1> DEFINE old == ims[u[h].disk]
<1>2. /\ u[h].index \in Active(old) /\ old.dir[u[h].index].name = u[h].name
      /\ u[h].pos <= old.dir[u[h].index].len
  BY <1>1 DEF Live
<1>3. CASE u[h].disk # d
  BY <1>2, <1>3
<1>4. CASE u[h].disk = d
  <2>1. Keeps(ims[d], im, u[h].index)
    BY <1>4
  <2>2. \A x \in SoundImages : x.dir[u[h].index].len \in Nat
    BY <1>1, FileMaxType DEF SoundImages, Images, EntryRecords
  <2>3. ims[d].dir[u[h].index].len \in Nat /\ im.dir[u[h].index].len \in Nat
    BY <2>2
  <2>4. [ims EXCEPT ![d] = im][u[h].disk] = im
    BY <1>1, <1>4
  <2> QED BY <1>1, <1>2, <1>4, <2>1, <2>3, <2>4 DEF Keeps
<1> QED BY <1>3, <1>4

\* fs_put_file on a sound disk, whatever comes of it: the image is sound, the handles
\* that stay open are live, and a disk that was not touched is as it was.
LEMMA PutFileSound ==
  ASSUME image \in [Disks -> SoundImages], Opens,
         NEW d \in Disks, NEW n \in Names, NEW c \in Seq(Data)
  PROVE  LET r == PutFile(d, n, c) IN
         /\ r.im \in SoundImages /\ r.t \in Tables
         /\ Live(r.t, [image EXCEPT ![d] = r.im])
         /\ r.touched \in BOOLEAN /\ r.ok \in BOOLEAN
         /\ ~r.touched => r.im = image[d] /\ ~r.ok
<1> DEFINE im == image[d]
           old == Find(im, n)
           refused == TooBig(im, old, c)
           cleared == IF old = None THEN im ELSE Erased(im, old)
           dropped == IF old = None THEN table ELSE Dropped(table, d, {old})
           create == FreeEntry(cleared) # None /\ FreeHandle(dropped) # None
           new == PutNew(cleared, n, c)
           r == PutFile(d, n, c)
<1>1. r = IF refused THEN [im |-> im, t |-> table, touched |-> FALSE, ok |-> FALSE]
          ELSE IF create THEN [im |-> new.im, t |-> dropped, touched |-> TRUE, ok |-> new.ok]
          ELSE [im |-> cleared, t |-> dropped, touched |-> old # None, ok |-> FALSE]
  BY DEF PutFile
<1>2. im \in SoundImages /\ table \in Tables /\ Live(table, image)
  BY DEF Opens
<1> HIDE DEF refused, create, r
<1>3. /\ cleared \in SoundImages
      /\ \A j \in Active(cleared) : cleared.dir[j].name # n
      /\ \A j \in Active(im) : j # old => j \in Active(cleared) /\ cleared.dir[j] = im.dir[j]
  <2>1. CASE old = None
    <3>1. cleared = im
      BY <2>1
    <3>2. \A j \in Active(im) : im.dir[j].name # n
      BY <2>1, FindIs
    <3> HIDE DEF cleared, old, im
    <3> QED BY <1>2, <3>1, <3>2
  <2>2. CASE old # None
    <3>1. old \in Active(im) /\ im.dir[old].name = n
      BY <2>2, FindIs
    <3> HIDE DEF old, im
    <3>2. \A j \in Active(im) : j # old => im.dir[j].name # n
      BY <1>2, <3>1 DEF SoundImages, NamesOnce
    <3>3. old \in Entries /\ cleared = Erased(im, old)
      BY <2>2, <3>1 DEF Active
    <3> QED BY <1>2, <3>2, <3>3, ErasedSound
  <2> QED BY <2>1, <2>2
<1>4. /\ dropped \in Tables
      /\ \A h \in Handles : dropped[h].used =>
           dropped[h] = table[h] /\ ~(table[h].disk = d /\ table[h].index = old)
  <2>1. CASE old = None
    <3>1. \A h \in Handles : table[h].index \in Entries
      BY <1>2 DEF Tables, HandleRecords
    <3>2. None \notin Entries
      BY DEF None, Entries
    <3> QED BY <1>2, <2>1, <3>1, <3>2
  <2>2. CASE old # None
    <3>1. dropped = Dropped(table, d, {old})
      BY <2>2
    <3> HIDE DEF dropped, old
    <3> QED BY <1>2, <3>1, DroppedIs
  <2> QED BY <2>1, <2>2
<1>5. \A h \in Handles : dropped[h].used /\ dropped[h].disk = d =>
        /\ dropped[h].index \in Active(im) /\ dropped[h].index # old
  BY <1>2, <1>4 DEF Live
<1> HIDE DEF cleared, dropped
<1>6. \A j \in Active(im) : j # old => Keeps(im, cleared, j)
  <2>1. \A j \in Active(im) : im.dir[j].len \in Nat
    BY <1>2, FileMaxType DEF SoundImages, Images, EntryRecords, Active
  <2> QED BY <1>3, <2>1 DEF Keeps
<1>7. create => /\ new.im \in SoundImages /\ new.ok \in BOOLEAN
                /\ \A j \in Active(im) : j # old => Keeps(im, new.im, j)
  <2> SUFFICES ASSUME create
               PROVE  /\ new.im \in SoundImages /\ new.ok \in BOOLEAN
                      /\ \A j \in Active(im) : j # old => Keeps(im, new.im, j)
    OBVIOUS
  <2>1. FreeEntry(cleared) # None
    BY DEF create
  <2>2. /\ new.im \in SoundImages /\ new.ok \in BOOLEAN
        /\ \A j \in Active(cleared) : Keeps(cleared, new.im, j)
    BY <1>3, <2>1, PutNewSound
  <2> HIDE DEF new
  <2>3. \A j \in Active(im) : j # old => Keeps(im, new.im, j)
    BY <1>3, <2>2 DEF Keeps
  <2> QED BY <2>2, <2>3
<1> HIDE DEF new, old
<1>8. CASE refused
  <2>1. r.im = im /\ r.t = table /\ ~r.touched /\ ~r.ok /\ r.touched \in BOOLEAN /\ r.ok \in BOOLEAN
    BY <1>1, <1>8
  <2>2. [image EXCEPT ![d] = im] = image
    OBVIOUS
  <2> QED BY <1>2, <2>1, <2>2 DEF r
<1>9. CASE ~refused /\ create
  <2>1. r.im = new.im /\ r.t = dropped /\ r.touched = TRUE /\ r.ok = new.ok
    BY <1>1, <1>9
  <2>2. Live(dropped, [image EXCEPT ![d] = new.im])
    BY <1>2, <1>4, <1>5, <1>7, <1>9, StaysLive
  <2> QED BY <1>4, <1>7, <1>9, <2>1, <2>2 DEF r
<1>10. CASE ~refused /\ ~create
  <2>1. r.im = cleared /\ r.t = dropped /\ r.touched = (old # None) /\ r.ok = FALSE
    BY <1>1, <1>10
  <2>2. Live(dropped, [image EXCEPT ![d] = cleared])
    BY <1>2, <1>3, <1>4, <1>5, <1>6, StaysLive
  <2>3. old = None => cleared = im
    BY DEF cleared
  <2> QED BY <1>3, <1>4, <2>1, <2>2, <2>3 DEF r
<1> QED BY <1>8, <1>9, <1>10

---------------------------------------------------------------------------
(* Saving.                                                                 *)

\* What a save that fails half way leaves has the directory, and is sound.
LEMMA TornSound ==
  ASSUME NEW im \in SoundImages, NEW k \in TornAt
  PROVE  OneCopy(Torn(im, k))
<1> DEFINE torn == [im EXCEPT !.data = [b \in Blocks |-> IF b < k THEN @[b] ELSE ZeroBlock]]
           data == [b \in Blocks |-> IF b < k THEN im.data[b] ELSE ZeroBlock]
<1>1. im \in Images
  BY DEF SoundImages
<1>2. data \in [Blocks -> [Offsets -> Data]]
  BY <1>1, EntryTypes DEF Images
<1>3. torn = [im EXCEPT !.data = data]
  OBVIOUS
<1> HIDE DEF data, torn
<1>4. torn \in Images /\ torn.dir = im.dir
  BY <1>1, <1>2, <1>3 DEF Images
<1>5. torn \in SoundImages
  BY <1>4 DEF SoundImages, NamesOnce, BlocksOnce, Covered, Active
<1>6. Torn(im, k) = IF k = 0 THEN {} ELSE {torn}
  BY DEF Torn, torn
<1> QED BY <1>5, <1>6 DEF OneCopy

\* fs_flush: what is saved is the image, what is not clean stays dirty.
LEMMA FlushedClean ==
  ASSUME NEW ims \in [Disks -> SoundImages], NEW dt \in [Disks -> BOOLEAN],
         \A d \in Disks : OneCopy(stored[d]), Clean(ims, dt), Flushed(ims, dt)
  PROVE  /\ dirty' \in [Disks -> BOOLEAN]
         /\ \A d \in Disks : OneCopy(stored'[d])
         /\ \A d \in Disks : ~dirty'[d] => stored'[d] = {ims[d]}
<1>1. PICK r : /\ \A d \in Disks : r[d] \in SaveResults(ims[d], stored[d])
               /\ stored' = [d \in Disks |-> IF dt[d] THEN r[d].copy ELSE stored[d]]
               /\ dirty' = [d \in Disks |-> dt[d] /\ ~r[d].ok]
  BY DEF Flushed
<1>2. ASSUME NEW d \in Disks
      PROVE  /\ dirty'[d] \in BOOLEAN /\ OneCopy(stored'[d])
             /\ ~dirty'[d] => stored'[d] = {ims[d]}
  <2>1. stored'[d] = IF dt[d] THEN r[d].copy ELSE stored[d]
    BY <1>1
  <2>2. dirty'[d] = (dt[d] /\ ~r[d].ok)
    BY <1>1
  <2>3. CASE ~dt[d]
    BY <2>1, <2>2, <2>3 DEF Clean
  <2>4. CASE dt[d]
    <3>1. r[d] \in SaveResults(ims[d], stored[d])
      BY <1>1
    <3>2. \/ r[d] = [copy |-> {ims[d]}, ok |-> TRUE]
          \/ r[d] = [copy |-> stored[d], ok |-> FALSE]
          \/ \E k \in TornAt : r[d] = [copy |-> Torn(ims[d], k), ok |-> FALSE]
      BY <3>1 DEF SaveResults
    <3>3. CASE r[d] = [copy |-> {ims[d]}, ok |-> TRUE]
      BY <2>1, <2>2, <2>4, <3>3 DEF OneCopy
    <3>4. CASE r[d] = [copy |-> stored[d], ok |-> FALSE]
      BY <2>1, <2>2, <2>4, <3>4
    <3>5. ASSUME NEW k \in TornAt, r[d] = [copy |-> Torn(ims[d], k), ok |-> FALSE]
          PROVE  /\ dirty'[d] \in BOOLEAN /\ OneCopy(stored'[d])
                 /\ ~dirty'[d] => stored'[d] = {ims[d]}
      BY <2>1, <2>2, <2>4, <3>5, TornSound
    <3> QED BY <3>2, <3>3, <3>4, <3>5
  <2> QED BY <2>3, <2>4
<1>3. dirty' \in [Disks -> BOOLEAN]
  BY <1>1, <1>2
<1> QED BY <1>2, <1>3

---------------------------------------------------------------------------
(* The invariant is inductive.                                             *)

\* fs_init: a disk is what the host has of it, or formatted and to be saved.
LEMMA LoadedClean ==
  ASSUME NEW copies, \A d \in Disks : OneCopy(copies[d])
  PROVE  /\ Loaded(copies) \in [Disks -> SoundImages]
         /\ \A d \in Disks : copies[d] # {} => copies[d] = {Loaded(copies)[d]}
<1> SUFFICES ASSUME NEW d \in Disks
             PROVE  /\ Loaded(copies)[d] \in SoundImages
                    /\ copies[d] # {} => copies[d] = {Loaded(copies)[d]}
  BY DEF Loaded
<1>1. CASE copies[d] = {}
  BY <1>1, FormattedSound DEF Loaded
<1>2. CASE copies[d] # {}
  <2>1. Loaded(copies)[d] = CHOOSE im \in copies[d] : TRUE
    BY <1>2 DEF Loaded
  <2>2. Loaded(copies)[d] \in copies[d]
    BY <1>2, <2>1
  <2> QED BY <1>2, <2>2 DEF OneCopy
<1> QED BY <1>1, <1>2

\* What clients put is a sequence of sectors.
LEMMA ContentsType == \A c \in FileContents : c \in Seq(Data)
BY FileSystemAssumption DEF FileSystemAssumption

\* The answers of the calls are well typed.
LEMMA AnswerType ==
  ASSUME NEW op \in Store!Ops, NEW d \in Disks, NEW n \in Names \cup {NoName},
         NEW arg \in Seq(Data), NEW ok \in BOOLEAN
  PROVE  Answer(op, d, n, arg, ok)
           \in [op : Store!Ops, disk : Disks, name : Names \cup {NoName}, arg : Seq(Data), ok : BOOLEAN]
BY DEF Answer

\* So is having nothing to say.
LEMMA NoAnswerType ==
  /\ NoAnswer \in [op : Store!Ops, disk : Disks, name : Names \cup {NoName}, arg : Seq(Data), ok : BOOLEAN]
  /\ 0 \in Disks /\ <<>> \in Seq(Data)
  /\ {"IMAGE", "CREATE", "WRITE", "DELETE", "PUT", "SECTOR"} \subseteq Store!Ops
<1>1. 0 \in Disks /\ <<>> \in Seq(Data)
  BY FileSystemAssumption DEF FileSystemAssumption, Disks
<1>2. {"NONE", "IMAGE", "CREATE", "WRITE", "DELETE", "PUT", "SECTOR"} \subseteq Store!Ops
  BY DEF Store!Ops
<1> QED BY <1>1, <1>2, AnswerType DEF NoAnswer

\* fs_init leaves the invariant true.
LEMMA InitInv == Init => Inv
<1> SUFFICES ASSUME Init PROVE Inv
  OBVIOUS
<1>1. \A d \in Disks : OneCopy(stored[d])
  BY DeliveredSound DEF Init, OneCopy
<1>2. Stores
  <2>1. image = Loaded(stored) /\ dirty = [d \in Disks |-> stored[d] = {}]
    BY DEF Init
  <2>2. dirty \in [Disks -> BOOLEAN]
    BY <2>1
  <2> QED BY <1>1, <2>1, <2>2, LoadedClean DEF Stores, Clean
<1>3. Control
  BY HandleTypes, NoAnswerType, FileSystemAssumption DEF FileSystemAssumption, Init, Control
<1>4. Opens
  BY HandleTypes DEF Init, Opens, Live
<1> QED BY <1>2, <1>3, <1>4 DEF Inv

\* What a call does to the calls made and to the answer keeps them typed.
LEMMA ControlKept ==
  ASSUME Inv, Call, selected' \in Disks,
         answer' \in [op : Store!Ops, disk : Disks, name : Names \cup {NoName}, arg : Seq(Data),
                      ok : BOOLEAN],
         UNCHANGED kept
  PROVE  Control'
<1>1. calls' \in 0..MaxCalls
  BY FileSystemAssumption DEF FileSystemAssumption, Inv, Control, Call
<1> QED BY <1>1 DEF Inv, Control

\* The image of one disk changed, and the disk marked or not changed at all.
LEMMA StoresKept ==
  ASSUME Inv, NEW d \in Disks, NEW im \in SoundImages, NEW mark \in BOOLEAN,
         ~mark => im = image[d],
         image' = [image EXCEPT ![d] = im], dirty' = [dirty EXCEPT ![d] = @ \/ mark],
         UNCHANGED stored
  PROVE  Stores'
<1>1. image' \in [Disks -> SoundImages] /\ dirty' \in [Disks -> BOOLEAN]
  BY DEF Inv, Stores
<1>2. \A e \in Disks : ~dirty'[e] => ~dirty[e] /\ image'[e] = image[e]
  BY DEF Inv, Stores
<1> QED BY <1>1, <1>2 DEF Inv, Stores, Clean

\* Calls that move nothing but handles keep the stores.
LEMMA StoresUntouched ==
  ASSUME Inv, UNCHANGED <<image, dirty, stored>>
  PROVE  Stores'
BY DEF Inv, Stores, Clean

\* Opening a handle at the start of an active entry.
LEMMA OpenedLive ==
  ASSUME NEW t \in Tables, NEW ims \in [Disks -> SoundImages], Live(t, ims), NEW h \in Handles,
         NEW d \in Disks, NEW i \in Active(ims[d]), NEW n \in Names, ims[d].dir[i].name = n
  PROVE  Opened(t, h, d, i, n) \in Tables /\ Live(Opened(t, h, d, i, n), ims)
<1> DEFINE r == [used |-> TRUE, disk |-> d, index |-> i, pos |-> 0, name |-> n]
           u == Opened(t, h, d, i, n)
<1>1. i \in Entries
  BY DEF Active
<1>2. r \in HandleRecords
  BY <1>1, FileMaxType DEF HandleRecords
<1>3. u \in Tables
  BY <1>2 DEF Tables, Opened
<1>4. \A g \in Handles : u[g] = IF g = h THEN r ELSE t[g]
  BY DEF Tables, Opened
<1>5. 0 <= ims[d].dir[i].len
  BY <1>1, FileMaxType DEF SoundImages, Images, EntryRecords
<1> HIDE DEF u
<1>6. Live(u, ims)
  <2> SUFFICES ASSUME NEW g \in Handles, u[g].used
               PROVE  LET im == ims[u[g].disk] IN
                      /\ u[g].index \in Active(im)
                      /\ im.dir[u[g].index].name = u[g].name
                      /\ u[g].pos <= im.dir[u[g].index].len
    BY DEF Live
  <2>1. CASE g = h
    BY <1>4, <1>5, <2>1
  <2>2. CASE g # h
    <3>1. u[g] = t[g]
      BY <1>4, <2>2
    <3> QED BY <3>1 DEF Live
  <2> QED BY <2>1, <2>2
<1> QED BY <1>3, <1>6 DEF u

\* fs_open.
LEMMA OpenInv ==
  ASSUME Inv, NEW n \in Names, Open(n)
  PROVE  Inv'
<1> DEFINE i == Find(image[selected], n)
           h == FreeHandle(table)
<1>1. /\ Call /\ Quietly /\ i # None /\ h # None
      /\ table' = Opened(table, h, selected, i, n)
      /\ UNCHANGED <<image, dirty, stored, selected, kept>>
  BY DEF Open
<1>2. Control'
  BY <1>1, ControlKept, NoAnswerType DEF Inv, Control, Quietly
<1>3. Stores'
  BY <1>1, StoresUntouched
<1>4. i \in Active(image[selected]) /\ image[selected].dir[i].name = n /\ h \in Handles
  BY <1>1, FindIs, FreeHandleIs
<1>5. table' \in Tables /\ Live(table', image)
  <2> HIDE DEF i, h
  <2> QED BY <1>1, <1>4, OpenedLive DEF Inv, Stores, Opens, Control
<1>6. Opens'
  BY <1>1, <1>5 DEF Opens
<1> QED BY <1>2, <1>3, <1>6 DEF Inv

\* fs_create.
LEMMA CreateInv ==
  ASSUME Inv, NEW n \in Names, Create(n)
  PROVE  Inv'
<1> DEFINE im == image[selected]
           i == FreeEntry(im)
           h == FreeHandle(table)
           ok == Find(im, n) = None /\ i # None /\ h # None
<1>1. /\ Call /\ UNCHANGED <<stored, selected, kept>>
      /\ answer' = Answer("CREATE", selected, n, <<>>, ok)
      /\ image' = IF ok THEN [image EXCEPT ![selected] = Created(im, i, n)] ELSE image
      /\ table' = IF ok THEN Opened(table, h, selected, i, n) ELSE table
      /\ dirty' = IF ok THEN [dirty EXCEPT ![selected] = TRUE] ELSE dirty
  BY DEF Create
<1>2. selected \in Disks /\ im \in SoundImages
  BY DEF Inv, Control, Stores
<1>3. Control'
  <2>1. answer' \in [op : Store!Ops, disk : Disks, name : Names \cup {NoName}, arg : Seq(Data),
                      ok : BOOLEAN]
    <3> HIDE DEF ok
    <3>1. ok \in BOOLEAN
      BY DEF ok
    <3> QED BY <1>1, <1>2, <3>1, AnswerType, NoAnswerType
  <2> QED BY <1>1, <1>2, <2>1, ControlKept
<1>4. CASE ~ok
  <2>1. UNCHANGED <<image, dirty, stored, table>>
    BY <1>1, <1>4
  <2> QED BY <1>3, <2>1, StoresUntouched DEF Inv, Opens
<1>5. CASE ok
  <2> DEFINE new == Created(im, i, n)
  <2>1. /\ i \in Entries \ Active(im) /\ h \in Handles
        /\ \A j \in Active(im) : im.dir[j].name # n
    <3>1. Find(im, n) = None /\ i # None /\ h # None
      BY <1>5
    <3>2. None \notin Active(im)
      BY DEF None, Active, Entries
    <3> QED BY <3>1, <3>2, FindIs, FreeEntryIs, FreeHandleIs
  <2>2. /\ image' = [image EXCEPT ![selected] = new]
        /\ table' = Opened(table, h, selected, i, n)
        /\ dirty' = [dirty EXCEPT ![selected] = TRUE]
    BY <1>1, <1>5
  <2> HIDE DEF i, h
  <2>3. /\ new \in SoundImages /\ Active(new) = Active(im) \cup {i}
        /\ \A j \in Active(im) : new.dir[j] = im.dir[j]
        /\ new.dir[i].name = n
    BY <1>2, <2>1, CreatedSound
  <2> HIDE DEF new
  <2>4. Stores'
    <3>1. dirty' = [dirty EXCEPT ![selected] = @ \/ TRUE]
      BY <2>2
    <3> QED BY <1>1, <1>2, <2>2, <2>3, <3>1, StoresKept
  <2>5. table \in Tables /\ Live(table, image) /\ image \in [Disks -> SoundImages]
    BY DEF Inv, Opens, Stores
  <2>6. Live(table, image')
    <3>1. \A j \in Active(im) : Keeps(im, new, j)
      <4>1. \A j \in Active(im) : im.dir[j].len \in Nat
        BY <1>2, FileMaxType DEF SoundImages, Images, EntryRecords, Active
      <4> QED BY <2>3, <4>1 DEF Keeps
    <3>2. \A g \in Handles : table[g].used /\ table[g].disk = selected => table[g].index \in Active(im)
      BY <2>5 DEF Live
    <3> QED BY <1>2, <2>2, <2>3, <2>5, <3>1, <3>2, StaysLive
  <2>7. table' \in Tables /\ Live(table', image')
    <3>1. image' \in [Disks -> SoundImages] /\ image'[selected] = new
      BY <1>2, <2>2, <2>3, <2>5
    <3>2. i \in Active(image'[selected]) /\ image'[selected].dir[i].name = n
      BY <2>3, <3>1
    <3> QED BY <1>2, <2>1, <2>2, <2>5, <2>6, <3>1, <3>2, OpenedLive
  <2> QED BY <1>3, <2>4, <2>7 DEF Inv, Opens
<1> QED BY <1>4, <1>5

\* Moving a handle to a position of its file.
LEMMA MovedLive ==
  ASSUME NEW t \in Tables, NEW ims \in [Disks -> SoundImages], Live(t, ims),
         NEW h \in Handles, t[h].used, NEW p \in Nat, p <= ims[t[h].disk].dir[t[h].index].len
  PROVE  [t EXCEPT ![h].pos = p] \in Tables /\ Live([t EXCEPT ![h].pos = p], ims)
<1> DEFINE r == [t[h] EXCEPT !.pos = p]
           u == [t EXCEPT ![h].pos = p]
<1>1. \A g \in Handles : t[g] \in HandleRecords
  BY DEF Tables
<1>2. p \in 0..FileMax
  <2>1. t[h].disk \in Disks /\ t[h].index \in Entries
    BY <1>1 DEF HandleRecords
  <2>2. ims[t[h].disk].dir[t[h].index].len \in 0..FileMax
    BY <2>1 DEF SoundImages, Images, EntryRecords
  <2> QED BY <2>2, FileMaxType
<1>3. /\ r \in HandleRecords /\ r.used = t[h].used /\ r.disk = t[h].disk /\ r.index = t[h].index
      /\ r.name = t[h].name /\ r.pos = p
  BY <1>1, <1>2 DEF HandleRecords
<1>4. u = [t EXCEPT ![h] = r]
  OBVIOUS
<1> HIDE DEF r, u
<1>5. u \in Tables /\ \A g \in Handles : u[g] = IF g = h THEN r ELSE t[g]
  BY <1>3, <1>4 DEF Tables
<1>6. Live(u, ims)
  <2> SUFFICES ASSUME NEW g \in Handles, u[g].used
               PROVE  LET im == ims[u[g].disk] IN
                      /\ u[g].index \in Active(im)
                      /\ im.dir[u[g].index].name = u[g].name
                      /\ u[g].pos <= im.dir[u[g].index].len
    BY DEF Live
  <2>1. CASE g = h
    <3>1. u[g] = r
      BY <1>5, <2>1
    <3> QED BY <1>3, <3>1 DEF Live
  <2>2. CASE g # h
    <3>1. u[g] = t[g]
      BY <1>5, <2>2
    <3> QED BY <3>1 DEF Live
  <2> QED BY <2>1, <2>2
<1> QED BY <1>5, <1>6 DEF u

\* A usable handle is on an active entry of its disk, at a position of the file.
LEMMA UsableIs ==
  ASSUME Inv, NEW h \in Handles, Usable(h)
  PROVE  /\ table[h].used /\ table[h].disk \in Disks /\ table[h].index \in Entries
         /\ table[h].index \in Active(image[table[h].disk])
         /\ image[table[h].disk] \in SoundImages
         /\ image[table[h].disk].dir[table[h].index].len \in 0..FileMax
         /\ table[h].pos \in 0..image[table[h].disk].dir[table[h].index].len
         /\ table[h].name \in Names \cup {NoName}
<1>1. table[h] \in HandleRecords
  BY DEF Inv, Opens, Tables
<1>2. table[h].disk \in Disks /\ table[h].index \in Entries /\ table[h].pos \in Nat
  BY <1>1, FileMaxType DEF HandleRecords
<1>3. image[table[h].disk] \in SoundImages
  BY <1>2 DEF Inv, Stores
<1>4. image[table[h].disk].dir[table[h].index].len \in 0..FileMax
  BY <1>2, <1>3 DEF SoundImages, Images, EntryRecords
<1>5. table[h].pos <= image[table[h].disk].dir[table[h].index].len
  BY DEF Inv, Opens, Live, Usable
<1> QED BY <1>1, <1>2, <1>3, <1>4, <1>5, FileMaxType DEF Usable, HandleRecords

\* fs_read moves within what there is to read.
LEMMA ReadInv ==
  ASSUME Inv, NEW h \in Handles, NEW len \in ReadSizes, Read(h, len)
  PROVE  Inv'
<1> DEFINE size == Len(Contents(image[table[h].disk], table[h].index))
           pos == table[h].pos
           end == IF pos + len < size THEN pos + len ELSE Larger(pos, size)
           limit == image[table[h].disk].dir[table[h].index].len
<1>1. /\ Call /\ Quietly /\ Usable(h)
      /\ UNCHANGED <<image, dirty, stored, selected, kept>>
      /\ table' = [table EXCEPT ![h].pos = end]
  BY DEF Read
<1>2. Control'
  BY <1>1, ControlKept, NoAnswerType DEF Inv, Control, Quietly
<1>3. Stores'
  BY <1>1, StoresUntouched
<1>4. table[h].used /\ pos \in 0..limit /\ limit \in Nat
  BY <1>1, UsableIs, FileMaxType
<1>5. size \in 0..limit
  BY <1>1, UsableIs, ContentsWithin DEF SoundImages
<1>6. len \in Nat
  BY FileSystemAssumption DEF FileSystemAssumption
<1> HIDE DEF size, pos, limit
<1>7. end \in Nat /\ end <= limit
  BY <1>4, <1>5, <1>6 DEF Larger
<1> HIDE DEF end
<1>8. table' \in Tables /\ Live(table', image)
  BY <1>1, <1>4, <1>7, MovedLive DEF Inv, Opens, Stores, limit
<1>9. Opens'
  BY <1>1, <1>8 DEF Opens
<1> QED BY <1>2, <1>3, <1>9 DEF Inv

\* fs_write: the file grows with the handle; other handles on it stay within it.
LEMMA WriteInv ==
  ASSUME Inv, NEW h \in Handles, NEW c \in FileContents, Write(h, c)
  PROVE  Inv'
<1> DEFINE t == table[h]
           w == Written(image[t.disk], t.index, t.pos, c)
<1>1. /\ Call /\ Usable(h) /\ UNCHANGED <<stored, selected, kept>>
      /\ answer' = Answer("WRITE", t.disk, t.name, c, w.total > 0)
      /\ image' = [image EXCEPT ![t.disk] = w.im]
      /\ dirty' = [dirty EXCEPT ![t.disk] = @ \/ w.total > 0]
      /\ table' = [table EXCEPT ![h].pos = @ + w.total]
  BY DEF Write
<1>2. c \in Seq(Data)
  BY ContentsType
<1>3. /\ t.used /\ t.disk \in Disks /\ t.index \in Active(image[t.disk])
      /\ image[t.disk] \in SoundImages
      /\ t.pos \in 0..image[t.disk].dir[t.index].len /\ t.name \in Names \cup {NoName}
      /\ image[t.disk].dir[t.index].len \in 0..FileMax
  BY <1>1, UsableIs
<1>4. /\ w.im \in SoundImages /\ w.total \in 0..(FileMax - t.pos)
      /\ \A j \in Active(image[t.disk]) : Keeps(image[t.disk], w.im, j)
      /\ t.pos + w.total <= w.im.dir[t.index].len
      /\ w.total = 0 => w.im = image[t.disk]
  <2> HIDE DEF Keeps
  <2> QED BY <1>2, <1>3, WrittenSound
<1> HIDE DEF w
<1>5. w.total \in Nat /\ t.pos \in Nat /\ t.pos + w.total \in Nat
  BY <1>3, <1>4, FileMaxType
<1>6. Control'
  <2>1. answer' \in [op : Store!Ops, disk : Disks, name : Names \cup {NoName}, arg : Seq(Data),
                      ok : BOOLEAN]
    <3>1. (w.total > 0) \in BOOLEAN
      OBVIOUS
    <3> QED BY <1>1, <1>2, <1>3, <3>1, AnswerType, NoAnswerType
  <2> QED BY <1>1, <2>1, ControlKept DEF Inv, Control
<1>7. Stores'
  <2>1. (w.total > 0) \in BOOLEAN /\ (~(w.total > 0) => w.im = image[t.disk])
    BY <1>4, <1>5
  <2> QED BY <1>1, <1>3, <1>4, <2>1, StoresKept
<1>8. table \in Tables /\ Live(table, image) /\ image \in [Disks -> SoundImages]
  BY DEF Inv, Opens, Stores
<1>9. Live(table, image') /\ image' \in [Disks -> SoundImages] /\ image'[t.disk] = w.im
  <2>1. \A g \in Handles : table[g].used /\ table[g].disk = t.disk =>
          table[g].index \in Active(image[t.disk])
    BY <1>8 DEF Live
  <2>2. Live(table, [image EXCEPT ![t.disk] = w.im])
    BY <1>3, <1>4, <1>8, <2>1, StaysLive
  <2> QED BY <1>1, <1>3, <1>4, <1>8, <2>2
<1>10. table' \in Tables /\ Live(table', image')
  <2>1. table' = [table EXCEPT ![h].pos = t.pos + w.total]
    BY <1>1
  <2> QED BY <1>3, <1>4, <1>5, <1>8, <1>9, <2>1, MovedLive
<1> QED BY <1>6, <1>7, <1>10 DEF Inv, Opens

\* Handles may be closed.
LEMMA ClosedLive ==
  ASSUME NEW t, NEW ims, Live(t, ims), NEW u, \A h \in Handles : u[h].used => u[h] = t[h]
  PROVE  Live(u, ims)
BY DEF Live

\* fs_close.
LEMMA CloseInv ==
  ASSUME Inv, NEW h \in Handles, Close(h)
  PROVE  Inv'
<1>1. /\ Call /\ Quietly /\ table' = [table EXCEPT ![h] = Closed]
      /\ UNCHANGED <<image, dirty, stored, selected, kept>>
  BY DEF Close
<1>2. Control'
  BY <1>1, ControlKept, NoAnswerType DEF Inv, Control, Quietly
<1>3. Stores'
  BY <1>1, StoresUntouched
<1>4. table' \in Tables /\ \A g \in Handles : table'[g].used => table'[g] = table[g]
  BY <1>1, HandleTypes DEF Inv, Opens, Tables
<1>5. Opens'
  BY <1>1, <1>4, ClosedLive DEF Inv, Opens
<1> QED BY <1>2, <1>3, <1>5 DEF Inv

\* fs_flush after a change of the images: what was not marked must not have changed.
LEMMA StoresFlushed ==
  ASSUME Inv, image' \in [Disks -> SoundImages], NEW dt \in [Disks -> BOOLEAN],
         \A d \in Disks : ~dt[d] => ~dirty[d] /\ image'[d] = image[d],
         Flushed(image', dt)
  PROVE  Stores'
<1>1. \A d \in Disks : OneCopy(stored[d])
  BY DEF Inv, Stores
<1>2. Clean(image', dt)
  BY DEF Inv, Stores, Clean
<1> QED BY <1>1, <1>2, FlushedClean DEF Stores, Clean

\* svc_del.
LEMMA DeleteInv ==
  ASSUME Inv, NEW n \in Names, Delete(n)
  PROVE  Inv'
<1> DEFINE im == image[selected]
           i == Find(im, n)
           dt == [dirty EXCEPT ![selected] = TRUE]
<1>1. /\ Call /\ UNCHANGED <<selected, kept>>
      /\ answer' = Answer("DELETE", selected, n, <<>>, i # None)
      /\ IF i = None THEN UNCHANGED <<image, table, dirty, stored>>
         ELSE /\ image' = [image EXCEPT ![selected] = Erased(im, i)]
              /\ table' = Dropped(table, selected, {i})
              /\ Flushed(image', dt)
  BY DEF Delete
<1>2. /\ selected \in Disks /\ im \in SoundImages /\ image \in [Disks -> SoundImages]
      /\ dirty \in [Disks -> BOOLEAN] /\ table \in Tables /\ Live(table, image)
  BY DEF Inv, Control, Stores, Opens
<1>3. Control'
  <2>1. answer' \in [op : Store!Ops, disk : Disks, name : Names \cup {NoName}, arg : Seq(Data),
                      ok : BOOLEAN]
    <3>1. (i # None) \in BOOLEAN
      OBVIOUS
    <3> HIDE DEF i
    <3> QED BY <1>1, <1>2, <3>1, AnswerType, NoAnswerType
  <2> QED BY <1>1, <1>2, <2>1, ControlKept
<1>4. CASE i = None
  <2>1. UNCHANGED <<image, table, dirty, stored>>
    BY <1>1, <1>4
  <2> QED BY <1>3, <2>1, StoresUntouched DEF Inv, Opens
<1>5. CASE i # None
  <2>1. i \in Active(im) /\ i \in Entries
    BY <1>5, FindIs DEF Active
  <2> HIDE DEF i
  <2> DEFINE new == Erased(im, i)
  <2>2. /\ image' = [image EXCEPT ![selected] = new]
        /\ table' = Dropped(table, selected, {i}) /\ Flushed(image', dt)
    BY <1>1, <1>5
  <2>3. /\ new \in SoundImages /\ Active(new) = Active(im) \ {i}
        /\ \A j \in Active(im) \ {i} : new.dir[j] = im.dir[j]
    BY <1>2, <2>1, ErasedSound
  <2> HIDE DEF new
  <2>4. /\ table' \in Tables
        /\ \A h \in Handles : table'[h].used =>
             table'[h] = table[h] /\ ~(table[h].disk = selected /\ table[h].index = i)
    BY <1>2, <2>2, DroppedIs
  <2>5. \A j \in Active(im) \ {i} : Keeps(im, new, j)
    <3>1. \A j \in Active(im) : im.dir[j].len \in Nat
      BY <1>2, FileMaxType DEF SoundImages, Images, EntryRecords, Active
    <3> QED BY <2>3, <3>1 DEF Keeps
  <2>6. Live(table', image')
    <3>1. \A h \in Handles : table'[h].used /\ table'[h].disk = selected =>
            table'[h].index \in Active(im) \ {i}
      BY <1>2, <2>4 DEF Live
    <3>2. Live(table', [image EXCEPT ![selected] = new])
      BY <1>2, <2>3, <2>4, <2>5, <3>1, StaysLive
    <3> QED BY <2>2, <3>2
  <2>7. Stores'
    <3>1. image' \in [Disks -> SoundImages] /\ dt \in [Disks -> BOOLEAN]
      BY <1>2, <2>2, <2>3
    <3>2. \A d \in Disks : ~dt[d] => ~dirty[d] /\ image'[d] = image[d]
      BY <1>2, <2>2
    <3> HIDE DEF dt
    <3> QED BY <2>2, <3>1, <3>2, StoresFlushed
  <2> QED BY <1>3, <2>4, <2>6, <2>7 DEF Inv, Opens
<1> QED BY <1>4, <1>5

\* The answer of a put is typed.
LEMMA PutAnswer ==
  ASSUME NEW d \in Disks, NEW n \in Names, NEW c \in FileContents, NEW ok \in BOOLEAN
  PROVE  Answer("PUT", d, n, c, ok)
           \in [op : Store!Ops, disk : Disks, name : Names \cup {NoName}, arg : Seq(Data), ok : BOOLEAN]
BY AnswerType, NoAnswerType, ContentsType

\* tos_disk_put_file.
LEMMA PutInv ==
  ASSUME Inv, NEW d \in Disks, NEW n \in Names, NEW c \in FileContents, Put(d, n, c)
  PROVE  Inv'
<1> DEFINE r == PutFile(d, n, c)
<1>1. /\ Call /\ UNCHANGED <<stored, selected, kept>>
      /\ answer' = Answer("PUT", d, n, c, r.ok)
      /\ image' = [image EXCEPT ![d] = r.im] /\ table' = r.t
      /\ dirty' = [dirty EXCEPT ![d] = @ \/ r.touched]
  BY DEF Put
<1>2. /\ r.im \in SoundImages /\ r.t \in Tables
      /\ Live(r.t, [image EXCEPT ![d] = r.im])
      /\ r.touched \in BOOLEAN /\ r.ok \in BOOLEAN
      /\ ~r.touched => r.im = image[d]
  BY PutFileSound, ContentsType DEF Inv, Stores
<1> HIDE DEF r
<1>3. Control'
  BY <1>1, <1>2, PutAnswer, ControlKept DEF Inv, Control
<1>4. Stores'
  BY <1>1, <1>2, StoresKept
<1> QED BY <1>1, <1>2, <1>3, <1>4 DEF Inv, Opens

\* svc_compile: put and, if that went well, flush.
LEMMA CompileInv ==
  ASSUME Inv, NEW n \in Names, NEW c \in FileContents, Compile(n, c)
  PROVE  Inv'
<1> DEFINE r == PutFile(selected, n, c)
           dt == [dirty EXCEPT ![selected] = @ \/ r.touched]
<1>1. /\ Call /\ UNCHANGED <<selected, kept>>
      /\ answer' = Answer("PUT", selected, n, c, r.ok)
      /\ image' = [image EXCEPT ![selected] = r.im] /\ table' = r.t
      /\ IF r.ok THEN Flushed(image', dt) ELSE dirty' = dt /\ UNCHANGED stored
  BY DEF Compile
<1>2. /\ selected \in Disks /\ image \in [Disks -> SoundImages] /\ dirty \in [Disks -> BOOLEAN]
  BY DEF Inv, Control, Stores
<1>3. /\ r.im \in SoundImages /\ r.t \in Tables
      /\ Live(r.t, [image EXCEPT ![selected] = r.im])
      /\ r.touched \in BOOLEAN /\ r.ok \in BOOLEAN
      /\ ~r.touched => r.im = image[selected]
  BY <1>2, PutFileSound, ContentsType DEF Inv
<1> HIDE DEF r
<1>4. Control'
  BY <1>1, <1>2, <1>3, PutAnswer, ControlKept
<1>5. Stores'
  <2>1. CASE r.ok
    <3>1. image' \in [Disks -> SoundImages] /\ dt \in [Disks -> BOOLEAN]
      BY <1>1, <1>2, <1>3
    <3>2. \A d \in Disks : ~dt[d] => ~dirty[d] /\ image'[d] = image[d]
      BY <1>1, <1>2, <1>3
    <3> HIDE DEF dt
    <3> QED BY <1>1, <2>1, <3>1, <3>2, StoresFlushed
  <2>2. CASE ~r.ok
    BY <1>1, <1>2, <1>3, <2>2, StoresKept
  <2> QED BY <2>1, <2>2
<1> QED BY <1>1, <1>3, <1>4, <1>5 DEF Inv, Opens

\* The contents of a sector are no part of the directory.
LEMMA SectorSound ==
  ASSUME NEW im \in SoundImages, NEW b \in Blocks, NEW o \in Offsets, NEW v \in Data
  PROVE  /\ [im EXCEPT !.data[b][o] = v] \in SoundImages
         /\ [im EXCEPT !.data[b][o] = v].dir = im.dir
<1> DEFINE sectors == [im.data[b] EXCEPT ![o] = v]
           data == [im.data EXCEPT ![b] = sectors]
           new == [im EXCEPT !.data[b][o] = v]
<1>1. im \in Images
  BY DEF SoundImages
<1>2. sectors \in [Offsets -> Data]
  BY <1>1 DEF Images
<1>3. data \in [Blocks -> [Offsets -> Data]]
  <2> HIDE DEF sectors
  <2> QED BY <1>1, <1>2 DEF Images
<1>4. new = [im EXCEPT !.data = data]
  OBVIOUS
<1> HIDE DEF data, new
<1>5. new \in Images /\ new.dir = im.dir
  BY <1>1, <1>3, <1>4 DEF Images
<1>6. new \in SoundImages
  BY <1>5 DEF SoundImages, NamesOnce, BlocksOnce, Covered, Active
<1> QED BY <1>5, <1>6 DEF new

\* Marking a disk is leaving it dirty.
LEMMA Marked == dirty \in [Disks -> BOOLEAN] =>
  \A d \in Disks : [dirty EXCEPT ![d] = TRUE] = [dirty EXCEPT ![d] = @ \/ TRUE]
OBVIOUS

\* fs_write_sector on a data sector.
LEMMA WriteSectorInv ==
  ASSUME Inv, NEW b \in Blocks, NEW o \in Offsets, NEW v \in SectorData, WriteSector(b, o, v)
  PROVE  Inv'
<1> DEFINE im == image[selected]
           new == [im EXCEPT !.data[b][o] = v]
<1>1. /\ Call /\ answer' = Answer("SECTOR", selected, NoName, <<>>, TRUE)
      /\ dirty' = [dirty EXCEPT ![selected] = TRUE]
      /\ UNCHANGED <<stored, selected, table, kept>>
  BY DEF WriteSector
<1>2. image' = [image EXCEPT ![selected] = new]
  BY DEF WriteSector
<1>3. selected \in Disks /\ im \in SoundImages /\ dirty \in [Disks -> BOOLEAN]
  BY DEF Inv, Control, Stores
<1>4. new \in SoundImages /\ new.dir = im.dir
  BY <1>3, SectorSound, FileSystemAssumption DEF FileSystemAssumption
<1> HIDE DEF new
<1>5. Control'
  BY <1>1, <1>3, AnswerType, NoAnswerType, ControlKept
<1>6. Stores'
  BY <1>1, <1>2, <1>3, <1>4, StoresKept, Marked
<1>7. Live(table, image')
  <2>1. \A j \in Active(im) : Keeps(im, new, j)
    <3>1. \A j \in Active(im) : im.dir[j].len \in Nat
      BY <1>3, FileMaxType DEF SoundImages, Images, EntryRecords, Active
    <3> QED BY <1>4, <3>1 DEF Keeps, Active
  <2>2. \A g \in Handles : table[g].used /\ table[g].disk = selected => table[g].index \in Active(im)
    BY DEF Inv, Opens, Live
  <2> QED BY <1>2, <1>3, <1>4, <2>1, <2>2, StaysLive DEF Inv, Opens, Stores
<1> QED BY <1>1, <1>5, <1>6, <1>7 DEF Inv, Opens

\* fs_handles_prune after another image took the place of the one there was: the handles
\* left are live if the entries left are as they were.
LEMMA PrunedLive ==
  ASSUME Inv, NEW d \in Disks, NEW im \in SoundImages,
         \A h \in Handles : table[h].used /\ table[h].disk = d /\ table[h].index \in Active(im)
           => im.dir[table[h].index] = image[d].dir[table[h].index]
  PROVE  Pruned(table, d, im) \in Tables /\ Live(Pruned(table, d, im), [image EXCEPT ![d] = im])
<1> DEFINE u == Pruned(table, d, im)
<1>1. table \in Tables /\ Live(table, image) /\ image \in [Disks -> SoundImages]
  BY DEF Inv, Opens, Stores
<1>2. /\ u \in Tables
      /\ \A h \in Handles : u[h].used =>
           u[h] = table[h] /\ ~(table[h].disk = d /\ table[h].index \in Entries \ Active(im))
  BY <1>1, DroppedIs DEF Pruned
<1> HIDE DEF u
<1>3. \A h \in Handles : u[h].used /\ u[h].disk = d => Keeps(image[d], im, u[h].index)
  <2> SUFFICES ASSUME NEW h \in Handles, u[h].used, u[h].disk = d
               PROVE  Keeps(image[d], im, u[h].index)
    OBVIOUS
  <2>1. u[h] = table[h] /\ u[h].index \in Active(image[d]) /\ u[h].index \in Entries
    BY <1>1, <1>2 DEF Live, Active
  <2>2. u[h].index \in Active(im)
    BY <1>2, <2>1
  <2>3. im.dir[u[h].index] = image[d].dir[u[h].index]
    BY <2>1, <2>2
  <2>4. im.dir[u[h].index].len \in Nat
    BY <2>1, FileMaxType DEF SoundImages, Images, EntryRecords
  <2> QED BY <2>1, <2>2, <2>3, <2>4 DEF Keeps
<1>4. Live(u, [image EXCEPT ![d] = im])
  BY <1>1, <1>2, <1>3, StaysLive
<1> QED BY <1>2, <1>4 DEF u

\* fs_write_sector on the directory: the entry is gone and so are its handles.
LEMMA WipeEntryInv ==
  ASSUME Inv, NEW i \in Entries, WipeEntry(i)
  PROVE  Inv'
<1> DEFINE im == image[selected]
           new == Erased(im, i)
<1>1. /\ Call /\ answer' = Answer("SECTOR", selected, NoName, <<>>, TRUE)
      /\ dirty' = [dirty EXCEPT ![selected] = TRUE]
      /\ image' = [image EXCEPT ![selected] = new]
      /\ table' = Pruned(table, selected, image'[selected])
      /\ UNCHANGED <<stored, selected, kept>>
  BY DEF WipeEntry
<1>2. selected \in Disks /\ image \in [Disks -> SoundImages] /\ dirty \in [Disks -> BOOLEAN]
  BY DEF Inv, Control, Stores
<1>3. /\ new \in SoundImages /\ Active(new) = Active(im) \ {i}
      /\ \A j \in Active(im) \ {i} : new.dir[j] = im.dir[j]
  BY <1>2, ErasedSound
<1> HIDE DEF new
<1>4. Control'
  BY <1>1, <1>2, AnswerType, NoAnswerType, ControlKept
<1>5. Stores'
  BY <1>1, <1>2, <1>3, StoresKept, Marked
<1>6. table' \in Tables /\ Live(table', image')
  <2>1. table' = Pruned(table, selected, new)
    BY <1>1, <1>2
  <2>2. \A h \in Handles : table[h].used /\ table[h].disk = selected /\ table[h].index \in Active(new)
          => new.dir[table[h].index] = im.dir[table[h].index]
    BY <1>3
  <2> QED BY <1>1, <1>2, <1>3, <2>1, <2>2, PrunedLive
<1> QED BY <1>4, <1>5, <1>6 DEF Inv, Opens

\* tos_disk_reload, with no handle open.
LEMMA ReloadInv ==
  ASSUME Inv, NEW d \in Disks, NEW im \in DeliveredDisks, Reload(d, im)
  PROVE  Inv'
<1>1. /\ Call /\ NoHandles /\ answer' = Answer("IMAGE", d, NoName, <<>>, TRUE)
      /\ image' = [image EXCEPT ![d] = im] /\ table' = Pruned(table, d, im)
      /\ dirty' = [dirty EXCEPT ![d] = TRUE]
      /\ UNCHANGED <<stored, selected, kept>>
  BY DEF Reload
<1>2. im \in SoundImages /\ dirty \in [Disks -> BOOLEAN]
  BY DeliveredSound DEF Inv, Stores
<1>3. Control'
  BY <1>1, AnswerType, NoAnswerType, ControlKept DEF Inv, Control
<1>4. Stores'
  BY <1>1, <1>2, StoresKept, Marked
<1>5. table' \in Tables /\ Live(table', image')
  BY <1>1, <1>2, PrunedLive DEF NoHandles
<1> QED BY <1>3, <1>4, <1>5 DEF Inv, Opens

\* fs_flush.
LEMMA FlushInv ==
  ASSUME Inv, Flush
  PROVE  Inv'
<1>1. Call /\ Quietly /\ Flushed(image, dirty) /\ UNCHANGED <<image, selected, table, kept>>
  BY DEF Flush
<1>2. Control'
  BY <1>1, ControlKept, NoAnswerType DEF Inv, Control, Quietly
<1>3. Stores'
  <2>1. image' = image /\ Flushed(image', dirty)
    BY <1>1
  <2> QED BY <2>1, StoresFlushed DEF Inv, Stores
<1> QED BY <1>1, <1>2, <1>3 DEF Inv, Opens

\* fs_select_disk, and the snapshots: the open table they keep has no handle open.
LEMMA SelectionInv ==
  ASSUME Inv, (\E d \in Disks : SelectDisk(d)) \/ SaveState \/ LoadState
  PROVE  Inv'
<1>1. CASE \E d \in Disks : SelectDisk(d)
  <2>1. /\ Call /\ Quietly /\ selected' \in Disks
        /\ UNCHANGED <<image, dirty, stored, table, kept>>
    BY <1>1 DEF SelectDisk
  <2>2. Control'
    BY <2>1, ControlKept, NoAnswerType DEF Quietly
  <2> QED BY <2>1, <2>2, StoresUntouched DEF Inv, Opens
<1>2. CASE SaveState \/ LoadState
  <2>1. /\ Call /\ Quietly /\ UNCHANGED <<image, dirty, stored>>
        /\ \/ NoHandles /\ kept' = [selected |-> selected, table |-> table] /\ UNCHANGED <<selected, table>>
           \/ selected' = kept.selected /\ table' = kept.table /\ UNCHANGED kept
    BY <1>2 DEF SaveState, LoadState
  <2>2. answer' \in [op : Store!Ops, disk : Disks, name : Names \cup {NoName}, arg : Seq(Data),
                     ok : BOOLEAN]
    BY <2>1, NoAnswerType DEF Quietly
  <2>3. calls' \in 0..MaxCalls
    BY <2>1, FileSystemAssumption DEF FileSystemAssumption, Inv, Control, Call
  <2>4. /\ selected' \in Disks /\ kept' \in [selected : Disks, table : Tables]
        /\ \A h \in Handles : ~kept'.table[h].used
    BY <2>1 DEF Inv, Control, Opens, NoHandles
  <2>5. Opens'
    BY <2>1 DEF Inv, Control, Opens, Live
  <2> QED BY <2>1, <2>2, <2>3, <2>4, <2>5, StoresUntouched DEF Inv, Control
<1> QED BY <1>1, <1>2

\* fs_init again: what was not saved is gone, and what is left is sound.
LEMMA RestartInv ==
  ASSUME Inv, Restart
  PROVE  Inv'
<1>1. /\ Call /\ answer' = Answer("IMAGE", 0, NoName, <<>>, TRUE)
      /\ image' = Loaded(stored) /\ dirty' = [d \in Disks |-> stored[d] = {}]
      /\ selected' = 0 /\ table' = AllClosed
      /\ kept' = [selected |-> 0, table |-> AllClosed] /\ UNCHANGED stored
  BY DEF Restart
<1>2. Stores'
  <2>1. dirty' \in [Disks -> BOOLEAN]
    BY <1>1
  <2> QED BY <1>1, <2>1, LoadedClean DEF Inv, Stores, Clean
<1>3. Control'
  <2>1. calls' \in 0..MaxCalls
    BY <1>1, FileSystemAssumption DEF FileSystemAssumption, Inv, Control, Call
  <2> QED BY <1>1, <2>1, AnswerType, NoAnswerType, HandleTypes DEF Control
<1>4. Opens'
  BY <1>1, HandleTypes DEF Opens, Live
<1> QED BY <1>2, <1>3, <1>4 DEF Inv

\* Every call keeps the invariant, and so does doing nothing.
LEMMA NextInv == Inv /\ [Next]_vars => Inv'
<1> SUFFICES ASSUME Inv, [Next]_vars PROVE Inv'
  OBVIOUS
<1>1. CASE HandleCall
  BY <1>1, OpenInv, CreateInv, ReadInv, WriteInv, CloseInv DEF HandleCall
<1>2. CASE BiosCall
  BY <1>2, SelectionInv, DeleteInv, CompileInv, WriteSectorInv, WipeEntryInv DEF BiosCall
<1>3. CASE HostCall
  BY <1>3, PutInv, ReloadInv, FlushInv, RestartInv, SelectionInv DEF HostCall
<1>4. CASE UNCHANGED vars
  <2>1. UNCHANGED <<image, dirty, stored, selected, table, kept, answer, calls>>
    BY <1>4 DEF vars
  <2> QED BY <2>1 DEF Inv, Control, Stores, Clean, Opens, Live
<1> QED BY <1>1, <1>2, <1>3, <1>4 DEF Next

\* The invariant holds throughout.
THEOREM SpecInv == Spec => []Inv
BY InitInv, NextInv, PTL DEF Spec

---------------------------------------------------------------------------
(* What follows.                                                           *)

\* Counting: a file has as many blocks as slots in use.
LEMMA BlocksCounted ==
  ASSUME NEW im \in SoundImages, NEW i \in Active(im)
  PROVE  EntryBlockCount(im, i) = Cardinality(HeldBy(im, i))
<1> DEFINE e == im.dir[i]
           S == {s \in Slots : e.alloc[s] # NoBlock}
           f == [s \in S |-> e.alloc[s]]
<1>1. S \subseteq Slots /\ IsFiniteSet(Slots)
  BY FS_Interval, FileSystemAssumption DEF FileSystemAssumption, Slots
<1>2. IsFiniteSet(S)
  BY <1>1, FS_Subset
<1>3. f \in Bijection(S, HeldBy(im, i))
  <2>1. \A s, t \in S : e.alloc[s] = e.alloc[t] => s = t
    BY DEF SoundImages, BlocksOnce
  <2>2. \A b \in HeldBy(im, i) : \E s \in S : f[s] = b
    BY DEF HeldBy
  <2>3. f \in [S -> HeldBy(im, i)]
    BY DEF HeldBy
  <2> QED BY <2>1, <2>2, <2>3 DEF Bijection, Injection, Surjection, IsInjective
<1>4. ExistsBijection(S, HeldBy(im, i))
  BY <1>3 DEF ExistsBijection
<1> QED BY <1>2, <1>4, FS_Bijection DEF EntryBlockCount

\* What the invariant calls a sound image is one.
LEMMA SoundImagesAre ==
  ASSUME NEW im \in SoundImages
  PROVE  SoundImage(im) /\ im \in Images
<1>1. \A i, j \in Active(im) : i # j =>
        im.dir[i].name # im.dir[j].name /\ HeldBy(im, i) \cap HeldBy(im, j) = {}
  BY DEF SoundImages, NamesOnce, BlocksOnce, HeldBy
<1>2. \A i \in Active(im) : \A p \in 0..(im.dir[i].len - 1) : im.dir[i].alloc[p \div Units] # NoBlock
  BY DEF SoundImages, Covered
<1> QED BY <1>1, <1>2, BlocksCounted DEF SoundImage, SoundImages

\* Every variable stays in its type: no length or position beyond the extent, no block
\* number beyond the image, at most one copy of a disk on the host.
THEOREM TypeCorrect == Spec => []TypeOK
<1>1. Inv => TypeOK
  <2> SUFFICES ASSUME Inv PROVE TypeOK
    OBVIOUS
  <2>1. image \in [Disks -> Images]
    BY DEF Inv, Stores, SoundImages
  <2>2. ASSUME NEW d \in Disks PROVE stored[d] \subseteq Images /\ Cardinality(stored[d]) <= 1
    <3>1. stored[d] \subseteq SoundImages /\ \A x, y \in stored[d] : x = y
      BY DEF Inv, Stores, OneCopy
    <3>2. stored[d] = {} \/ \E x : stored[d] = {x}
      BY <3>1
    <3>3. Cardinality(stored[d]) \in {0, 1}
      BY <3>2, FS_EmptySet, FS_Singleton
    <3> QED BY <3>1, <3>3 DEF SoundImages
  <2> QED BY <2>1, <2>2 DEF Inv, Control, Stores, Opens, TypeOK
<1> QED BY <1>1, SpecInv, PTL

\* Whatever was created, written, put, deleted, wiped and lost, in memory and on the host
\* no block is in two files or twice in one, names are unique, and lengths are covered:
\* fs_alloc_block's reading of the directory is enough without a free list.
THEOREM DirectoryIsSound == Spec => []DirectorySound
<1>1. Inv => DirectorySound
  BY SoundImagesAre DEF Inv, Stores, OneCopy, DirectorySound
<1> QED BY <1>1, SpecInv, PTL

\* fs_handles_drop, fs_handles_prune and the order of the steps of fs_put_file leave no
\* open handle on another file than its own, or beyond its end.
THEOREM HandlesAreLive == Spec => []HandlesLive
<1>1. Inv => HandlesLive
  BY DEF Inv, Opens, Live, HandlesLive
<1> QED BY <1>1, SpecInv, PTL

\* A mark that is missing loses nothing: what is not dirty is on the host as it is, also
\* after failed saves, failed puts and restarts.
THEOREM CleanIsSaved == Spec => []CleanIsStored
<1>1. Inv => CleanIsStored
  BY DEF Inv, Stores, Clean, CleanIsStored
<1> QED BY <1>1, SpecInv, PTL
=============================================================================
