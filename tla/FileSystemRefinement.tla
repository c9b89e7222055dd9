------------------------ MODULE FileSystemRefinement ------------------------
(***************************************************************************)
(* FileSystem implements FileStore: what the directory, the blocks and the *)
(* handles of fs.c do is, seen as named contents, what a store may do.     *)
(* A file is read through its block pointers, sector by sector, so the     *)
(* proof is about sectors first (which sector of which file a write or an  *)
(* allocation changes), then about contents, then about the calls.         *)
(***************************************************************************)
EXTENDS FileSystemProofs

---------------------------------------------------------------------------
(* Contents, sector by sector.                                             *)

\* Sector p of file i, where it has a block.
At(im, i, p) == im.data[im.dir[i].alloc[p \div Units]][p % Units]
Backed(im, i, p) == im.dir[i].alloc[p \div Units] # NoBlock

\* What a sector is, and that two sectors with a block are in different places.
LEMMA SectorType ==
  ASSUME NEW im \in SoundImages, NEW i \in Active(im), NEW p \in 0..(FileMax - 1),
         Backed(im, i, p)
  PROVE  /\ im.dir[i].alloc[p \div Units] \in Blocks /\ p % Units \in Offsets
         /\ p \div Units \in Slots /\ At(im, i, p) \in Data
<1>1. im \in Images /\ i \in Entries
  BY DEF SoundImages, Active
<1>2. p \div Units \in Slots /\ p % Units \in Offsets
  BY SlotOf
<1>3. im.dir[i].alloc[p \div Units] \in Blocks
  BY <1>1, <1>2 DEF Images, EntryRecords, Backed
<1> QED BY <1>1, <1>2, <1>3 DEF Images, At

\* Positions are told apart by their slot and their offset.
LEMMA PositionIs ==
  ASSUME NEW p \in Nat, NEW q \in Nat, p \div Units = q \div Units, p % Units = q % Units
  PROVE  p = q
<1>1. ASSUME NEW u \in Nat \ {0}, NEW a \in Nat, NEW b \in Nat, a \div u = b \div u, a % u = b % u
      PROVE  a = b
  <2>1. a = u * (a \div u) + (a % u) /\ b = u * (b \div u) + (b % u)
    OBVIOUS
  <2> QED BY <1>1, <2>1
<1> QED BY <1>1, FileSystemAssumption DEF FileSystemAssumption

\* The length of a file, and that it is covered.
LEMMA LengthIs ==
  ASSUME NEW im \in SoundImages, NEW i \in Active(im)
  PROVE  /\ im.dir[i].len \in 0..FileMax /\ im.dir[i].len \in Nat /\ FileMax \in Nat
         /\ \A p \in 0..(im.dir[i].len - 1) : p \in 0..(FileMax - 1) /\ Backed(im, i, p)
<1>1. im \in Images /\ i \in Entries /\ Covered(im)
  BY DEF SoundImages, Active
<1>2. im.dir[i].len \in 0..FileMax /\ FileMax \in Nat
  BY <1>1, FileMaxType DEF Images, EntryRecords
<1>3. \A p \in 0..(im.dir[i].len - 1) : p \in 0..(FileMax - 1)
  BY <1>2
<1> QED BY <1>1, <1>2, <1>3 DEF Covered, Backed

\* The least element of a set is what Least finds.
LEMMA LeastOf ==
  ASSUME NEW S, S \subseteq Nat, NEW x \in S, \A y \in S : x <= y
  PROVE  Least(S) = x
<1>1. Least(S) \in S /\ \A y \in S : Least(S) <= y
  <2>1. S # {}
    OBVIOUS
  <2> QED BY <2>1, LeastIs
<1>2. Least(S) <= x /\ x <= Least(S)
  BY <1>1
<1>3. Least(S) \in Nat /\ x \in Nat
  BY <1>1
<1> QED BY <1>2, <1>3

\* Every sector of a file can be read: the copy loop stops at the length.
LEMMA ContentsAre ==
  ASSUME NEW im \in SoundImages, NEW i \in Active(im)
  PROVE  /\ Contents(im, i) = [k \in 1..im.dir[i].len |-> At(im, i, k - 1)]
         /\ Contents(im, i) \in Seq(Data) /\ Len(Contents(im, i)) = im.dir[i].len
<1> DEFINE e == im.dir[i]
           ends == {e.len} \cup {s * Units : s \in {t \in Slots : e.alloc[t] = NoBlock}}
           read == [k \in 1..e.len |-> At(im, i, k - 1)]
<1>1. e.len \in 0..FileMax /\ e.len \in Nat /\ Units \in Nat \ {0}
  BY LengthIs, FileSystemAssumption DEF FileSystemAssumption
<1>2. ASSUME NEW s \in Slots, e.alloc[s] = NoBlock PROVE s * Units \in Nat /\ e.len <= s * Units
  <2>1. s \in Nat
    BY FileSystemAssumption DEF FileSystemAssumption, Slots
  <2>2. s * Units \in Nat /\ (s * Units) \div Units = s
    BY <1>1, <2>1
  <2>3. s * Units \in 0..(e.len - 1) => e.alloc[s] # NoBlock
    BY <2>2, LengthIs DEF Backed
  <2> DEFINE p == s * Units
  <2>4. p \in Nat /\ p \notin 0..(e.len - 1)
    BY <1>2, <2>2, <2>3
  <2> HIDE DEF p
  <2>5. e.len <= p
    BY <1>1, <2>4
  <2> QED BY <2>2, <2>5 DEF p
<1>3. ends \subseteq Nat /\ \A y \in ends : e.len <= y
  BY <1>1, <1>2
<1>4. Least(ends) = e.len
  <2>1. e.len \in ends
    OBVIOUS
  <2> HIDE DEF ends
  <2> QED BY <1>3, <2>1, LeastOf
<1>5. Contents(im, i) = read
  BY <1>4 DEF Contents, At
<1>6. read \in Seq(Data) /\ Len(read) = e.len
  <2>1. \A k \in 1..e.len : At(im, i, k - 1) \in Data
    <3> SUFFICES ASSUME NEW k \in 1..e.len PROVE At(im, i, k - 1) \in Data
      OBVIOUS
    <3>1. k - 1 \in 0..(e.len - 1)
      BY <1>1
    <3>2. k - 1 \in 0..(FileMax - 1) /\ Backed(im, i, k - 1)
      BY <3>1, LengthIs
    <3> QED BY <3>2, SectorType
  <2>2. read \in [1..e.len -> Data]
    BY <2>1
  <2> HIDE DEF read
  <2>3. read \in Seq(Data)
    BY <1>1, <2>2, SeqDef
  <2>4. Len(read) \in Nat /\ DOMAIN read = 1..Len(read)
    BY <2>3, LenProperties
  <2>5. 1..Len(read) = 1..e.len
    BY <2>2, <2>4
  <2> QED BY <1>1, <2>3, <2>4, <2>5
<1> QED BY <1>5, <1>6

\* File j is the same in two images.
SameFile(im, new, j) ==
  /\ j \in Active(im) /\ j \in Active(new)
  /\ new.dir[j].name = im.dir[j].name /\ new.dir[j].len = im.dir[j].len
  /\ \A p \in 0..(im.dir[j].len - 1) : At(new, j, p) = At(im, j, p)

\* It has the same contents in both.
LEMMA SameContents ==
  ASSUME NEW im \in SoundImages, NEW new \in SoundImages, NEW j, SameFile(im, new, j)
  PROVE  Contents(new, j) = Contents(im, j)
<1>1. im.dir[j].len \in Nat
  BY LengthIs DEF SameFile
<1>2. \A k \in 1..im.dir[j].len : At(new, j, k - 1) = At(im, j, k - 1)
  <2> SUFFICES ASSUME NEW k \in 1..im.dir[j].len PROVE At(new, j, k - 1) = At(im, j, k - 1)
    OBVIOUS
  <2>1. k - 1 \in 0..(im.dir[j].len - 1)
    BY <1>1
  <2> QED BY <2>1 DEF SameFile
<1>3. new.dir[j].len = im.dir[j].len /\ j \in Active(im) /\ j \in Active(new)
  BY DEF SameFile
<1> QED BY <1>2, <1>3, ContentsAre

---------------------------------------------------------------------------
(* The files of an image, by name.                                         *)

\* fs_find finds a file by its name.
LEMMA FoundIs ==
  ASSUME NEW im \in SoundImages, NEW i \in Active(im)
  PROVE  Find(im, im.dir[i].name) = i
<1>1. NamesOnce(im)
  BY DEF SoundImages
<1>2. Find(im, im.dir[i].name) \in Active(im) /\ im.dir[Find(im, im.dir[i].name)].name = im.dir[i].name
  BY FindIs
<1> QED BY <1>1, <1>2 DEF NamesOnce

\* The files of a sound image: one for each entry, under its name, with its contents.
LEMMA FilesAre ==
  ASSUME NEW im \in SoundImages
  PROVE  /\ DOMAIN Files(im) = {im.dir[i].name : i \in Active(im)}
         /\ Files(im) = [n \in DOMAIN Files(im) |-> Files(im)[n]]
         /\ \A i \in Active(im) : /\ im.dir[i].name \in DOMAIN Files(im)
                                  /\ Files(im)[im.dir[i].name] = Contents(im, i)
         /\ Store!IsStore(Files(im))
<1>1. DOMAIN Files(im) = {im.dir[i].name : i \in Active(im)}
  BY DEF Files
<1>2. Files(im) = [n \in DOMAIN Files(im) |-> Files(im)[n]]
  BY DEF Files
<1>3. ASSUME NEW i \in Active(im)
      PROVE  /\ im.dir[i].name \in DOMAIN Files(im)
             /\ Files(im)[im.dir[i].name] = Contents(im, i)
  BY FoundIs DEF Files
<1>4. Store!IsStore(Files(im))
  <2> SUFFICES ASSUME NEW i \in Active(im)
               PROVE  im.dir[i].name \in Names /\ Files(im)[im.dir[i].name] \in Seq(Data)
    BY <1>1 DEF Store!IsStore
  <2>1. im.dir[i].name \in Names
    BY DEF SoundImages, NamesOnce
  <2> QED BY <1>3, <2>1, ContentsAre
<1> QED BY <1>1, <1>2, <1>3, <1>4

\* When entries go and the others stay the same, files go and the others stay.
LEMMA FilesOnly ==
  ASSUME NEW im \in SoundImages, NEW new \in SoundImages, Active(new) \subseteq Active(im),
         \A j \in Active(new) : SameFile(im, new, j)
  PROVE  Files(new) = Store!Only(Files(im), {im.dir[j].name : j \in Active(new)})
<1> DEFINE S == {im.dir[j].name : j \in Active(new)}
<1>1. DOMAIN Files(new) = S
  BY FilesAre DEF SameFile
<1>2. ASSUME NEW n \in S PROVE Files(new)[n] = Files(im)[n]
  <2>1. PICK j \in Active(new) : n = im.dir[j].name
    OBVIOUS
  <2>2. new.dir[j].name = n /\ Contents(new, j) = Contents(im, j)
    BY <2>1, SameContents DEF SameFile
  <2>3. Files(new)[n] = Contents(new, j) /\ Files(im)[n] = Contents(im, j)
    BY <2>1, <2>2, FilesAre
  <2> QED BY <2>2, <2>3
<1> HIDE DEF S
<1>3. Files(new) = [n \in S |-> Files(im)[n]]
  BY <1>1, <1>2, FilesAre
<1> QED BY <1>3 DEF Store!Only, S

\* When nothing goes, nothing changes.
LEMMA FilesSame ==
  ASSUME NEW im \in SoundImages, NEW new \in SoundImages, Active(new) = Active(im),
         \A j \in Active(im) : SameFile(im, new, j)
  PROVE  Files(new) = Files(im)
<1>1. Files(new) = Store!Only(Files(im), {im.dir[j].name : j \in Active(im)})
  BY FilesOnly
<1>2. Files(new) = [n \in DOMAIN Files(im) |-> Files(im)[n]]
  BY <1>1, FilesAre DEF Store!Only
<1> QED BY <1>2, FilesAre

\* Only entry i is new or has other contents, under the name n.
OnlyFile(im, new, i, n) ==
  /\ im \in SoundImages /\ new \in SoundImages
  /\ Active(new) = Active(im) \cup {i} /\ new.dir[i].name = n
  /\ i \in Active(im) => im.dir[i].name = n
  /\ \A j \in Active(im) \ {i} : SameFile(im, new, j)

\* When one entry is new or has other contents, one file is.
LEMMA FilesWith ==
  ASSUME NEW im, NEW new, NEW i, NEW n, OnlyFile(im, new, i, n)
  PROVE  Files(new) = Store!With(Files(im), n, Contents(new, i))
<1>0. /\ im \in SoundImages /\ new \in SoundImages
      /\ Active(new) = Active(im) \cup {i} /\ new.dir[i].name = n
      /\ i \in Active(im) => im.dir[i].name = n
      /\ \A j \in Active(im) \ {i} : SameFile(im, new, j)
  BY DEF OnlyFile
<1>1. DOMAIN Files(new) = DOMAIN Files(im) \cup {n}
  <2>1. DOMAIN Files(new) = {new.dir[j].name : j \in Active(new)}
    BY <1>0, FilesAre
  <2>2. DOMAIN Files(im) = {im.dir[j].name : j \in Active(im)}
    BY <1>0, FilesAre
  <2>3. \A j \in Active(im) \ {i} : new.dir[j].name = im.dir[j].name
    BY <1>0 DEF SameFile
  <2> QED BY <1>0, <2>1, <2>2, <2>3
<1>2. ASSUME NEW k \in DOMAIN Files(new)
      PROVE  Files(new)[k] = IF k = n THEN Contents(new, i) ELSE Files(im)[k]
  <2>0. DOMAIN Files(new) = {new.dir[j].name : j \in Active(new)}
    BY <1>0, FilesAre
  <2>1. PICK j \in Active(new) : k = new.dir[j].name
    BY <2>0
  <2>2. Files(new)[k] = Contents(new, j)
    BY <1>0, <2>1, FilesAre
  <2>3. CASE j = i
    BY <1>0, <2>1, <2>2, <2>3
  <2>4. CASE j # i
    <3>1. j \in Active(im) \ {i} /\ im.dir[j].name = k /\ Contents(new, j) = Contents(im, j)
      BY <2>1, <1>0, <2>4, SameContents DEF SameFile
    <3>2. Files(im)[k] = Contents(im, j)
      BY <1>0, <3>1, FilesAre
    <3>3. k # n
      <4>1. NamesOnce(new) /\ i \in Active(new)
        BY <1>0 DEF SoundImages
      <4> QED BY <1>0, <2>1, <2>4, <4>1 DEF NamesOnce
    <3> QED BY <2>2, <3>1, <3>2, <3>3
  <2> QED BY <2>3, <2>4
<1>3. Files(new) = [k \in DOMAIN Files(im) \cup {n} |->
                      IF k = n THEN Contents(new, i) ELSE Files(im)[k]]
  <2>1. Files(new) = [k \in DOMAIN Files(new) |-> Files(new)[k]]
    BY <1>0, FilesAre
  <2> QED BY <1>1, <1>2, <2>1
<1> QED BY <1>3 DEF Store!With

\* fs_entry_erase takes one file away.
LEMMA FilesErased ==
  ASSUME NEW im \in SoundImages, NEW i \in Entries
  PROVE  /\ \A j \in Active(im) \ {i} : SameFile(im, Erased(im, i), j)
         /\ i \in Active(im) =>
              Files(Erased(im, i)) = Store!Only(Files(im), DOMAIN Files(im) \ {im.dir[i].name})
         /\ i \notin Active(im) => Files(Erased(im, i)) = Files(im)
<1> DEFINE new == Erased(im, i)
<1>1. /\ new \in SoundImages /\ Active(new) = Active(im) \ {i}
      /\ \A j \in Active(im) \ {i} : new.dir[j] = im.dir[j]
  BY ErasedSound
<1>2. new.data = im.data
  <2>1. im \in Images
    BY DEF SoundImages
  <2> QED BY <2>1 DEF Erased, Images
<1> HIDE DEF new
<1>3. \A j \in Active(im) \ {i} : SameFile(im, new, j)
  BY <1>1, <1>2 DEF SameFile, At
<1>4. ASSUME i \in Active(im)
      PROVE  Files(new) = Store!Only(Files(im), DOMAIN Files(im) \ {im.dir[i].name})
  <2>1. Files(new) = Store!Only(Files(im), {im.dir[j].name : j \in Active(new)})
    BY <1>1, <1>3, FilesOnly
  <2>2. {im.dir[j].name : j \in Active(im) \ {i}} = DOMAIN Files(im) \ {im.dir[i].name}
    <3>1. DOMAIN Files(im) = {im.dir[j].name : j \in Active(im)}
      BY FilesAre
    <3>2. \A j \in Active(im) : im.dir[j].name = im.dir[i].name => j = i
      BY <1>4 DEF SoundImages, NamesOnce
    <3> QED BY <3>1, <3>2
  <2> QED BY <1>1, <2>1, <2>2
<1>5. ASSUME i \notin Active(im) PROVE Files(new) = Files(im)
  <2>1. Active(im) \ {i} = Active(im)
    BY <1>5
  <2> QED BY <1>1, <1>3, <2>1, FilesSame
<1> QED BY <1>3, <1>4, <1>5 DEF new

\* A new entry is an empty file.
LEMMA FilesCreated ==
  ASSUME NEW im \in SoundImages, NEW i \in Entries \ Active(im), NEW n \in Names,
         \A j \in Active(im) : im.dir[j].name # n
  PROVE  /\ \A j \in Active(im) : SameFile(im, Created(im, i, n), j)
         /\ Files(Created(im, i, n)) = Store!With(Files(im), n, << >>)
<1> DEFINE new == Created(im, i, n)
<1>1. /\ new \in SoundImages /\ Active(new) = Active(im) \cup {i}
      /\ \A j \in Active(im) : new.dir[j] = im.dir[j]
      /\ new.dir[i].name = n /\ new.dir[i].len = 0
  BY CreatedSound
<1>2. new.data = im.data
  <2>1. im \in Images
    BY DEF SoundImages
  <2> QED BY <2>1 DEF Created, Images
<1> HIDE DEF new
<1>3. \A j \in Active(im) : SameFile(im, new, j)
  BY <1>1, <1>2 DEF SameFile, At
<1>4. Contents(new, i) = << >>
  <2>1. i \in Active(new) /\ Contents(new, i) \in Seq(Data) /\ Len(Contents(new, i)) = 0
    BY <1>1, ContentsAre
  <2> QED BY <2>1, EmptySeq
<1>5. Files(new) = Store!With(Files(im), n, Contents(new, i))
  <2>1. OnlyFile(im, new, i, n)
    BY <1>1, <1>3 DEF OnlyFile
  <2> QED BY <2>1, FilesWith
<1> QED BY <1>3, <1>4, <1>5 DEF new

---------------------------------------------------------------------------
(* One sector written.                                                     *)

\* What one turn of the loop of fs_write does: it stops, or it stores the sector in
\* the block the entry has or in one that no entry has.
UnitStored(w, v, block, sectors) ==
  LET i == w.i
      slot == w.pos \div Units
      old == w.im.dir[i].alloc[slot] IN
  /\ ~w.full /\ w.pos \in 0..(FileMax - 1)
  /\ block \in Blocks /\ sectors \in [Offsets -> Data]
  /\ \/ old = block /\ \A o \in Offsets : o # w.pos % Units => sectors[o] = w.im.data[block][o]
     \/ old = NoBlock /\ \A j \in Active(w.im), s \in Slots : w.im.dir[j].alloc[s] # block
  /\ sectors[w.pos % Units] = v
  /\ WriteUnit(w, v) = [im |-> Storing(w.im, i, slot, block, sectors), i |-> i,
                        pos |-> w.pos + 1, full |-> FALSE]
UnitRefused(w, v) ==
  /\ WriteUnit(w, v) = [im |-> w.im, i |-> w.i, pos |-> w.pos, full |-> TRUE]
  /\ w.full \/ w.pos >= FileMax
     \/ (w.im.dir[w.i].alloc[w.pos \div Units] = NoBlock /\ AllocBlock(w.im) = None)

\* There is no third case.
LEMMA UnitIs ==
  ASSUME NEW im \in SoundImages, NEW i \in Active(im), NEW pos \in 0..FileMax,
         NEW w \in Writings(im, i, pos), NEW v \in Data
  PROVE  UnitRefused(w, v) \/ \E block, sectors : UnitStored(w, v, block, sectors)
<1> DEFINE slot == w.pos \div Units
           old == w.im.dir[i].alloc[slot]
           block == IF old # NoBlock THEN old ELSE AllocBlock(w.im)
           before == IF old # NoBlock THEN w.im.data[block] ELSE ZeroBlock
           sectors == [before EXCEPT ![w.pos % Units] = v]
           stop == w.full \/ w.pos >= FileMax \/ block = None
<1>0. FileMax \in Nat
  BY FileMaxType
<1>1. /\ w.im \in SoundImages /\ w.i = i /\ w.pos \in pos..FileMax /\ w.full \in BOOLEAN
      /\ w = [im |-> w.im, i |-> i, pos |-> w.pos, full |-> w.full]
  BY DEF Writings
<1>2. \A j \in Entries : w.im.dir[j].active = im.dir[j].active
  BY DEF Writings
<1>3. Active(w.im) = Active(im) /\ i \in Active(w.im)
  BY <1>2 DEF Active
<1>4. CASE stop
  <2>1. WriteUnit(w, v) = [w EXCEPT !.full = TRUE]
    BY <1>1, <1>4 DEF WriteUnit
  <2>2. WriteUnit(w, v) = [im |-> w.im, i |-> i, pos |-> w.pos, full |-> TRUE]
    BY <1>1, <2>1
  <2>3. ASSUME block = None, w.pos < FileMax PROVE old = NoBlock /\ AllocBlock(w.im) = None
    <3>1. slot \in Slots
      <4>1. w.pos \in 0..(FileMax - 1)
        BY <1>0, <1>1, <2>3
      <4> QED BY <4>1, SlotOf
    <3>2. old \in Blocks \cup {NoBlock}
      BY <1>1, <1>3, <3>1 DEF SoundImages, Images, EntryRecords, Active
    <3> QED BY <2>3, <3>2 DEF Blocks, NoBlock, None
  <2>4. w.pos >= FileMax \/ w.pos < FileMax
    BY <1>0, <1>1
  <2>5. w.full \/ w.pos >= FileMax \/ (old = NoBlock /\ AllocBlock(w.im) = None)
    BY <1>4, <2>3, <2>4
  <2>6. UnitRefused(w, v)
    BY <1>1, <2>2, <2>5 DEF UnitRefused
  <2> QED BY <2>6
<1>5. CASE ~stop
  <2> HIDE DEF block, before, sectors
  <2>1. w.pos \in 0..(FileMax - 1) /\ ~w.full /\ block # None
    BY <1>0, <1>1, <1>5
  <2>2. slot \in Slots /\ w.pos % Units \in Offsets
    BY <2>1, SlotOf
  <2>3. w.im \in Images
    BY <1>1 DEF SoundImages
  <2>4. old \in Blocks \cup {NoBlock}
    BY <1>3, <2>2, <2>3 DEF Images, EntryRecords, Active
  <2>5. /\ block \in Blocks
        /\ \/ old = block /\ old # NoBlock
           \/ old = NoBlock /\ \A j \in Active(w.im), s \in Slots : w.im.dir[j].alloc[s] # block
    BY <2>1, <2>4, AllocBlockIs DEF block
  <2>6. before \in [Offsets -> Data]
    BY <2>3, <2>5, EntryTypes DEF before, Images
  <2>7. /\ sectors \in [Offsets -> Data] /\ sectors[w.pos % Units] = v
        /\ \A o \in Offsets : o # w.pos % Units => sectors[o] = before[o]
    BY <2>2, <2>6 DEF sectors
  <2>8. WriteUnit(w, v) = [im |-> Storing(w.im, i, slot, block, sectors), i |-> i,
                           pos |-> w.pos + 1, full |-> FALSE]
    <3>1. WriteUnit(w, v) = [w EXCEPT !.im.dir[i].alloc[slot] = block,
                                      !.im.data[block] = sectors, !.pos = @ + 1]
      BY <1>1, <1>5 DEF WriteUnit, block, before, sectors
    <3> HIDE DEF slot
    <3> QED BY <1>1, <2>1, <3>1 DEF Storing
  <2>9. old = block /\ old # NoBlock => before = w.im.data[block]
    BY DEF before
  <2>10. \/ old = block /\ \A o \in Offsets : o # w.pos % Units => sectors[o] = w.im.data[block][o]
         \/ old = NoBlock /\ \A j \in Active(w.im), s \in Slots : w.im.dir[j].alloc[s] # block
    BY <2>5, <2>7, <2>9
  <2>11. UnitStored(w, v, block, sectors)
    BY <1>1, <2>1, <2>5, <2>7, <2>8, <2>10 DEF UnitStored
  <2> QED BY <2>11
<1> QED BY <1>4, <1>5

\* Sectors stored in the block of position p of file i: its own, where the other sectors
\* stay what they were, or one that no file has.
StoresAt(im, new, i, p, block, sectors) ==
  /\ im \in SoundImages /\ i \in Active(im) /\ p \in 0..(FileMax - 1)
  /\ block \in Blocks /\ sectors \in [Offsets -> Data]
  /\ \/ /\ im.dir[i].alloc[p \div Units] = block
        /\ \A o \in Offsets : o # p % Units => sectors[o] = im.data[block][o]
     \/ /\ im.dir[i].alloc[p \div Units] = NoBlock
        /\ \A j \in Active(im), s \in Slots : im.dir[j].alloc[s] # block
  /\ new = Storing(im, i, p \div Units, block, sectors)

\* Where a stored sector is, and that every other sector of every file is where and
\* what it was: no other file has the block, and this one has it in no other slot.
LEMMA StoredSectors ==
  ASSUME NEW im, NEW new, NEW i, NEW p, NEW block, NEW sectors,
         StoresAt(im, new, i, p, block, sectors)
  PROVE  /\ \A j \in Entries, s \in Slots :
              new.dir[j].alloc[s] = IF j = i /\ s = p \div Units THEN block ELSE im.dir[j].alloc[s]
         /\ Backed(new, i, p) /\ At(new, i, p) = sectors[p % Units]
         /\ \A j \in Active(im), q \in 0..(FileMax - 1) :
              Backed(im, j, q) /\ ~(j = i /\ q = p) =>
                Backed(new, j, q) /\ At(new, j, q) = At(im, j, q)
<1> DEFINE slot == p \div Units
<1>0. /\ im \in SoundImages /\ i \in Active(im) /\ p \in 0..(FileMax - 1)
      /\ block \in Blocks /\ sectors \in [Offsets -> Data]
      /\ \/ /\ im.dir[i].alloc[slot] = block
            /\ \A o \in Offsets : o # p % Units => sectors[o] = im.data[block][o]
         \/ /\ im.dir[i].alloc[slot] = NoBlock
            /\ \A j \in Active(im), s \in Slots : im.dir[j].alloc[s] # block
      /\ new = Storing(im, i, slot, block, sectors)
  BY DEF StoresAt
<1>1. im \in Images /\ i \in Entries /\ slot \in Slots /\ p % Units \in Offsets
  BY <1>0, SlotOf DEF SoundImages, Active
<1>2. block # NoBlock
  BY <1>0 DEF Blocks, NoBlock
<1>3. \A j \in Entries, s \in Slots :
        new.dir[j].alloc[s] = IF j = i /\ s = slot THEN block ELSE im.dir[j].alloc[s]
  <2> HIDE DEF slot
  <2>1. /\ \A j \in Entries \ {i} : new.dir[j].alloc = im.dir[j].alloc
        /\ new.dir[i].alloc = [im.dir[i].alloc EXCEPT ![slot] = block]
    BY <1>0, <1>1 DEF Images, EntryRecords, Storing
  <2>2. im.dir[i].alloc \in [Slots -> Blocks \cup {NoBlock}]
    BY <1>1 DEF Images, EntryRecords
  <2> QED BY <1>1, <2>1, <2>2
<1>4. \A b \in Blocks : new.data[b] = IF b = block THEN sectors ELSE im.data[b]
  <2> HIDE DEF slot
  <2>1. new.data = [im.data EXCEPT ![block] = sectors]
    BY <1>0, <1>1 DEF Images, Storing
  <2> QED BY <1>0, <1>1, <2>1 DEF Images
<1>5. Backed(new, i, p) /\ At(new, i, p) = sectors[p % Units]
  BY <1>0, <1>1, <1>2, <1>3, <1>4 DEF Backed, At
<1>6. ASSUME NEW j \in Active(im), NEW q \in 0..(FileMax - 1), Backed(im, j, q), ~(j = i /\ q = p)
      PROVE  Backed(new, j, q) /\ At(new, j, q) = At(im, j, q)
  <2> DEFINE b == im.dir[j].alloc[q \div Units]
  <2>1. b \in Blocks /\ q \div Units \in Slots /\ q % Units \in Offsets /\ j \in Entries
    BY <1>0, <1>6, SectorType DEF Active
  <2>2. b # NoBlock
    BY <1>6 DEF Backed
  <2>3. CASE j = i /\ q \div Units = slot
    <3>1. b = block /\ \A o \in Offsets : o # p % Units => sectors[o] = im.data[block][o]
      BY <1>0, <2>2, <2>3
    <3>2. q % Units # p % Units
      <4>1. p \in Nat /\ q \in Nat /\ p # q
        BY <1>0, <1>6, <2>3, FileMaxType
      <4> QED BY <2>3, <4>1, PositionIs
    <3>3. new.dir[j].alloc[q \div Units] = block
      BY <1>3, <2>1, <2>3
    <3>4. At(new, j, q) = sectors[q % Units]
      BY <1>0, <1>4, <3>3 DEF At
    <3> QED BY <1>2, <2>1, <3>1, <3>2, <3>3, <3>4 DEF Backed, At
  <2>4. CASE ~(j = i /\ q \div Units = slot)
    <3>1. new.dir[j].alloc[q \div Units] = b
      BY <1>3, <2>1, <2>4
    <3>2. b # block
      <4>1. BlocksOnce(im)
        BY <1>0 DEF SoundImages
      <4> QED BY <1>0, <1>1, <2>1, <2>2, <2>4, <4>1 DEF BlocksOnce
    <3>3. new.data[b] = im.data[b]
      BY <1>4, <2>1, <3>2
    <3> QED BY <2>2, <3>1, <3>3 DEF Backed, At
  <2> QED BY <2>3, <2>4
<1> QED BY <1>3, <1>5, <1>6

---------------------------------------------------------------------------
(* The loop of fs_write: what it has written is c, what it has not is as it was. *)

\* Where writing c to entry i from pos on can be after n sectors.
Turns(im, i, pos, c, n) ==
  {w \in Writings(im, i, pos) :
     /\ w.pos <= pos + n /\ (w.full \/ w.pos = pos + n)
     /\ \A j \in Active(im), q \in 0..(FileMax - 1) :
          Backed(im, j, q) /\ ~(j = i /\ q \in pos..(w.pos - 1)) =>
            Backed(w.im, j, q) /\ At(w.im, j, q) = At(im, j, q)
     /\ \A q \in pos..(w.pos - 1) :
          Backed(w.im, i, q) /\ At(w.im, i, q) = c[q - pos + 1]}

\* One sector more.
LEMMA TurnTaken ==
  ASSUME NEW im \in SoundImages, NEW i \in Active(im), NEW pos \in 0..FileMax,
         NEW c \in Seq(Data), NEW n \in 0..(Len(c) - 1), NEW w \in Turns(im, i, pos, c, n)
  PROVE  WriteUnit(w, c[n + 1]) \in Turns(im, i, pos, c, n + 1)
<1> DEFINE v == c[n + 1]
           new == WriteUnit(w, v)
<1>1. v \in Data /\ n + 1 \in 1..Len(c) /\ n \in Nat /\ pos \in Nat /\ FileMax \in Nat
  <2>1. Len(c) \in Nat /\ FileMax \in Nat
    BY FileMaxType
  <2>2. n + 1 \in 1..Len(c) /\ n \in Nat /\ pos \in Nat
    BY <2>1
  <2> QED BY <2>1, <2>2
<1>2. /\ w \in Writings(im, i, pos) /\ w.pos <= pos + n /\ (w.full \/ w.pos = pos + n)
      /\ \A j \in Active(im), q \in 0..(FileMax - 1) :
           Backed(im, j, q) /\ ~(j = i /\ q \in pos..(w.pos - 1)) =>
             Backed(w.im, j, q) /\ At(w.im, j, q) = At(im, j, q)
      /\ \A q \in pos..(w.pos - 1) :
           Backed(w.im, i, q) /\ At(w.im, i, q) = c[q - pos + 1]
  BY DEF Turns
<1> HIDE DEF v
<1>3. new \in Writings(im, i, pos)
  BY <1>1, <1>2, UnitWritten
<1>4. /\ w.im \in SoundImages /\ w.i = i /\ w.pos \in pos..FileMax /\ w.pos \in Nat
      /\ Active(w.im) = Active(im)
  <2>1. w.im \in SoundImages /\ w.i = i /\ w.pos \in pos..FileMax
    BY <1>2 DEF Writings
  <2>2. \A j \in Entries : w.im.dir[j].active = im.dir[j].active
    BY <1>2 DEF Writings
  <2> QED BY <1>1, <2>1, <2>2 DEF Active
<1>5. ASSUME UnitRefused(w, v) PROVE new \in Turns(im, i, pos, c, n + 1)
  <2>1. new = [im |-> w.im, i |-> w.i, pos |-> w.pos, full |-> TRUE]
    BY <1>5 DEF UnitRefused
  <2>2. new.im = w.im /\ new.pos = w.pos /\ new.full
    BY <2>1
  <2>3. w.pos <= pos + (n + 1)
    BY <1>1, <1>2, <1>4
  <2> HIDE DEF new
  <2> QED BY <1>2, <1>3, <2>2, <2>3 DEF Turns
<1>6. ASSUME NEW block, NEW sectors, UnitStored(w, v, block, sectors)
      PROVE  new \in Turns(im, i, pos, c, n + 1)
  <2> DEFINE p == w.pos
             after == Storing(w.im, i, p \div Units, block, sectors)
  <2>1. /\ ~w.full /\ p \in 0..(FileMax - 1) /\ block \in Blocks /\ sectors \in [Offsets -> Data]
        /\ \/ /\ w.im.dir[i].alloc[p \div Units] = block
              /\ \A o \in Offsets : o # p % Units => sectors[o] = w.im.data[block][o]
           \/ /\ w.im.dir[i].alloc[p \div Units] = NoBlock
              /\ \A j \in Active(w.im), s \in Slots : w.im.dir[j].alloc[s] # block
        /\ sectors[p % Units] = v
        /\ new = [im |-> after, i |-> i, pos |-> p + 1, full |-> FALSE]
    BY <1>4, <1>6 DEF UnitStored
  <2>2. new.im = after /\ new.pos = p + 1 /\ ~new.full
    BY <2>1
  <2>3. p = pos + n
    BY <1>2, <2>1
  <2> HIDE DEF new
  <2>9. StoresAt(w.im, after, i, p, block, sectors)
    BY <1>4, <2>1 DEF StoresAt
  <2> HIDE DEF p, after
  <2>4. /\ Backed(after, i, p) /\ At(after, i, p) = v
        /\ \A j \in Active(im), q \in 0..(FileMax - 1) :
             Backed(w.im, j, q) /\ ~(j = i /\ q = p) =>
               Backed(after, j, q) /\ At(after, j, q) = At(w.im, j, q)
    BY <1>4, <2>1, <2>9, StoredSectors
  <2>5. new.pos <= pos + (n + 1) /\ new.pos = pos + (n + 1)
    BY <1>1, <2>2, <2>3
  <2>6. ASSUME NEW j \in Active(im), NEW q \in 0..(FileMax - 1),
               Backed(im, j, q), ~(j = i /\ q \in pos..(new.pos - 1))
        PROVE  Backed(new.im, j, q) /\ At(new.im, j, q) = At(im, j, q)
    <3>1. ~(j = i /\ q \in pos..(w.pos - 1)) /\ ~(j = i /\ q = p)
      BY <1>1, <2>2, <2>3, <2>6 DEF p
    <3>2. Backed(w.im, j, q) /\ At(w.im, j, q) = At(im, j, q)
      BY <1>2, <2>6, <3>1
    <3> QED BY <2>2, <2>4, <3>1, <3>2
  <2>7. ASSUME NEW q \in pos..(new.pos - 1)
        PROVE  Backed(new.im, i, q) /\ At(new.im, i, q) = c[q - pos + 1]
    <3>1. CASE q = p
      <4>1. q - pos + 1 = n + 1
        BY <1>1, <2>3, <3>1
      <4> QED BY <2>2, <2>4, <3>1, <4>1 DEF v
    <3>2. CASE q # p
      <4>1. q \in pos..(w.pos - 1) /\ q \in 0..(FileMax - 1)
        BY <1>1, <2>1, <2>2, <2>3, <3>2 DEF p
      <4>2. Backed(w.im, i, q) /\ At(w.im, i, q) = c[q - pos + 1]
        BY <1>2, <4>1
      <4> QED BY <2>2, <2>4, <3>2, <4>1, <4>2
    <3> QED BY <3>1, <3>2
  <2> QED BY <1>3, <2>5, <2>6, <2>7 DEF Turns
<1>7. UnitRefused(w, v) \/ \E block, sectors : UnitStored(w, v, block, sectors)
  BY <1>1, <1>2, UnitIs
<1>8. new \in Turns(im, i, pos, c, n + 1)
  BY <1>5, <1>6, <1>7
<1> QED BY <1>8 DEF v

\* The loop to its end.
LEMMA SectorsWritten ==
  ASSUME NEW im \in SoundImages, NEW i \in Active(im), NEW pos \in 0..FileMax,
         NEW c \in Seq(Data)
  PROVE  \E w \in Turns(im, i, pos, c, Len(c)) :
           Written(im, i, pos, c) = [im |-> [w.im EXCEPT !.dir[i].len = Larger(@, w.pos)],
                                     total |-> w.pos - pos]
<1> DEFINE R == [n \in 0..Len(c) |-> Turns(im, i, pos, c, n)]
           start == [im |-> im, i |-> i, pos |-> pos, full |-> FALSE]
<1>1. Len(c) \in Nat
  OBVIOUS
<1>2. start \in Turns(im, i, pos, c, 0)
  <2>1. pos \in pos..FileMax /\ pos <= pos + 0 /\ pos = pos + 0 /\ pos..(pos - 1) = {}
    BY FileMaxType
  <2>2. start \in Writings(im, i, pos)
    BY <2>1 DEF Writings
  <2> QED BY <2>1, <2>2 DEF Turns
<1> HIDE DEF start
<1>3. \A n \in 0..Len(c) : R[n] = Turns(im, i, pos, c, n)
  OBVIOUS
<1>4. R[0] = Turns(im, i, pos, c, 0) /\ R[Len(c)] = Turns(im, i, pos, c, Len(c))
  BY <1>1
<1>5. \A n \in 0..Len(c) : R[n] \subseteq Writings(im, i, pos)
  BY <1>3 DEF Turns
<1>6. ASSUME NEW n \in 0..(Len(c) - 1), NEW w \in R[n] PROVE WriteUnit(w, c[n + 1]) \in R[n + 1]
  <2>1. n \in 0..Len(c) /\ n + 1 \in 0..Len(c)
    BY <1>1
  <2>2. w \in Turns(im, i, pos, c, n) /\ R[n + 1] = Turns(im, i, pos, c, n + 1)
    BY <1>3, <2>1
  <2> QED BY <2>2, TurnTaken
<1> HIDE DEF R
<1>7. \E w \in R[Len(c)] :
           Written(im, i, pos, c) = [im |-> [w.im EXCEPT !.dir[i].len = Larger(@, w.pos)],
                                     total |-> w.pos - pos]
  BY <1>2, <1>4, <1>5, <1>6, WrittenAlong DEF start
<1> QED BY <1>4, <1>7

\* A prefix of what is written.
LEMMA PrefixIs ==
  ASSUME NEW c \in Seq(Data), NEW total \in 0..Len(c)
  PROVE  /\ SubSeq(c, 1, total) \in Seq(Data) /\ Len(SubSeq(c, 1, total)) = total
         /\ \A k \in 1..total : SubSeq(c, 1, total)[k] = c[k]
         /\ total = Len(c) => SubSeq(c, 1, total) = c
<1>1. Len(c) \in Nat /\ total \in Nat /\ \A k \in 1..total : k \in 1..Len(c)
  OBVIOUS
<1>2. /\ SubSeq(c, 1, total) \in Seq(Data) /\ Len(SubSeq(c, 1, total)) = total
      /\ \A k \in 1..total : SubSeq(c, 1, total)[k] = c[k]
  BY <1>1
<1>3. ASSUME total = Len(c) PROVE SubSeq(c, 1, total) = c
  <2> DEFINE d == SubSeq(c, 1, total)
  <2>1. d \in Seq(Data) /\ Len(d) = Len(c) /\ \A k \in 1..Len(c) : d[k] = c[k]
    BY <1>2, <1>3
  <2> HIDE DEF d
  <2>2. d = c
    BY <2>1, SeqEqual
  <2> QED BY <2>2 DEF d
<1> QED BY <1>2, <1>3

\* fs_write at its end: the length of the entry is set.
WithLength(im, i, len) == [im EXCEPT !.dir = [im.dir EXCEPT ![i] = [im.dir[i] EXCEPT !.len = len]]]

\* A new length changes nothing else of an image.
LEMMA Lengthened ==
  ASSUME NEW im \in Images, NEW i \in Entries, NEW len
  PROVE  /\ WithLength(im, i, len).data = im.data
         /\ \A j \in Entries : /\ WithLength(im, i, len).dir[j].name = im.dir[j].name
                              /\ WithLength(im, i, len).dir[j].alloc = im.dir[j].alloc
                              /\ WithLength(im, i, len).dir[j].len = IF j = i THEN len ELSE im.dir[j].len
<1> DEFINE e == [im.dir[i] EXCEPT !.len = len]
           new == WithLength(im, i, len)
<1>1. im.dir[i] \in EntryRecords
  BY DEF Images
<1>2. e.name = im.dir[i].name /\ e.alloc = im.dir[i].alloc /\ e.len = len
  BY <1>1 DEF EntryRecords
<1> HIDE DEF e
<1>3. new = [im EXCEPT !.dir = [im.dir EXCEPT ![i] = e]]
  BY DEF e, WithLength
<1> HIDE DEF new
<1>4. new.data = im.data /\ \A j \in Entries : new.dir[j] = IF j = i THEN e ELSE im.dir[j]
  BY <1>3 DEF Images
<1> QED BY <1>2, <1>4 DEF new

\* fs_write on a position within the file lays a prefix of its data over the contents from
\* there on, and changes no other file.
LEMMA WrittenFiles ==
  ASSUME NEW im \in SoundImages, NEW i \in Active(im), NEW pos \in 0..im.dir[i].len,
         NEW c \in Seq(Data), NEW r, r = Written(im, i, pos, c)
  PROVE  /\ r.im \in SoundImages /\ Active(r.im) = Active(im) /\ r.total \in 0..Len(c)
         /\ \A j \in Active(im) \ {i} : SameFile(im, r.im, j)
         /\ r.im.dir[i].name = im.dir[i].name
         /\ Contents(r.im, i) = Store!Overlay(Contents(im, i), pos, SubSeq(c, 1, r.total))
<1>1. im \in Images /\ i \in Entries /\ \A j \in Active(im) : j \in Entries
  BY DEF SoundImages, Active
<1>2. /\ im.dir[i].len \in 0..FileMax /\ im.dir[i].len \in Nat /\ pos \in 0..FileMax /\ pos \in Nat
      /\ FileMax \in Nat /\ Len(c) \in Nat
  BY LengthIs
<1>3. PICK w \in Turns(im, i, pos, c, Len(c)) :
        Written(im, i, pos, c) = [im |-> [w.im EXCEPT !.dir[i].len = Larger(@, w.pos)],
                                  total |-> w.pos - pos]
  BY <1>2, SectorsWritten
<1> DEFINE new == [w.im EXCEPT !.dir[i].len = Larger(@, w.pos)]
           len == Larger(im.dir[i].len, w.pos)
           total == w.pos - pos
<1>4. /\ w.im \in SoundImages /\ w.im \in Images /\ w.pos \in pos..FileMax /\ w.pos <= pos + Len(c)
      /\ \A j \in Entries : /\ w.im.dir[j].name = im.dir[j].name
                           /\ w.im.dir[j].len = im.dir[j].len
      /\ \A j \in Active(im), q \in 0..(FileMax - 1) :
           Backed(im, j, q) /\ ~(j = i /\ q \in pos..(w.pos - 1)) =>
             Backed(w.im, j, q) /\ At(w.im, j, q) = At(im, j, q)
      /\ \A q \in pos..(w.pos - 1) :
           Backed(w.im, i, q) /\ At(w.im, i, q) = c[q - pos + 1]
  BY <1>3 DEF Turns, Writings, SoundImages
<1>5. r.im = new /\ r.total = total /\ total \in 0..Len(c) /\ pos + total = w.pos
  <2>1. r.im = new /\ r.total = total
    BY <1>3
  <2>2. w.pos \in Nat /\ pos <= w.pos
    BY <1>2, <1>4
  <2>3. total \in 0..Len(c) /\ pos + total = w.pos
    BY <1>2, <1>4, <2>2
  <2> QED BY <2>1, <2>3
<1>6. /\ r.im \in SoundImages /\ Active(r.im) = Active(im)
      /\ \A j \in Active(im) : Keeps(im, r.im, j)
  BY WrittenSound
<1>7. new = WithLength(w.im, i, len)
  BY <1>1, <1>4 DEF WithLength
<1>8. /\ len \in Nat /\ im.dir[i].len <= len /\ w.pos <= len
      /\ len = im.dir[i].len \/ len = w.pos
  BY <1>2, <1>4 DEF Larger
<1>20. len = IF pos + total > im.dir[i].len THEN pos + total ELSE im.dir[i].len
  BY <1>2, <1>4, <1>5 DEF Larger
<1> HIDE DEF new, len, total
<1>9. /\ new.data = w.im.data
      /\ \A j \in Entries : /\ new.dir[j].name = im.dir[j].name
                           /\ new.dir[j].alloc = w.im.dir[j].alloc
                           /\ new.dir[j].len = IF j = i THEN len ELSE im.dir[j].len
  BY <1>1, <1>4, <1>7, Lengthened
<1>10. \A j \in Entries : \A q : At(new, j, q) = At(w.im, j, q)
  BY <1>9 DEF At
<1>11. ASSUME NEW j \in Active(im) \ {i} PROVE SameFile(im, new, j)
  <2>1. \A p \in 0..(im.dir[j].len - 1) : p \in 0..(FileMax - 1) /\ Backed(im, j, p)
    BY LengthIs
  <2>2. \A p \in 0..(im.dir[j].len - 1) : At(new, j, p) = At(im, j, p)
    BY <1>1, <1>4, <1>10, <2>1
  <2> QED BY <1>1, <1>5, <1>6, <1>9, <2>2 DEF SameFile
<1> DEFINE old == Contents(im, i)
           d == SubSeq(c, 1, total)
<1>12. old = [k \in 1..im.dir[i].len |-> At(im, i, k - 1)] /\ Len(old) = im.dir[i].len
  BY ContentsAre
<1>13. Len(d) = total /\ \A k \in 1..total : d[k] = c[k]
  BY <1>5, PrefixIs
<1>14. Contents(new, i) = [k \in 1..len |-> At(new, i, k - 1)]
  <2>1. new.dir[i].len = len /\ i \in Active(new) /\ new \in SoundImages
    BY <1>1, <1>5, <1>6, <1>9
  <2> QED BY <2>1, ContentsAre
<1> HIDE DEF old, d
<1>15. ASSUME NEW k \in 1..len
       PROVE  At(new, i, k - 1) = IF k > pos /\ k <= pos + Len(d) THEN d[k - pos] ELSE old[k]
  <2>1. k \in Nat /\ At(new, i, k - 1) = At(w.im, i, k - 1)
    BY <1>1, <1>8, <1>10
  <2>2. CASE k > pos /\ k <= pos + Len(d)
    <3>1. k - 1 \in pos..(w.pos - 1) /\ k - 1 - pos + 1 = k - pos /\ k - pos \in 1..total
      BY <1>2, <1>4, <1>5, <1>13, <2>1, <2>2
    <3>2. At(w.im, i, k - 1) = c[k - pos]
      BY <1>4, <3>1
    <3> QED BY <1>13, <2>1, <2>2, <3>1, <3>2
  <2>3. CASE ~(k > pos /\ k <= pos + Len(d))
    <3> DEFINE here == w.pos
               end == im.dir[i].len
    <3>4. here \in Nat /\ end \in Nat /\ pos <= end /\ pos + Len(d) = here /\ (len = end \/ len = here)
      BY <1>2, <1>4, <1>5, <1>8, <1>13
    <3> HIDE DEF here, end
    <3>5. k - 1 \notin pos..(here - 1) /\ k \in 1..end /\ k - 1 \in 0..(end - 1)
      BY <1>2, <1>8, <2>1, <2>3, <3>4
    <3>1. k - 1 \notin pos..(w.pos - 1) /\ k \in 1..im.dir[i].len /\ k - 1 \in 0..(im.dir[i].len - 1)
      BY <3>5 DEF here, end
    <3>2. k - 1 \in 0..(FileMax - 1) /\ Backed(im, i, k - 1)
      BY <3>1, LengthIs
    <3>3. At(w.im, i, k - 1) = At(im, i, k - 1)
      BY <1>4, <3>1, <3>2
    <3> QED BY <1>12, <2>1, <2>3, <3>1, <3>3
  <2> QED BY <2>2, <2>3
<1>16. len = IF pos + Len(d) > Len(old) THEN pos + Len(d) ELSE Len(old)
  BY <1>12, <1>13, <1>20
<1>17. Contents(new, i) = Store!Overlay(old, pos, d)
  BY <1>14, <1>15, <1>16 DEF Store!Overlay
<1>18. new.dir[i].name = im.dir[i].name
  BY <1>1, <1>9
<1> QED BY <1>5, <1>6, <1>11, <1>17, <1>18 DEF old, d

---------------------------------------------------------------------------
(* Counting free blocks: what fs_put_file counts before it deletes is enough. *)

\* There are finitely many free blocks, and files have blocks of the image.
LEMMA FreeIs ==
  /\ IsFiniteSet(Blocks)
  /\ \A im \in SoundImages : /\ Used(im) \subseteq Blocks /\ IsFiniteSet(Blocks \ Used(im))
                             /\ FreeBlocks(im) \in Nat
<1>1. IsFiniteSet(Blocks)
  BY FS_Interval, FileSystemAssumption DEF FileSystemAssumption, Blocks
<1>2. ASSUME NEW im \in SoundImages PROVE Used(im) \subseteq Blocks
  <2>1. \A i \in Active(im), s \in Slots : im.dir[i].alloc[s] \in Blocks \cup {NoBlock}
    BY DEF SoundImages, Images, EntryRecords, Active
  <2> QED BY <2>1 DEF Used, HeldBy
<1>3. ASSUME NEW im \in SoundImages PROVE IsFiniteSet(Blocks \ Used(im)) /\ FreeBlocks(im) \in Nat
  <2>1. IsFiniteSet(Blocks \ Used(im))
    BY <1>1, FS_Subset
  <2> QED BY <2>1, FS_CardinalityType DEF FreeBlocks
<1> QED BY <1>1, <1>2, <1>3

\* A sector stored in a file's own block takes no block; in a free one it takes that one.
LEMMA StoredFree ==
  ASSUME NEW im, NEW new, NEW i, NEW p, NEW block, NEW sectors,
         StoresAt(im, new, i, p, block, sectors)
  PROVE  /\ Active(new) = Active(im) /\ new \in SoundImages
         /\ FreeBlocks(new) = IF Backed(im, i, p) THEN FreeBlocks(im) ELSE FreeBlocks(im) - 1
<1> DEFINE slot == p \div Units
           old == im.dir[i].alloc[slot]
<1>1. /\ im \in SoundImages /\ i \in Active(im) /\ slot \in Slots /\ block \in Blocks
      /\ sectors \in [Offsets -> Data]
      /\ old = block \/ (old = NoBlock /\ \A j \in Active(im), s \in Slots : im.dir[j].alloc[s] # block)
      /\ new = Storing(im, i, slot, block, sectors)
  BY SlotOf DEF StoresAt
<1>2. block # NoBlock
  BY <1>1 DEF Blocks, NoBlock
<1>3. /\ \A j \in Entries, s \in Slots :
           new.dir[j].alloc[s] = IF j = i /\ s = slot THEN block ELSE im.dir[j].alloc[s]
  BY StoredSectors
<1> HIDE DEF slot
<1>4. new \in SoundImages /\ \A j \in Entries : new.dir[j].active = im.dir[j].active
  BY <1>1, SectorStored
<1>5. Active(new) = Active(im)
  BY <1>4 DEF Active
<1>6. Used(new) = Used(im) \cup {block}
  <2>1. \A j \in Active(im) : j \in Entries
    BY DEF Active
  <2>2. \A b : b \in Used(im) <=> b # NoBlock /\ \E j \in Active(im), s \in Slots : b = im.dir[j].alloc[s]
    BY DEF Used, HeldBy
  <2>3. \A b : b \in Used(new) <=> b # NoBlock /\ \E j \in Active(im), s \in Slots : b = new.dir[j].alloc[s]
    BY <1>5 DEF Used, HeldBy
  <2>4. ASSUME NEW b, b \in Used(new) PROVE b \in Used(im) \cup {block}
    <3>1. PICK j \in Active(im), s \in Slots : b = new.dir[j].alloc[s]
      BY <2>3, <2>4
    <3>2. b = block \/ b = im.dir[j].alloc[s]
      BY <1>3, <2>1, <3>1
    <3> QED BY <2>2, <2>3, <2>4, <3>2
  <2>5. new.dir[i].alloc[slot] = block
    BY <1>1, <1>3, <2>1
  <2>6. block \in Used(new)
    BY <1>1, <1>2, <2>3, <2>5
  <2>7. ASSUME NEW b, b \in Used(im) PROVE b \in Used(new)
    <3>1. PICK j \in Active(im), s \in Slots : b = im.dir[j].alloc[s]
      BY <2>2, <2>7
    <3>2. b # NoBlock
      BY <2>2, <2>7
    <3>3. CASE j = i /\ s = slot
      BY <1>1, <2>6, <3>1, <3>2, <3>3
    <3>4. CASE ~(j = i /\ s = slot)
      <4>1. b = new.dir[j].alloc[s]
        BY <1>3, <2>1, <3>1, <3>4
      <4> QED BY <2>3, <3>2, <4>1
    <3> QED BY <3>3, <3>4
  <2> QED BY <2>4, <2>6, <2>7
<1>7. CASE old # NoBlock
  <2>1. block \in Used(im)
    BY <1>1, <1>2, <1>7 DEF Used, HeldBy
  <2>2. Used(new) = Used(im)
    BY <1>6, <2>1
  <2> QED BY <1>4, <1>5, <1>7, <2>2 DEF FreeBlocks, Backed, slot
<1>8. CASE old = NoBlock
  <2>1. block \notin Used(im)
    BY <1>1, <1>2, <1>8 DEF Used, HeldBy
  <2>2. Blocks \ Used(new) = (Blocks \ Used(im)) \ {block} /\ block \in Blocks \ Used(im)
    BY <1>1, <1>6, <2>1
  <2>3. Cardinality((Blocks \ Used(im)) \ {block}) = Cardinality(Blocks \ Used(im)) - 1
    BY <1>1, <2>2, FreeIs, FS_RemoveElement
  <2> QED BY <1>4, <1>5, <1>8, <2>2, <2>3 DEF FreeBlocks, Backed, slot
<1> QED BY <1>7, <1>8

\* Erasing a file frees the blocks fs_entry_blocks counts.
LEMMA ErasedFree ==
  ASSUME NEW im \in SoundImages, NEW i \in Active(im)
  PROVE  FreeBlocks(Erased(im, i)) = FreeBlocks(im) + EntryBlockCount(im, i)
<1> DEFINE new == Erased(im, i)
<1>1. i \in Entries /\ Active(new) = Active(im) \ {i} /\ \A j \in Active(im) \ {i} : new.dir[j] = im.dir[j]
  BY ErasedSound DEF Active
<1> HIDE DEF new
<1>2. Used(im) = Used(new) \cup HeldBy(im, i)
  BY <1>1 DEF Used, HeldBy
<1>3. Used(new) \cap HeldBy(im, i) = {}
  BY <1>1 DEF SoundImages, BlocksOnce, Used, HeldBy
<1> DEFINE A == Blocks \ Used(im)
           B == HeldBy(im, i)
<1>4. Blocks \ Used(new) = A \cup B /\ A \cap B = {}
  <2>1. Used(im) \subseteq Blocks
    BY FreeIs
  <2> QED BY <1>2, <1>3, <2>1
<1>5. IsFiniteSet(A) /\ IsFiniteSet(B)
  <2>1. B \subseteq Blocks
    BY <1>2, FreeIs
  <2> QED BY <2>1, FreeIs, FS_Subset
<1>6. Cardinality(A \cup B) = Cardinality(A) + Cardinality(B)
  <2> HIDE DEF A, B
  <2>1. Cardinality(A \cup B) = Cardinality(A) + Cardinality(B) - Cardinality(A \cap B)
    BY <1>5, FS_Union
  <2>2. Cardinality(A \cap B) = 0
    BY <1>4, FS_EmptySet
  <2>3. Cardinality(A) \in Nat /\ Cardinality(B) \in Nat
    BY <1>5, FS_CardinalityType
  <2> QED BY <2>1, <2>2, <2>3
<1> QED BY <1>4, <1>6, BlocksCounted DEF FreeBlocks, new

\* A new entry takes none.
LEMMA CreatedFree ==
  ASSUME NEW im \in SoundImages, NEW i \in Entries \ Active(im), NEW n \in Names,
         \A j \in Active(im) : im.dir[j].name # n
  PROVE  /\ FreeBlocks(Created(im, i, n)) = FreeBlocks(im)
         /\ \A s \in Slots : Created(im, i, n).dir[i].alloc[s] = NoBlock
<1> DEFINE new == Created(im, i, n)
<1>1. Active(new) = Active(im) \cup {i} /\ \A j \in Active(im) : new.dir[j] = im.dir[j]
  BY CreatedSound
<1>2. \A s \in Slots : new.dir[i].alloc[s] = NoBlock
  BY DEF Created, Deleted, SoundImages, Images
<1> HIDE DEF new
<1>3. Used(new) = Used(im)
  BY <1>1, <1>2 DEF Used, HeldBy
<1> QED BY <1>2, <1>3 DEF FreeBlocks, new

\* The blocks that n sectors take: the arithmetic of fs_write and of fs_put_file.
LEMMA BlocksTaken ==
  ASSUME NEW n \in Nat, NEW k \in Nat, n <= k * Units, k * Units < n + Units
  PROVE  /\ n \div Units < k => n + 1 <= k * Units /\ k * Units < (n + 1) + Units
         /\ ~(n \div Units < k) => /\ n \div Units = k /\ n = k * Units
                                   /\ n + 1 <= (k + 1) * Units
                                   /\ (k + 1) * Units < (n + 1) + Units
         /\ \A len \in Nat : n < len /\ ~(n \div Units < k) => k + 1 <= (len + Units - 1) \div Units
<1>1. ASSUME NEW u \in Nat \ {0}, n <= k * u, k * u < n + u
      PROVE  /\ n \div u < k => n + 1 <= k * u /\ k * u < (n + 1) + u
             /\ ~(n \div u < k) => /\ n \div u = k /\ n = k * u
                                   /\ n + 1 <= (k + 1) * u /\ (k + 1) * u < (n + 1) + u
             /\ \A len \in Nat : n < len /\ ~(n \div u < k) => k + 1 <= (len + u - 1) \div u
  <2> DEFINE s == n \div u
  <2>1. s \in Nat /\ n = u * s + (n % u) /\ n % u \in 0..(u - 1)
    OBVIOUS
  <2>2. s * u <= n /\ n < (s + 1) * u
    BY <2>1
  <2> HIDE DEF s
  <2>3. (k + 1) * u = k * u + u /\ k * u \in Nat /\ s * u \in Nat /\ (s + 1) * u = s * u + u
    BY <2>1
  <2>4. ASSUME s < k PROVE n + 1 <= k * u /\ k * u < (n + 1) + u
    <3>1. s + 1 <= k
      BY <2>1, <2>4
    <3>2. (s + 1) * u <= k * u
      BY <2>1, <3>1
    <3> QED BY <1>1, <2>2, <2>3, <3>2
  <2>5. ASSUME ~(s < k) PROVE s = k /\ n = k * u
    <3>1. k <= s
      BY <2>1, <2>5
    <3>2. k * u <= s * u
      BY <2>1, <3>1
    <3>3. n = k * u /\ s * u = k * u
      BY <1>1, <2>2, <2>3, <3>2
    <3> QED BY <2>1, <3>3
  <2>6. ASSUME NEW len \in Nat, n < len, ~(s < k) PROVE k + 1 <= (len + u - 1) \div u
    <3>1. n = k * u
      BY <2>5, <2>6
    <3> DEFINE m == len + u - 1
    <3>2. m \in Nat /\ (k + 1) * u <= m
      BY <2>3, <2>6, <3>1
    <3> HIDE DEF m
    <3>3. m \div u \in Nat /\ m < (m \div u + 1) * u
      BY <3>2
    <3> DEFINE q == m \div u
    <3> HIDE DEF q
    <3>4. q \in Nat /\ (k + 1) * u < (q + 1) * u
      BY <3>2, <3>3, <2>3 DEF q
    <3>5. k + 1 <= q
      <4> SUFFICES ASSUME q + 1 <= k + 1 PROVE FALSE
        BY <3>4
      <4>1. (q + 1) * u <= (k + 1) * u
        BY <3>4
      <4> QED BY <3>4, <4>1, <2>3
    <3> QED BY <3>5 DEF q, m
  <2> QED BY <2>3, <2>4, <2>5, <2>6 DEF s
<1> QED BY <1>1, FileSystemAssumption DEF FileSystemAssumption

\* Where writing a file that has no block yet can be after n sectors, when there are blocks
\* enough: it has written them all, in the fewest blocks.
Filling(im, i, n) ==
  {w \in Writings(im, i, 0) :
     /\ ~w.full /\ w.pos = n
     /\ \E k \in Nat : /\ n <= k * Units /\ k * Units < n + Units
                       /\ \A s \in Slots : w.im.dir[i].alloc[s] # NoBlock <=> s < k
                       /\ FreeBlocks(w.im) = FreeBlocks(im) - k}

\* One sector more: while there is data left there is a block left.
LEMMA FillingGoesOn ==
  ASSUME NEW im \in SoundImages, NEW i \in Active(im), NEW c \in Seq(Data),
         Len(c) <= FileMax, BlocksFor(c) <= FreeBlocks(im),
         NEW n \in 0..(Len(c) - 1), NEW w \in Filling(im, i, n)
  PROVE  WriteUnit(w, c[n + 1]) \in Filling(im, i, n + 1)
<1> DEFINE v == c[n + 1]
           new == WriteUnit(w, v)
<1>1. /\ v \in Data /\ n \in Nat /\ FileMax \in Nat /\ n \in 0..(FileMax - 1) /\ n < Len(c)
      /\ Len(c) \in Nat /\ 0 \in 0..FileMax /\ Units \in Nat \ {0}
  <2>1. Len(c) \in Nat /\ FileMax \in Nat /\ n + 1 \in 1..Len(c)
    BY FileMaxType
  <2> QED BY <2>1, FileSystemAssumption DEF FileSystemAssumption
<1>2. w \in Writings(im, i, 0) /\ ~w.full /\ w.pos = n
  BY DEF Filling
<1>3. PICK k \in Nat : /\ n <= k * Units /\ k * Units < n + Units
                       /\ \A s \in Slots : w.im.dir[i].alloc[s] # NoBlock <=> s < k
                       /\ FreeBlocks(w.im) = FreeBlocks(im) - k
  BY DEF Filling
<1>4. w.im \in SoundImages /\ w.i = i /\ Active(w.im) = Active(im)
  BY <1>2 DEF Writings, Active
<1> HIDE DEF v
<1>5. new \in Writings(im, i, 0)
  BY <1>1, <1>2, UnitWritten
<1>6. n \div Units \in Slots /\ n \div Units \in Nat
  <2>1. n \div Units \in Slots
    BY <1>1, SlotOf
  <2>2. \A s \in Slots : s \in Nat
    BY DEF Slots
  <2> QED BY <2>1, <2>2
<1>7. ASSUME UnitRefused(w, v) PROVE FALSE
  <2>1. w.im.dir[i].alloc[n \div Units] = NoBlock /\ AllocBlock(w.im) = None
    BY <1>1, <1>2, <1>4, <1>7 DEF UnitRefused
  <2>2. ~(n \div Units < k)
    BY <1>3, <1>6, <2>1
  <2>3. k + 1 <= (Len(c) + Units - 1) \div Units
    BY <1>1, <1>3, <2>2, BlocksTaken
  <2>4. FreeBlocks(w.im) # 0
    <3>1. FreeBlocks(im) \in Nat /\ k + 1 <= BlocksFor(c) /\ BlocksFor(c) \in Nat
      <4>1. FreeBlocks(im) \in Nat
        BY FreeIs
      <4>2. BlocksFor(c) = (Len(c) + Units - 1) \div Units
        BY DEF BlocksFor
      <4>3. Len(c) + Units - 1 \in Nat
        BY <1>1
      <4>4. (Len(c) + Units - 1) \div Units \in Nat
        BY <1>1, <4>3
      <4> QED BY <2>3, <4>1, <4>2, <4>4
    <3> QED BY <1>3, <3>1
  <2>5. Blocks \ Used(w.im) # {}
    BY <2>4, FS_EmptySet DEF FreeBlocks
  <2>6. Blocks \ Used(w.im) \subseteq Nat
    BY DEF Blocks
  <2> QED BY <2>1, <2>5, <2>6, LeastIs DEF AllocBlock
<1>8. ASSUME NEW block, NEW sectors, UnitStored(w, v, block, sectors)
      PROVE  new \in Filling(im, i, n + 1)
  <2> DEFINE after == Storing(w.im, i, n \div Units, block, sectors)
  <2>1. StoresAt(w.im, after, i, n, block, sectors)
    BY <1>2, <1>4, <1>8 DEF UnitStored, StoresAt
  <2>2. new.im = after /\ new.pos = n + 1 /\ ~new.full
    BY <1>2, <1>4, <1>8 DEF UnitStored
  <2> HIDE DEF after, new
  <2>3. FreeBlocks(after) = IF Backed(w.im, i, n) THEN FreeBlocks(w.im) ELSE FreeBlocks(w.im) - 1
    BY <2>1, StoredFree
  <2>4. /\ i \in Entries /\ block # NoBlock
        /\ \A s \in Slots : after.dir[i].alloc[s] = IF s = n \div Units THEN block ELSE w.im.dir[i].alloc[s]
    <3>1. i \in Entries /\ block \in Blocks
      BY <2>1 DEF Active, StoresAt
    <3>2. block # NoBlock
      BY <3>1 DEF Blocks, NoBlock
    <3> QED BY <2>1, <3>1, <3>2, StoredSectors
  <2>5. Backed(w.im, i, n) <=> n \div Units < k
    BY <1>3, <1>6 DEF Backed
  <2>6. \A s \in Slots : s \in Nat
    BY DEF Slots
  <2>7. CASE n \div Units < k
    <3>1. n + 1 <= k * Units /\ k * Units < (n + 1) + Units
      BY <1>1, <1>3, <2>7, BlocksTaken
    <3>2. \A s \in Slots : after.dir[i].alloc[s] # NoBlock <=> s < k
      BY <1>3, <2>4, <2>7
    <3>3. FreeBlocks(after) = FreeBlocks(im) - k
      BY <1>3, <2>3, <2>5, <2>7
    <3> QED BY <1>5, <2>2, <3>1, <3>2, <3>3 DEF Filling
  <2>8. CASE ~(n \div Units < k)
    <3> DEFINE l == k + 1
    <3>1. n \div Units = k /\ n + 1 <= l * Units /\ l * Units < (n + 1) + Units /\ l \in Nat
      BY <1>1, <1>3, <2>8, BlocksTaken
    <3>2. \A s \in Slots : after.dir[i].alloc[s] # NoBlock <=> s < l
      BY <1>3, <2>4, <2>6, <3>1
    <3>3. FreeBlocks(after) = FreeBlocks(im) - l
      <4>1. FreeBlocks(im) \in Nat
        BY FreeIs
      <4> QED BY <1>3, <2>3, <2>5, <2>8, <4>1
    <3> HIDE DEF l
    <3> QED BY <1>5, <2>2, <3>1, <3>2, <3>3 DEF Filling
  <2> QED BY <2>7, <2>8
<1>9. UnitRefused(w, v) \/ \E block, sectors : UnitStored(w, v, block, sectors)
  BY <1>1, <1>2, UnitIs
<1>10. new \in Filling(im, i, n + 1)
  BY <1>7, <1>8, <1>9
<1> QED BY <1>10 DEF v

\* What fits is written to the last sector.
LEMMA Fits ==
  ASSUME NEW im \in SoundImages, NEW i \in Active(im), NEW c \in Seq(Data),
         \A s \in Slots : im.dir[i].alloc[s] = NoBlock,
         Len(c) <= FileMax, BlocksFor(c) <= FreeBlocks(im)
  PROVE  Written(im, i, 0, c).total = Len(c)
<1> DEFINE R == [n \in 0..Len(c) |-> Filling(im, i, n)]
           start == [im |-> im, i |-> i, pos |-> 0, full |-> FALSE]
<1>1. Len(c) \in Nat /\ 0 \in 0..FileMax /\ Units \in Nat \ {0}
  BY FileMaxType, FileSystemAssumption DEF FileSystemAssumption
<1>2. start \in Filling(im, i, 0)
  <2>1. start \in Writings(im, i, 0)
    <3>1. 0..(0 - 1) = {}
      OBVIOUS
    <3> QED BY <1>1, <3>1 DEF Writings
  <2>2. 0 <= 0 * Units /\ 0 * Units < 0 + Units
    BY <1>1
  <2>3. \A s \in Slots : im.dir[i].alloc[s] # NoBlock <=> s < 0
    BY DEF Slots
  <2>4. FreeBlocks(im) = FreeBlocks(im) - 0
    <3>1. FreeBlocks(im) \in Nat
      BY FreeIs
    <3> QED BY <3>1
  <2> QED BY <2>1, <2>2, <2>3, <2>4 DEF Filling
<1> HIDE DEF start
<1>3. \A n \in 0..Len(c) : R[n] = Filling(im, i, n)
  OBVIOUS
<1>4. R[0] = Filling(im, i, 0) /\ R[Len(c)] = Filling(im, i, Len(c))
  BY <1>1
<1>5. \A n \in 0..Len(c) : R[n] \subseteq Writings(im, i, 0)
  BY <1>3 DEF Filling
<1>6. ASSUME NEW n \in 0..(Len(c) - 1), NEW w \in R[n] PROVE WriteUnit(w, c[n + 1]) \in R[n + 1]
  <2>1. n \in 0..Len(c) /\ n + 1 \in 0..Len(c)
    BY <1>1
  <2>2. w \in Filling(im, i, n) /\ R[n + 1] = Filling(im, i, n + 1)
    BY <1>3, <2>1
  <2> QED BY <2>2, FillingGoesOn
<1> HIDE DEF R
<1>7. \E w \in R[Len(c)] :
           Written(im, i, 0, c) = [im |-> [w.im EXCEPT !.dir[i].len = Larger(@, w.pos)],
                                   total |-> w.pos - 0]
  BY <1>1, <1>2, <1>4, <1>5, <1>6, WrittenAlong DEF start
<1> QED BY <1>1, <1>4, <1>7 DEF Filling

---------------------------------------------------------------------------
(* fs_put_file.                                                            *)

\* A file that is the same twice is the same.
LEMMA SameTwice ==
  ASSUME NEW a, NEW b, NEW c, NEW j, SameFile(a, b, j), SameFile(b, c, j)
  PROVE  SameFile(a, c, j)
BY DEF SameFile

\* A new file has what was put in it, or is gone again and nothing else changed; it is
\* not given up when there is space.
LEMMA PutNewFiles ==
  ASSUME NEW im \in SoundImages, FreeEntry(im) # None, NEW n \in Names, NEW c \in Seq(Data),
         \A j \in Active(im) : im.dir[j].name # n
  PROVE  /\ PutNew(im, n, c).ok => Files(PutNew(im, n, c).im) = Store!With(Files(im), n, c)
         /\ ~PutNew(im, n, c).ok => Files(PutNew(im, n, c).im) = Files(im)
         /\ Len(c) <= FileMax /\ BlocksFor(c) <= FreeBlocks(im) => PutNew(im, n, c).ok
<1> DEFINE i == FreeEntry(im)
           made == Created(im, i, n)
           r == Written(made, i, 0, c)
           gone == Erased(r.im, i)
<1>1. i \in Entries \ Active(im)
  BY FreeEntryIs
<1>2. PutNew(im, n, c) = IF r.total = Len(c) THEN [im |-> r.im, ok |-> TRUE]
                         ELSE [im |-> gone, ok |-> FALSE]
  BY DEF PutNew
<1> HIDE DEF i
<1>3. /\ made \in SoundImages /\ Active(made) = Active(im) \cup {i}
      /\ made.dir[i].name = n /\ made.dir[i].len = 0
      /\ \A j \in Active(im) : SameFile(im, made, j)
      /\ FreeBlocks(made) = FreeBlocks(im) /\ \A s \in Slots : made.dir[i].alloc[s] = NoBlock
  BY <1>1, CreatedSound, FilesCreated, CreatedFree
<1> HIDE DEF made
<1>4. i \in Active(made) /\ 0 \in 0..made.dir[i].len
  BY <1>3
<1>5. /\ r.im \in SoundImages /\ Active(r.im) = Active(made) /\ r.total \in 0..Len(c)
      /\ \A j \in Active(made) \ {i} : SameFile(made, r.im, j)
      /\ r.im.dir[i].name = n
      /\ Contents(r.im, i) = Store!Overlay(Contents(made, i), 0, SubSeq(c, 1, r.total))
  <2>1. r = Written(made, i, 0, c)
    OBVIOUS
  <2> HIDE DEF r
  <2>2. /\ r.im \in SoundImages /\ Active(r.im) = Active(made) /\ r.total \in 0..Len(c)
        /\ \A j \in Active(made) \ {i} : SameFile(made, r.im, j)
        /\ r.im.dir[i].name = made.dir[i].name
        /\ Contents(r.im, i) = Store!Overlay(Contents(made, i), 0, SubSeq(c, 1, r.total))
    BY <1>3, <1>4, <2>1, WrittenFiles
  <2> QED BY <1>3, <2>2
<1>6. Len(c) <= FileMax /\ BlocksFor(c) <= FreeBlocks(im) => r.total = Len(c)
  BY <1>3, <1>4, Fits
<1> HIDE DEF r
<1>7. \A j \in Active(im) : SameFile(im, r.im, j)
  BY <1>1, <1>3, <1>5, SameTwice
<1>8. ASSUME r.total = Len(c) PROVE Files(r.im) = Store!With(Files(im), n, c)
  <2> DEFINE empty == Contents(made, i)
  <2>1. SubSeq(c, 1, r.total) = c /\ Len(c) \in Nat
    BY <1>5, <1>8, PrefixIs
  <2>2. Len(empty) = 0
    BY <1>3, <1>4, ContentsAre
  <2> HIDE DEF empty
  <2>3. Store!Overlay(empty, 0, c) = [k \in 1..Len(c) |-> c[k]]
    BY <2>1, <2>2 DEF Store!Overlay
  <2>4. [k \in 1..Len(c) |-> c[k]] = c
    <3>1. c \in [1..Len(c) -> Data]
      BY LenProperties
    <3> QED BY <3>1
  <2>5. Contents(r.im, i) = c
    BY <1>5, <2>1, <2>3, <2>4 DEF empty
  <2>6. Files(r.im) = Store!With(Files(im), n, Contents(r.im, i))
    <3>1. OnlyFile(im, r.im, i, n)
      BY <1>1, <1>3, <1>5, <1>7 DEF OnlyFile
    <3> QED BY <3>1, FilesWith
  <2> QED BY <2>5, <2>6
<1>9. Files(gone) = Files(im)
  <2>1. /\ gone \in SoundImages /\ Active(gone) = Active(r.im) \ {i}
        /\ \A j \in Active(r.im) \ {i} : SameFile(r.im, gone, j)
    BY <1>1, <1>5, ErasedSound, FilesErased
  <2> HIDE DEF gone
  <2>2. Active(gone) = Active(im) /\ \A j \in Active(im) : j \in Active(r.im) \ {i}
    BY <1>1, <1>3, <1>5, <2>1
  <2>3. \A j \in Active(im) : SameFile(im, gone, j)
    BY <1>7, <2>1, <2>2, SameTwice
  <2> QED BY <2>1, <2>2, <2>3, FilesSame
<1> HIDE DEF gone
<1> QED BY <1>2, <1>6, <1>8, <1>9

\* fs_put_file with a handle to spare: the file has what was put, or nothing changed.
\* What it deletes first it can always replace.
LEMMA PutFileFiles ==
  ASSUME image \in [Disks -> SoundImages], table \in Tables, FreeHandle(table) # None,
         NEW d \in Disks, NEW n \in Names, NEW c \in Seq(Data)
  PROVE  /\ PutFile(d, n, c).ok =>
              Files(PutFile(d, n, c).im) = Store!With(Files(image[d]), n, c)
         /\ ~PutFile(d, n, c).ok => Files(PutFile(d, n, c).im) = Files(image[d])
<1> DEFINE im == image[d]
           old == Find(im, n)
           refused == TooBig(im, old, c)
           cleared == IF old = None THEN im ELSE Erased(im, old)
           dropped == IF old = None THEN table ELSE Dropped(table, d, {old})
           create == FreeEntry(cleared) # None /\ FreeHandle(dropped) # None
           new == PutNew(cleared, n, c)
           r == PutFile(d, n, c)
<1>1. r = IF refused THEN [im |-> im, t |-> table, touched |-> FALSE, ok |-> FALSE]
          ELSE IF create THEN [im |-> new.im, t |-> dropped, touched |-> TRUE, ok |-> new.ok]
          ELSE [im |-> cleared, t |-> dropped, touched |-> old # None, ok |-> FALSE]
  BY DEF PutFile
<1>2. im \in SoundImages
  OBVIOUS
<1>3. \/ old = None /\ \A j \in Active(im) : im.dir[j].name # n
      \/ old # None /\ old \in Active(im) /\ im.dir[old].name = n
  BY FindIs
<1>4. FreeHandle(dropped) # None
  <2>1. FreeHandle(table) \in Handles /\ ~table[FreeHandle(table)].used
    BY FreeHandleIs
  <2>2. ~Dropped(table, d, {old})[FreeHandle(table)].used
    BY <2>1, DroppedIs
  <2>3. \E h \in Handles : ~dropped[h].used
    BY <2>1, <2>2
  <2> HIDE DEF dropped
  <2>4. {h \in Handles : ~dropped[h].used} # {} /\ {h \in Handles : ~dropped[h].used} \subseteq Nat
    BY <2>3 DEF Handles
  <2> QED BY <2>4, LeastIs DEF FreeHandle
<1>5. refused <=> \/ Len(c) > FileMax
                  \/ old # None /\ BlocksFor(c) > FreeBlocks(im) + EntryBlockCount(im, old)
  BY DEF TooBig
<1> HIDE DEF refused, im, old, new, r, dropped
<1>6. CASE refused
  <2>1. r.im = im /\ ~r.ok
    BY <1>1, <1>6
  <2> QED BY <2>1 DEF r, im
<1>7. CASE ~refused /\ old = None
  <2>1. cleared = im
    BY <1>7
  <2>2. CASE FreeEntry(im) = None
    <3>1. r.im = im /\ ~r.ok
      BY <1>1, <1>7, <2>1, <2>2
    <3> QED BY <3>1 DEF r, im
  <2>3. CASE FreeEntry(im) # None
    <3>1. r.im = new.im /\ r.ok = new.ok
      BY <1>1, <1>4, <1>7, <2>1, <2>3
    <3>2. /\ new.ok => Files(new.im) = Store!With(Files(im), n, c)
          /\ ~new.ok => Files(new.im) = Files(im)
      BY <1>2, <1>3, <1>7, <2>1, <2>3, PutNewFiles DEF new
    <3> QED BY <3>1, <3>2 DEF r, im
  <2> QED BY <2>2, <2>3
<1>8. CASE ~refused /\ old # None
  <2>1. cleared = Erased(im, old) /\ old \in Active(im) /\ im.dir[old].name = n /\ old \in Entries
    BY <1>3, <1>8 DEF Active
  <2> HIDE DEF cleared
  <2>2. /\ cleared \in SoundImages /\ Active(cleared) = Active(im) \ {old}
        /\ \A j \in Active(im) \ {old} : cleared.dir[j] = im.dir[j]
        /\ Files(cleared) = Store!Only(Files(im), DOMAIN Files(im) \ {n})
        /\ FreeBlocks(cleared) = FreeBlocks(im) + EntryBlockCount(im, old)
    BY <1>2, <2>1, ErasedSound, FilesErased, ErasedFree
  <2>3. \A j \in Active(cleared) : cleared.dir[j].name # n
    BY <1>2, <2>1, <2>2 DEF SoundImages, NamesOnce
  <2>4. FreeEntry(cleared) # None
    <3>1. old \in Entries \ Active(cleared) /\ Entries \ Active(cleared) \subseteq Nat
      BY <2>1, <2>2 DEF Entries
    <3> QED BY <3>1, LeastIs DEF FreeEntry
  <2>5. Len(c) <= FileMax /\ BlocksFor(c) <= FreeBlocks(cleared)
    <3>1. Len(c) \in Nat /\ FileMax \in Nat /\ FreeBlocks(cleared) \in Nat
      <4>1. FreeBlocks(cleared) \in Nat
        BY <2>2, FreeIs
      <4> QED BY <4>1, FileMaxType
    <3>2. BlocksFor(c) \in Nat
      <4>1. Len(c) + Units - 1 \in Nat /\ Units \in Nat \ {0}
        BY <3>1, FileSystemAssumption DEF FileSystemAssumption
      <4> QED BY <4>1 DEF BlocksFor
    <3> QED BY <1>5, <1>8, <2>2, <3>1, <3>2
  <2>6. new.ok /\ Files(new.im) = Store!With(Files(cleared), n, c)
    BY <2>2, <2>3, <2>4, <2>5, PutNewFiles DEF new
  <2>7. Store!With(Files(cleared), n, c) = Store!With(Files(im), n, c)
    BY <2>2 DEF Store!With, Store!Only
  <2>8. r.im = new.im /\ r.ok
    BY <1>1, <1>4, <1>8, <2>4, <2>6
  <2> QED BY <2>6, <2>7, <2>8 DEF r, im
<1> QED BY <1>6, <1>7, <1>8

---------------------------------------------------------------------------
(* The calls: each is a step of the store, or nothing to it.               *)

\* The store that the disks are.
Named(ims) == [d \in Disks |-> Files(ims[d])]

\* One handle is free, when the clients leave one to fs_put_file.
Spare == \E h \in Handles : ~table[h].used

\* One image changed is the files of one disk changed, or none.
LEMMA NamedIs ==
  ASSUME image \in [Disks -> SoundImages], NEW d \in Disks, NEW im,
         image' = [image EXCEPT ![d] = im]
  PROVE  /\ Named(image') = [Named(image) EXCEPT ![d] = Files(im)]
         /\ Named(image)[d] = Files(image[d])
         /\ Files(im) = Files(image[d]) => Named(image') = Named(image)
BY DEF Named

\* Calls that leave the images alone are quiet.
LEMMA QuietStep ==
  ASSUME Quietly, UNCHANGED image
  PROVE  Store!Quiet
<1>1. NoAnswer = Store!NoAnswer
  BY DEF NoAnswer, Store!NoAnswer, Answer, Store!Answer, NoName, Store!NoName
<1> QED BY <1>1 DEF Quietly, Store!Quiet

\* tos_disk_put_file and svc_compile.
LEMMA PutStep ==
  ASSUME Inv, Spare, NEW d \in Disks, NEW n \in Names, NEW c \in Seq(Data),
         answer' = Answer("PUT", d, n, c, PutFile(d, n, c).ok),
         image' = [image EXCEPT ![d] = PutFile(d, n, c).im]
  PROVE  Store!Put(d, n)
<1>1. image \in [Disks -> SoundImages] /\ table \in Tables
  BY DEF Inv, Stores, Opens
<1>2. FreeHandle(table) # None
  <2>1. {h \in Handles : ~table[h].used} # {} /\ {h \in Handles : ~table[h].used} \subseteq Nat
    BY DEF Spare, Handles
  <2> QED BY <2>1, LeastIs DEF FreeHandle
<1> DEFINE r == PutFile(d, n, c)
<1>3. /\ r.ok => Files(r.im) = Store!With(Files(image[d]), n, c)
      /\ ~r.ok => Files(r.im) = Files(image[d])
  BY <1>1, <1>2, PutFileFiles
<1>4. r.ok \in BOOLEAN
  BY <1>1, PutFileSound DEF Inv
<1> HIDE DEF r
<1>5. /\ answer'.op = "PUT" /\ answer'.disk = d /\ answer'.name = n /\ answer'.arg = c
      /\ answer'.ok = r.ok
  BY DEF Answer, r
<1>6. /\ Named(image') = [Named(image) EXCEPT ![d] = Files(r.im)]
      /\ Named(image)[d] = Files(image[d])
      /\ Files(r.im) = Files(image[d]) => Named(image') = Named(image)
  BY <1>1, NamedIs DEF r
<1>7. CASE r.ok
  <2>1. Named(image') = [Named(image) EXCEPT ![d] = Store!With(@, n, answer'.arg)]
    BY <1>3, <1>5, <1>6, <1>7
  <2>2. Store!Set(d, n, answer'.arg)
    BY <2>1 DEF Named, Store!Set
  <2> QED BY <1>5, <1>7, <2>2 DEF Store!Put
<1>8. CASE ~r.ok
  <2>1. Named(image') = Named(image)
    BY <1>3, <1>6, <1>8
  <2>2. Store!Fail
    BY <1>5, <1>8, <2>1 DEF Named, Store!Fail
  <2> QED BY <1>5, <2>2 DEF Store!Put
<1> QED BY <1>4, <1>7, <1>8

\* fs_create.
LEMMA CreateStep ==
  ASSUME Inv, NEW n \in Names, Create(n)
  PROVE  Store!Create(selected, n)
<1> DEFINE im == image[selected]
           i == FreeEntry(im)
           ok == Find(im, n) = None /\ i # None /\ FreeHandle(table) # None
<1>1. /\ answer' = Answer("CREATE", selected, n, <<>>, ok)
      /\ image' = IF ok THEN [image EXCEPT ![selected] = Created(im, i, n)] ELSE image
  BY DEF Create
<1>2. selected \in Disks /\ image \in [Disks -> SoundImages] /\ im \in SoundImages
  BY DEF Inv, Control, Stores
<1>3. answer'.op = "CREATE" /\ answer'.disk = selected /\ answer'.name = n /\ answer'.ok = ok
  BY <1>1 DEF Answer
<1>4. CASE ok
  <2>1. i \in Entries \ Active(im) /\ \A j \in Active(im) : im.dir[j].name # n
    BY <1>4, FreeEntryIs, FindIs
  <2> DEFINE new == Created(im, i, n)
  <2>2. Files(new) = Store!With(Files(im), n, << >>)
    BY <1>2, <2>1, FilesCreated
  <2>3. n \notin DOMAIN Files(im)
    <3>1. DOMAIN Files(im) = {im.dir[j].name : j \in Active(im)}
      BY <1>2, FilesAre
    <3> QED BY <2>1, <3>1
  <2>4. image' = [image EXCEPT ![selected] = new]
    BY <1>1, <1>4
  <2> HIDE DEF new
  <2>5. Named(image') = [Named(image) EXCEPT ![selected] = Files(new)] /\ Named(image)[selected] = Files(im)
    BY <1>2, <2>4, NamedIs
  <2>6. Named(image') = [Named(image) EXCEPT ![selected] = Store!With(@, n, << >>)]
    BY <2>2, <2>5
  <2>7. Store!Set(selected, n, << >>)
    BY <2>6 DEF Named, Store!Set
  <2>8. n \notin DOMAIN [d \in Disks |-> Files(image[d])][selected]
    BY <2>3, <2>5 DEF Named
  <2> HIDE DEF ok, im
  <2> QED BY <1>3, <1>4, <2>7, <2>8 DEF Store!Create
<1>5. CASE ~ok
  <2>1. image' = image
    BY <1>1, <1>5
  <2> HIDE DEF ok
  <2>2. Store!Fail
    BY <1>3, <1>5, <2>1 DEF Store!Fail
  <2> QED BY <1>3, <2>2 DEF Store!Create
<1> QED BY <1>4, <1>5

\* svc_del.
LEMMA DeleteStep ==
  ASSUME Inv, NEW n \in Names, Delete(n)
  PROVE  Store!Delete(selected, n)
<1> DEFINE im == image[selected]
           i == Find(im, n)
           S == DOMAIN Files(im) \ {n}
<1>1. /\ answer' = Answer("DELETE", selected, n, <<>>, i # None)
      /\ image' = IF i = None THEN image ELSE [image EXCEPT ![selected] = Erased(im, i)]
  BY DEF Delete
<1>2. selected \in Disks /\ image \in [Disks -> SoundImages] /\ im \in SoundImages
  BY DEF Inv, Control, Stores
<1>3. answer'.op = "DELETE" /\ answer'.disk = selected /\ answer'.name = n /\ answer'.ok = (i # None)
  BY <1>1 DEF Answer
<1>4. \/ i = None /\ \A j \in Active(im) : im.dir[j].name # n
      \/ i # None /\ i \in Active(im) /\ im.dir[i].name = n
  BY FindIs
<1>5. DOMAIN Files(im) = {im.dir[j].name : j \in Active(im)}
  BY <1>2, FilesAre
<1>6. (i # None) <=> n \in DOMAIN Files(im)
  BY <1>4, <1>5
<1>7. \E new \in SoundImages : /\ image' = [image EXCEPT ![selected] = new]
                               /\ Files(new) = Store!Only(Files(im), S)
  <2>1. CASE i = None
    <3>1. S = DOMAIN Files(im)
      BY <1>6, <2>1
    <3>2. Files(im) = Store!Only(Files(im), S)
      BY <1>2, <3>1, FilesAre DEF Store!Only
    <3>3. image' = [image EXCEPT ![selected] = im]
      BY <1>1, <1>2, <2>1
    <3> QED BY <1>2, <3>2, <3>3
  <2>2. CASE i # None
    <3>1. image' = [image EXCEPT ![selected] = Erased(im, i)]
      BY <1>1, <2>2
    <3>2. i \in Active(im) /\ i \in Entries /\ im.dir[i].name = n
      BY <1>4, <2>2 DEF Active
    <3> HIDE DEF i, S
    <3>3. Erased(im, i) \in SoundImages /\ Files(Erased(im, i)) = Store!Only(Files(im), DOMAIN Files(im) \ {n})
      BY <1>2, <3>2, ErasedSound, FilesErased
    <3> QED BY <3>1, <3>3 DEF S
  <2> QED BY <2>1, <2>2
<1>8. PICK new \in SoundImages : /\ image' = [image EXCEPT ![selected] = new]
                                 /\ Files(new) = Store!Only(Files(im), S)
  BY <1>7
<1> HIDE DEF i
<1>9. Named(image') = [Named(image) EXCEPT ![selected] = Files(new)] /\ Named(image)[selected] = Files(im)
  BY <1>2, <1>8, NamedIs
<1>10. Named(image') = [Named(image) EXCEPT ![selected] = Store!Only(@, DOMAIN Named(image)[selected] \ {n})]
  BY <1>8, <1>9
<1>11. Store!Keep(selected, DOMAIN [d \in Disks |-> Files(image[d])][selected] \ {n})
  BY <1>10 DEF Named, Store!Keep
<1>12. answer'.ok = (n \in DOMAIN [d \in Disks |-> Files(image[d])][selected])
  BY <1>3, <1>6, <1>9 DEF Named
<1> QED BY <1>3, <1>11, <1>12 DEF Store!Delete

\* fs_write.
LEMMA WriteStep ==
  ASSUME Inv, NEW h \in Handles, NEW c \in FileContents, Write(h, c)
  PROVE  Store!Write(table[h].disk, table[h].name) /\ table[h].disk \in Disks /\ table[h].name \in Names
<1> DEFINE t == table[h]
           d == t.disk
           i == t.index
           im == image[d]
           n == t.name
           r == Written(im, i, t.pos, c)
<1>1. /\ Usable(h) /\ answer' = Answer("WRITE", d, n, c, r.total > 0)
      /\ image' = [image EXCEPT ![d] = r.im]
  BY DEF Write
<1>2. c \in Seq(Data)
  BY ContentsType
<1>3. /\ t.used /\ d \in Disks /\ i \in Active(im) /\ im \in SoundImages /\ t.pos \in 0..im.dir[i].len
      /\ image \in [Disks -> SoundImages]
  BY <1>1, UsableIs DEF Inv, Stores
<1>4. im.dir[i].name = n
  BY <1>3 DEF Inv, Opens, Live
<1>5. n \in Names
  BY <1>3, <1>4 DEF SoundImages, NamesOnce
<1> DEFINE pos == t.pos
<1>6. r = Written(im, i, pos, c) /\ pos \in 0..im.dir[i].len
  BY <1>3
<1> HIDE DEF t, d, i, im, n, pos, r
<1>7. /\ r.im \in SoundImages /\ Active(r.im) = Active(im) /\ r.total \in 0..Len(c)
      /\ \A j \in Active(im) \ {i} : SameFile(im, r.im, j)
      /\ r.im.dir[i].name = im.dir[i].name
      /\ Contents(r.im, i) = Store!Overlay(Contents(im, i), pos, SubSeq(c, 1, r.total))
  BY <1>2, <1>3, <1>6, WrittenFiles
<1>8. r.total = 0 => r.im = im
  <2>1. i \in Active(im)
    BY <1>3
  <2> QED BY <1>2, <1>3, <1>6, <2>1, WrittenSound
<1>9. /\ answer'.op = "WRITE" /\ answer'.disk = d /\ answer'.name = n /\ answer'.arg = c
      /\ answer'.ok = (r.total > 0)
  BY <1>1 DEF Answer
<1>10. /\ Named(image') = [Named(image) EXCEPT ![d] = Files(r.im)]
       /\ Named(image)[d] = Files(im)
       /\ r.im = im => Named(image') = Named(image)
  BY <1>1, <1>3, NamedIs DEF im
<1>11. Len(c) \in Nat /\ r.total \in Nat
  BY <1>2, <1>7
<1>12. CASE r.total = 0
  <2>2. ~(r.total > 0)
    BY <1>12
  <2>3. ~answer'.ok
    BY <1>9, <2>2
  <2>1. Store!Fail
    BY <1>8, <1>10, <1>12, <2>3 DEF Named, Store!Fail
  <2> QED BY <1>3, <1>5, <1>9, <2>1 DEF Store!Write, d, n, t
<1>13. CASE r.total # 0
  <2>1. Files(r.im) = Store!With(Files(im), n, Contents(r.im, i))
    <3>1. Active(r.im) = Active(im) \cup {i}
      BY <1>3, <1>7
    <3>2. OnlyFile(im, r.im, i, n)
      BY <1>3, <1>4, <1>7, <3>1 DEF OnlyFile
    <3> QED BY <3>2, FilesWith
  <2>2. n \in DOMAIN Files(im) /\ Files(im)[n] = Contents(im, i) /\ Len(Contents(im, i)) = im.dir[i].len
    BY <1>3, <1>4, FilesAre, ContentsAre
  <2> DEFINE fs == [e \in Disks |-> Files(image[e])]
             new == Store!Overlay(fs[d][n], pos, SubSeq(answer'.arg, 1, r.total))
  <2>3. fs[d] = Files(im)
    BY <1>10 DEF Named
  <2>4. new = Contents(r.im, i)
    BY <1>7, <1>9, <2>2, <2>3
  <2>5. Named(image') = [Named(image) EXCEPT ![d] = Store!With(@, n, new)]
    <3> HIDE DEF new
    <3> QED BY <1>10, <2>1, <2>4
  <2>6. Store!Set(d, n, new)
    <3> HIDE DEF new
    <3> QED BY <2>5 DEF Named, Store!Set
  <2>7. pos \in 0..Len(fs[d][n]) /\ r.total \in 1..Len(answer'.arg)
    BY <1>6, <1>7, <1>9, <1>11, <1>13, <2>2, <2>3
  <2>8. answer'.ok /\ n \in DOMAIN fs[d]
    <3>1. r.total > 0
      BY <1>11, <1>13
    <3> QED BY <1>9, <2>2, <2>3, <3>1
  <2>9. Store!Write(d, n)
    BY <1>9, <2>6, <2>7, <2>8 DEF Store!Write
  <2> QED BY <1>3, <1>5, <2>9 DEF d, n, t
<1> QED BY <1>12, <1>13

\* fs_write_sector on the directory takes a file away, or nothing.
LEMMA WipeStep ==
  ASSUME Inv, NEW i \in Entries, WipeEntry(i)
  PROVE  Store!Sector(selected)
<1> DEFINE im == image[selected]
           new == Erased(im, i)
<1>1. /\ answer' = Answer("SECTOR", selected, NoName, <<>>, TRUE)
      /\ image' = [image EXCEPT ![selected] = new]
  <2>1. image' = [image EXCEPT ![selected] = Erased(@, i)]
    BY DEF WipeEntry
  <2> QED BY <2>1 DEF WipeEntry
<1>2. selected \in Disks /\ image \in [Disks -> SoundImages] /\ im \in SoundImages
  BY DEF Inv, Control, Stores
<1>3. /\ i \in Active(im) => Files(new) = Store!Only(Files(im), DOMAIN Files(im) \ {im.dir[i].name})
      /\ i \notin Active(im) => Files(new) = Files(im)
  BY <1>2, FilesErased
<1> HIDE DEF new
<1>4. /\ Named(image') = [Named(image) EXCEPT ![selected] = Files(new)]
      /\ Named(image)[selected] = Files(im)
      /\ Files(new) = Files(im) => Named(image') = Named(image)
  BY <1>1, <1>2, NamedIs
<1>5. answer'.op = "SECTOR" /\ answer'.disk = selected
  BY <1>1 DEF Answer
<1>6. CASE i \in Active(im)
  <2> DEFINE S == DOMAIN Files(im) \ {im.dir[i].name}
  <2>1. Named(image') = [Named(image) EXCEPT ![selected] = Store!Only(@, S)]
    BY <1>3, <1>4, <1>6
  <2> HIDE DEF S
  <2>2. Store!Keep(selected, S)
    BY <2>1 DEF Named, Store!Keep
  <2>3. S \in SUBSET DOMAIN [e \in Disks |-> Files(image[e])][selected]
    BY <1>4 DEF S, Named
  <2> QED BY <1>5, <2>2, <2>3 DEF Store!Sector
<1>7. CASE i \notin Active(im)
  BY <1>3, <1>4, <1>5, <1>7 DEF Store!Sector, Named
<1> QED BY <1>6, <1>7

\* A sector of the image changes one sector of one file, or of none.
LEMMA SectorFiles ==
  ASSUME NEW im \in SoundImages, NEW b \in Blocks, NEW o \in Offsets, NEW v \in Data,
         NEW new, new = [im EXCEPT !.data[b][o] = v]
  PROVE  /\ new \in SoundImages
         /\ \/ Files(new) = Files(im)
            \/ \E n \in DOMAIN Files(im) : \E pos \in 0..(Len(Files(im)[n]) - 1) :
                 Files(new) = Store!With(Files(im), n, Store!Overlay(Files(im)[n], pos, <<v>>))
<1> DEFINE Here(j, q) == im.dir[j].alloc[q \div Units] = b /\ q % Units = o
<1>1. new \in SoundImages /\ new.dir = im.dir
  BY SectorSound
<1>2. Active(new) = Active(im)
  BY <1>1 DEF Active
<1>3. \A x \in Blocks, y \in Offsets : new.data[x][y] = IF x = b /\ y = o THEN v ELSE im.data[x][y]
  BY DEF SoundImages, Images
<1>4. ASSUME NEW j \in Active(im), NEW q \in 0..(im.dir[j].len - 1)
      PROVE  At(new, j, q) = IF Here(j, q) THEN v ELSE At(im, j, q)
  <2>1. q \in 0..(FileMax - 1) /\ Backed(im, j, q)
    BY LengthIs
  <2>2. im.dir[j].alloc[q \div Units] \in Blocks /\ q % Units \in Offsets
    BY <2>1, SectorType
  <2> QED BY <1>1, <1>3, <2>2 DEF At
<1>5. ASSUME NEW i \in Active(im), NEW p \in 0..(im.dir[i].len - 1), Here(i, p),
             NEW j \in Active(im), NEW q \in 0..(im.dir[j].len - 1), Here(j, q)
      PROVE  i = j /\ p = q
  <2>1. p \in 0..(FileMax - 1) /\ q \in 0..(FileMax - 1) /\ p \in Nat /\ q \in Nat
    BY LengthIs
  <2>2. p \div Units \in Slots /\ q \div Units \in Slots
    BY <2>1, SlotOf
  <2>3. b # NoBlock
    BY DEF Blocks, NoBlock
  <2>4. i = j /\ p \div Units = q \div Units
    BY <1>5, <2>2, <2>3 DEF SoundImages, BlocksOnce
  <2> QED BY <1>5, <2>1, <2>4, PositionIs
<1> HIDE DEF Here
<1>6. ASSUME NEW j \in Active(im), \A q \in 0..(im.dir[j].len - 1) : ~Here(j, q)
      PROVE  SameFile(im, new, j)
  BY <1>1, <1>2, <1>4, <1>6 DEF SameFile
<1>7. CASE \A j \in Active(im) : \A q \in 0..(im.dir[j].len - 1) : ~Here(j, q)
  BY <1>1, <1>2, <1>6, <1>7, FilesSame
<1>8. ASSUME NEW i \in Active(im), NEW p \in 0..(im.dir[i].len - 1), Here(i, p)
      PROVE  \E n \in DOMAIN Files(im) : \E pos \in 0..(Len(Files(im)[n]) - 1) :
               Files(new) = Store!With(Files(im), n, Store!Overlay(Files(im)[n], pos, <<v>>))
  <2> DEFINE n == im.dir[i].name
             len == im.dir[i].len
             old == Contents(im, i)
  <2>1. \A j \in Active(im) \ {i} : SameFile(im, new, j)
    BY <1>5, <1>6, <1>8
  <2>2. len \in Nat /\ p \in 0..(len - 1) /\ p \in Nat
    BY LengthIs
  <2>3. old = [k \in 1..len |-> At(im, i, k - 1)] /\ Len(old) = len
    BY ContentsAre
  <2>4. Contents(new, i) = [k \in 1..len |-> At(new, i, k - 1)]
    <3>1. i \in Active(new) /\ new.dir[i].len = len
      BY <1>1, <1>2
    <3> QED BY <1>1, <3>1, ContentsAre
  <2>5. n \in DOMAIN Files(im) /\ Files(im)[n] = old
    BY FilesAre
  <2>6. Active(new) = Active(im) \cup {i} /\ new.dir[i].name = n /\ im.dir[i].name = n
    BY <1>1, <1>2
  <2>7. Files(new) = Store!With(Files(im), n, Contents(new, i))
    <3>1. OnlyFile(im, new, i, n)
      BY <1>1, <2>1, <2>6 DEF OnlyFile
    <3> HIDE DEF n
    <3> QED BY <3>1, FilesWith
  <2>8. ASSUME NEW k \in 1..len
        PROVE  At(new, i, k - 1) = IF k > p /\ k <= p + 1 THEN v ELSE At(im, i, k - 1)
    <3> DEFINE q == k - 1
    <3>1. q \in 0..(im.dir[i].len - 1) /\ (k > p /\ k <= p + 1 <=> q = p)
      BY <2>2
    <3> HIDE DEF q
    <3>2. At(new, i, q) = IF q = p THEN v ELSE At(im, i, q)
      BY <1>4, <1>5, <1>8, <3>1
    <3> QED BY <3>1, <3>2 DEF q
  <2> DEFINE one == <<v>>
  <2>9. Len(one) = 1 /\ one[1] = v /\ \A k \in 1..len : k > p /\ k <= p + 1 => k - p = 1
    BY <2>2
  <2> HIDE DEF one, len, old, n
  <2>10. Store!Overlay(old, p, one) = [k \in 1..len |-> IF k > p /\ k <= p + 1 THEN v ELSE old[k]]
    <3>1. (IF p + Len(one) > Len(old) THEN p + Len(one) ELSE Len(old)) = len
      BY <2>2, <2>3, <2>9
    <3> QED BY <2>9, <3>1 DEF Store!Overlay
  <2>11. Contents(new, i) = Store!Overlay(old, p, one)
    BY <2>3, <2>4, <2>8, <2>10
  <2>12. Files(new) = Store!With(Files(im), n, Store!Overlay(Files(im)[n], p, one))
    BY <2>5, <2>7, <2>11
  <2>13. p \in 0..(Len(Files(im)[n]) - 1)
    BY <2>2, <2>3, <2>5
  <2> QED BY <2>5, <2>12, <2>13 DEF one
<1> QED BY <1>1, <1>7, <1>8

\* fs_write_sector on a data sector.
LEMMA SectorStep ==
  ASSUME Inv, NEW b \in Blocks, NEW o \in Offsets, NEW v \in SectorData, WriteSector(b, o, v)
  PROVE  Store!Sector(selected)
<1> DEFINE im == image[selected]
           new == [im EXCEPT !.data[b][o] = v]
<1>1. selected \in Disks /\ image \in [Disks -> SoundImages] /\ im \in SoundImages /\ v \in Data
  BY FileSystemAssumption DEF FileSystemAssumption, Inv, Control, Stores
<1>2. answer'.op = "SECTOR" /\ answer'.disk = selected /\ image' = [image EXCEPT ![selected] = new]
  <2>1. image' = [image EXCEPT ![selected].data[b][o] = v]
    BY DEF WriteSector
  <2>2. answer' = Answer("SECTOR", selected, NoName, <<>>, TRUE)
    BY DEF WriteSector
  <2> QED BY <1>1, <2>1, <2>2 DEF Answer
<1>3. \/ Files(new) = Files(im)
      \/ \E n \in DOMAIN Files(im) : \E pos \in 0..(Len(Files(im)[n]) - 1) :
           Files(new) = Store!With(Files(im), n, Store!Overlay(Files(im)[n], pos, <<v>>))
  BY <1>1, SectorFiles
<1> HIDE DEF new
<1>4. /\ Named(image') = [Named(image) EXCEPT ![selected] = Files(new)]
      /\ Named(image)[selected] = Files(im)
      /\ Files(new) = Files(im) => Named(image') = Named(image)
  BY <1>1, <1>2, NamedIs
<1>5. CASE Files(new) = Files(im)
  BY <1>2, <1>4, <1>5 DEF Store!Sector, Named
<1>6. ASSUME NEW n \in DOMAIN Files(im), NEW pos \in 0..(Len(Files(im)[n]) - 1),
             Files(new) = Store!With(Files(im), n, Store!Overlay(Files(im)[n], pos, <<v>>))
      PROVE  Store!Sector(selected)
  <2> DEFINE fs == [e \in Disks |-> Files(image[e])]
             c == Store!Overlay(fs[selected][n], pos, <<v>>)
  <2>1. fs[selected] = Files(im)
    BY <1>4 DEF Named
  <2>2. Files(new) = Store!With(Files(im), n, c)
    BY <1>6, <2>1
  <2>3. Store!Set(selected, n, c)
    <3> HIDE DEF c
    <3>1. Named(image') = [Named(image) EXCEPT ![selected] = Store!With(@, n, c)]
      BY <1>4, <2>2
    <3> QED BY <3>1 DEF Named, Store!Set
  <2>4. n \in DOMAIN fs[selected] /\ pos \in 0..(Len(fs[selected][n]) - 1)
    BY <2>1
  <2> QED BY <1>1, <1>2, <2>3, <2>4 DEF Store!Sector
<1> QED BY <1>3, <1>5, <1>6

---------------------------------------------------------------------------
(* A handle to spare.                                                      *)

\* Opening one more handle leaves one free, if there was more than one.
LEMMA OpenedSpare ==
  ASSUME table \in Tables, Cardinality({h \in Handles : ~table[h].used}) > 1,
         NEW h, NEW d, NEW i, NEW n
  PROVE  \E g \in Handles : ~Opened(table, h, d, i, n)[g].used
<1> DEFINE F == {g \in Handles : ~table[g].used}
<1>1. \E g \in F : g # h
  <2> SUFFICES ASSUME \A g \in F : g = h PROVE FALSE
    OBVIOUS
  <2>1. F = {} \/ F = {h}
    OBVIOUS
  <2> HIDE DEF F
  <2>2. Cardinality(F) \in {0, 1}
    BY <2>1, FS_EmptySet, FS_Singleton
  <2>3. Cardinality(F) > 1
    BY DEF F
  <2> QED BY <2>2, <2>3
<1>2. PICK g \in F : g # h
  BY <1>1
<1>3. Opened(table, h, d, i, n)[g] = table[g]
  BY <1>2 DEF Opened, Tables
<1> QED BY <1>2, <1>3

\* Closing handles leaves the one that is free.
LEMMA DroppedSpare ==
  ASSUME table \in Tables, Spare, NEW d, NEW gone
  PROVE  \E h \in Handles : ~Dropped(table, d, gone)[h].used
<1>1. PICK h \in Handles : ~table[h].used
  BY DEF Spare
<1>2. ~Dropped(table, d, gone)[h].used
  BY <1>1, DroppedIs
<1> QED BY <1>2

\* There is always a handle for fs_put_file: clients leave one, and every handle that is
\* closed by a delete, a put, a sector or a machine started anew is one more.
LEMMA SpareKept ==
  ASSUME LastHandle = FALSE, Inv, Spare, [Next]_vars
  PROVE  Spare'
<1>1. table \in Tables /\ \A h \in Handles : ~kept.table[h].used
  BY DEF Inv, Opens, Control
<1>2. \E h \in Handles : ~AllClosed[h].used
  <2>1. 0 \in Handles
    BY FileSystemAssumption DEF FileSystemAssumption, Handles
  <2> QED BY <2>1, HandleTypes
<1>3. CASE table' = table
  BY <1>3 DEF Spare
<1>4. ASSUME NEW d, NEW gone, table' = Dropped(table, d, gone) PROVE Spare'
  BY <1>1, <1>4, DroppedSpare DEF Spare
<1>5. ASSUME NEW d, NEW n, NEW c, table' = PutFile(d, n, c).t PROVE Spare'
  <2>1. table' = table \/ table' = Dropped(table, d, {Find(image[d], n)})
    BY <1>5 DEF PutFile
  <2> QED BY <1>3, <1>4, <2>1
<1>6. CASE HandleCall
  <2>1. ASSUME HandleToSpare, NEW h, NEW d, NEW i, NEW n, table' = Opened(table, h, d, i, n)
        PROVE  Spare'
    BY <1>1, <2>1, OpenedSpare DEF HandleToSpare, Spare
  <2>2. ASSUME NEW n \in Names, Open(n) PROVE Spare'
    BY <2>1, <2>2 DEF Open
  <2>3. ASSUME NEW n \in Names, Create(n) PROVE Spare'
    <3>1. HandleToSpare /\ (table' = table \/ \E h, i : table' = Opened(table, h, selected, i, n))
      BY <2>3 DEF Create
    <3> QED BY <1>3, <2>1, <3>1
  <2>4. ASSUME NEW h \in Handles, Close(h) PROVE Spare'
    <3>1. table'[h] = Closed
      BY <1>1, <2>4 DEF Close, Tables
    <3> QED BY <3>1, HandleTypes DEF Spare
  <2>5. ASSUME NEW h \in Handles, NEW pos, table' = [table EXCEPT ![h].pos = pos] PROVE Spare'
    <3>1. PICK g \in Handles : ~table[g].used
      BY DEF Spare
    <3>2. table[h] \in HandleRecords
      BY <1>1 DEF Tables
    <3>3. table'[g].used = table[g].used
      BY <1>1, <2>5, <3>1, <3>2 DEF Tables, HandleRecords
    <3> QED BY <3>1, <3>3 DEF Spare
  <2>6. ASSUME NEW h \in Handles, NEW len \in ReadSizes, Read(h, len) PROVE Spare'
    <3>1. \E pos : table' = [table EXCEPT ![h].pos = pos]
      BY <2>6 DEF Read
    <3> QED BY <2>5, <3>1
  <2>7. ASSUME NEW h \in Handles, NEW c \in FileContents, Write(h, c) PROVE Spare'
    <3>1. \E pos : table' = [table EXCEPT ![h].pos = pos]
      BY <2>7 DEF Write
    <3> QED BY <2>5, <3>1
  <2> QED BY <1>6, <2>2, <2>3, <2>4, <2>6, <2>7 DEF HandleCall
<1>7. CASE BiosCall
  <2>1. ASSUME NEW d \in Disks, SelectDisk(d) PROVE Spare'
    BY <1>3, <2>1 DEF SelectDisk
  <2>2. ASSUME NEW n \in Names, Delete(n) PROVE Spare'
    <3>1. table' = table \/ table' = Dropped(table, selected, {Find(image[selected], n)})
      BY <2>2 DEF Delete
    <3> QED BY <1>3, <1>4, <3>1
  <2>3. ASSUME NEW n \in Names, NEW c \in FileContents, Compile(n, c) PROVE Spare'
    BY <1>5, <2>3 DEF Compile
  <2>4. ASSUME NEW b \in Blocks, NEW o \in Offsets, NEW v \in SectorData, WriteSector(b, o, v)
        PROVE  Spare'
    BY <1>3, <2>4 DEF WriteSector
  <2>5. ASSUME NEW i \in Entries, WipeEntry(i) PROVE Spare'
    BY <1>4, <2>5 DEF WipeEntry, Pruned
  <2> QED BY <1>7, <2>1, <2>2, <2>3, <2>4, <2>5 DEF BiosCall
<1>8. CASE HostCall
  <2>1. ASSUME NEW d \in Disks, NEW n \in Names, NEW c \in FileContents, Put(d, n, c) PROVE Spare'
    BY <1>5, <2>1 DEF Put
  <2>2. ASSUME NEW d \in Disks, NEW im \in DeliveredDisks, Reload(d, im) PROVE Spare'
    BY <1>4, <2>2 DEF Reload, Pruned
  <2>3. CASE Flush \/ SaveState
    BY <1>3, <2>3 DEF Flush, SaveState
  <2>4. CASE Restart
    BY <1>2, <2>4 DEF Restart, Spare
  <2>5. CASE LoadState
    <3>1. table' = kept.table /\ Handles # {}
      BY <1>2, <2>5 DEF LoadState
    <3> QED BY <1>1, <3>1 DEF Spare
  <2> QED BY <1>8, <2>1, <2>2, <2>3, <2>4, <2>5 DEF HostCall
<1>9. CASE UNCHANGED vars
  BY <1>3, <1>9 DEF vars
<1> QED BY <1>6, <1>7, <1>8, <1>9 DEF Next

---------------------------------------------------------------------------
(* The refinement.                                                         *)

\* The disks are a store from the start, whatever images the host has.
LEMMA NamedStore ==
  ASSUME NEW ims \in [Disks -> SoundImages]
  PROVE  Store!Anything(Named(ims))
BY FilesAre DEF Named, Store!Anything

\* A machine at its start is a store at its start.
LEMMA InitRefines == Init => Store!Init
<1> SUFFICES ASSUME Init PROVE Store!Init
  OBVIOUS
<1>1. image \in [Disks -> SoundImages]
  BY InitInv DEF Inv, Stores
<1>2. NoAnswer = Store!NoAnswer
  BY DEF NoAnswer, Store!NoAnswer, Answer, Store!Answer, NoName, Store!NoName
<1>3. Store!Anything(Named(image))
  BY <1>1, NamedStore
<1> QED BY <1>2, <1>3 DEF Init, Store!Init, Named

\* No handle is open at first.
LEMMA InitSpare == Init => Spare
<1>1. 0 \in Handles
  BY FileSystemAssumption DEF FileSystemAssumption, Handles
<1> QED BY <1>1, HandleTypes DEF Init, Spare

\* Every call is a step of the store, or leaves it as it is.
LEMMA NextRefines ==
  ASSUME Inv, Spare, [Next]_vars
  PROVE  [Store!Next]_(Store!vars)
<1>1. selected \in Disks
  BY DEF Inv, Control
<1>2. image' \in [Disks -> SoundImages]
  BY NextInv DEF Inv, Stores
<1>3. CASE HandleCall
  <2>1. ASSUME NEW n \in Names, Open(n) PROVE Store!Next
    BY <2>1, QuietStep DEF Open, Store!Next
  <2>2. ASSUME NEW n \in Names, Create(n) PROVE Store!Next
    BY <1>1, <2>2, CreateStep DEF Store!Next
  <2>3. ASSUME NEW h \in Handles, Close(h) PROVE Store!Next
    BY <2>3, QuietStep DEF Close, Store!Next
  <2>4. ASSUME NEW h \in Handles, NEW len \in ReadSizes, Read(h, len) PROVE Store!Next
    BY <2>4, QuietStep DEF Read, Store!Next
  <2>5. ASSUME NEW h \in Handles, NEW c \in FileContents, Write(h, c) PROVE Store!Next
    BY <2>5, WriteStep DEF Store!Next
  <2> QED BY <1>3, <2>1, <2>2, <2>3, <2>4, <2>5 DEF HandleCall
<1>4. CASE BiosCall
  <2>1. ASSUME NEW d \in Disks, SelectDisk(d) PROVE Store!Next
    BY <2>1, QuietStep DEF SelectDisk, Store!Next
  <2>2. ASSUME NEW n \in Names, Delete(n) PROVE Store!Next
    BY <1>1, <2>2, DeleteStep DEF Store!Next
  <2>3. ASSUME NEW n \in Names, NEW c \in FileContents, Compile(n, c) PROVE Store!Next
    <3>1. Store!Put(selected, n)
      BY <1>1, <2>3, PutStep, ContentsType DEF Compile
    <3> QED BY <1>1, <3>1 DEF Store!Next
  <2>4. ASSUME NEW b \in Blocks, NEW o \in Offsets, NEW v \in SectorData, WriteSector(b, o, v)
        PROVE  Store!Next
    BY <1>1, <2>4, SectorStep DEF Store!Next
  <2>5. ASSUME NEW i \in Entries, WipeEntry(i) PROVE Store!Next
    BY <1>1, <2>5, WipeStep DEF Store!Next
  <2> QED BY <1>4, <2>1, <2>2, <2>3, <2>4, <2>5 DEF BiosCall
<1>5. CASE HostCall
  <2>1. ASSUME NEW d \in Disks, NEW n \in Names, NEW c \in FileContents, Put(d, n, c)
        PROVE  Store!Next
    <3>1. Store!Put(d, n)
      BY <2>1, PutStep, ContentsType DEF Put
    <3> QED BY <3>1 DEF Store!Next
  <2>2. ASSUME answer'.op = "IMAGE" PROVE Store!Next
    <3>1. Store!Anything(Named(image'))
      BY <1>2, NamedStore
    <3>2. Store!Image
      BY <2>2, <3>1 DEF Named, Store!Image
    <3> QED BY <3>2 DEF Store!Next
  <2>3. ASSUME NEW d \in Disks, NEW im \in DeliveredDisks, Reload(d, im) PROVE Store!Next
    BY <2>2, <2>3 DEF Reload, Answer
  <2>4. CASE Restart
    BY <2>2, <2>4 DEF Restart, Answer
  <2>5. CASE Flush \/ SaveState \/ LoadState
    BY <2>5, QuietStep DEF Flush, SaveState, LoadState, Store!Next
  <2> QED BY <1>5, <2>1, <2>3, <2>4, <2>5 DEF HostCall
<1>6. CASE UNCHANGED vars
  BY <1>6 DEF vars, Store!vars
<1> QED BY <1>3, <1>4, <1>5, <1>6 DEF Next

\* While clients leave fs_put_file a handle, the directory, the blocks and the handles are
\* a store of named contents: a put, by the host or by svc_compile, replaces a file by
\* exactly what was put or changes nothing, a write lays a prefix of its data over its own
\* file, and nothing else moves.
THEOREM FileSystemImplementsStore ==
  ASSUME LastHandle = FALSE
  PROVE  Spec => StoreSpec
<1>1. Inv /\ Spare /\ [Next]_vars => Spare'
  BY SpareKept
<1>2. Inv /\ Spare /\ [Next]_vars => [Store!Next]_(Store!vars)
  BY NextRefines
<1> QED BY InitSpare, <1>1, <1>2, SpecInv, InitRefines, PTL DEF Spec, StoreSpec, Store!Spec

\* While clients leave it a handle, an fs_put_file that fails has destroyed nothing: every
\* file of the disk, the one it was to replace too, has the contents it had.
THEOREM FailedPutsDestroyNothing ==
  ASSUME LastHandle = FALSE
  PROVE  Spec => FailedPutHarmless
<1>1. Inv /\ Spare /\ [Next]_vars => Spare'
  BY SpareKept
<1>2. Inv /\ Spare /\ [Next]_vars =>
        [answer'.op = "PUT" /\ ~answer'.ok =>
           Files(image'[answer'.disk]) = Files(image[answer'.disk])]_vars
  <2> SUFFICES ASSUME Inv, Spare, [Next]_vars, answer'.op = "PUT", ~answer'.ok
               PROVE  Files(image'[answer'.disk]) = Files(image[answer'.disk])
    OBVIOUS
  <2>1. answer'.disk \in Disks
    BY NextInv DEF Inv, Control
  <2>2. [Store!Next]_(Store!vars)
    BY NextRefines
  <2>3. UNCHANGED [d \in Disks |-> Files(image[d])]
    <3>1. CASE UNCHANGED Store!vars
      BY <3>1 DEF Store!vars
    <3>2. CASE Store!Next
      <4>1. Store!NoAnswer.op = "NONE"
        BY DEF Store!NoAnswer, Store!Answer
      <4>2. \E d \in Disks, n \in Names : Store!Put(d, n)
        BY <3>2, <4>1
           DEF Store!Next, Store!Sector, Store!Create, Store!Delete, Store!Write, Store!Image, Store!Quiet
      <4> QED BY <4>2 DEF Store!Put, Store!Fail
    <3> QED BY <2>2, <3>1, <3>2
  <2> QED BY <2>1, <2>3
<1> QED BY InitSpare, <1>1, <1>2, SpecInv, PTL DEF Spec, FailedPutHarmless
=============================================================================
