----------------------------- MODULE FileStore -----------------------------
(***************************************************************************)
(* What the file system promises: named contents on each disk.  A put      *)
(* replaces a file by exactly the contents given or leaves it alone, a     *)
(* write lays a prefix of its data over one file, a sector written under   *)
(* the file system reaches one file at most, and nothing else moves.       *)
(* FileSystem.tla implements this with a directory, blocks and handles.    *)
(***************************************************************************)
EXTENDS Integers, Sequences

CONSTANTS Disks, Names, Data

VARIABLES
  files,     \* files[disk]: a function from the names there are to contents
  answer     \* the last call and what it answered, or NoAnswer

vars == <<files, answer>>

NoName == ""
Ops == {"NONE", "PUT", "CREATE", "WRITE", "DELETE", "SECTOR", "IMAGE"}
Answer(op, d, n, arg, ok) == [op |-> op, disk |-> d, name |-> n, arg |-> arg, ok |-> ok]
NoAnswer == Answer("NONE", 0, NoName, <<>>, TRUE)

IsStore(f) == DOMAIN f \subseteq Names /\ \A n \in DOMAIN f : f[n] \in Seq(Data)
Anything(fs) == DOMAIN fs = Disks /\ \A d \in Disks : IsStore(fs[d])

Init == Anything(files) /\ answer = NoAnswer

\* A store with one file more, or other contents of it; and one with the files of S only.
With(f, n, c) == [k \in DOMAIN f \cup {n} |-> IF k = n THEN c ELSE f[k]]
Only(f, S) == [k \in S |-> f[k]]
Set(d, n, c) == files' = [files EXCEPT ![d] = With(@, n, c)]
Keep(d, S) == files' = [files EXCEPT ![d] = Only(@, S)]
Fail == ~answer'.ok /\ UNCHANGED files

Put(d, n) ==
  /\ answer'.op = "PUT" /\ answer'.name = n /\ answer'.disk = d
  /\ Fail \/ (answer'.ok /\ Set(d, n, answer'.arg))

Create(d, n) ==
  /\ answer'.op = "CREATE" /\ answer'.name = n /\ answer'.disk = d
  /\ Fail \/ (answer'.ok /\ n \notin DOMAIN files[d] /\ Set(d, n, <<>>))

Delete(d, n) ==
  /\ answer'.op = "DELETE" /\ answer'.name = n /\ answer'.disk = d
  /\ answer'.ok = (n \in DOMAIN files[d])
  /\ Keep(d, DOMAIN files[d] \ {n})

\* Lay c over old from position pos on.
Overlay(old, pos, c) ==
  [k \in 1..(IF pos + Len(c) > Len(old) THEN pos + Len(c) ELSE Len(old)) |->
     IF k > pos /\ k <= pos + Len(c) THEN c[k - pos] ELSE old[k]]
Write(d, n) ==
  /\ answer'.op = "WRITE" /\ answer'.name = n /\ answer'.disk = d
  /\ \/ Fail
     \/ /\ answer'.ok /\ n \in DOMAIN files[d]
        /\ \E pos \in 0..Len(files[d][n]), total \in 1..Len(answer'.arg) :
             Set(d, n, Overlay(files[d][n], pos, SubSeq(answer'.arg, 1, total)))

\* A data sector changes one unit of one file, a directory sector takes files away.
Sector(d) ==
  /\ answer'.op = "SECTOR" /\ answer'.disk = d
  /\ \/ UNCHANGED files
     \/ \E n \in DOMAIN files[d] : \E pos \in 0..(Len(files[d][n]) - 1), v \in Data :
          Set(d, n, Overlay(files[d][n], pos, <<v>>))
     \/ \E S \in SUBSET DOMAIN files[d] : Keep(d, S)

\* The host puts other images in place, or starts the machine anew.
Image == answer'.op = "IMAGE" /\ Anything(files')

Quiet == answer' = NoAnswer /\ UNCHANGED files

Next == \/ \E d \in Disks : Sector(d) \/ \E n \in Names :
              Put(d, n) \/ Create(d, n) \/ Delete(d, n) \/ Write(d, n)
        \/ Image \/ Quiet
Spec == Init /\ [][Next]_vars
=============================================================================
