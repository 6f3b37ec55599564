-------------------------- MODULE FileStoreProofs --------------------------
(***************************************************************************)
(* Proofs about FileStore, for any number of data managers, directories,   *)
(* files, blocks and requests.                                             *)
(***************************************************************************)
EXTENDS FileStore, TLAPS

-----------------------------------------------------------------------------
(* Types.                                                                  *)

(* TypeOK, and the managers for which there is something served.           *)
Typed == TypeOK /\ DOMAIN served = Managers

(* Every variable that has a value for each manager.                       *)
Fields ==
  /\ DOMAIN pc = Managers /\ DOMAIN req = Managers /\ DOMAIN known = Managers
  /\ DOMAIN dir = Managers /\ DOMAIN filename = Managers
  /\ DOMAIN size = Managers /\ DOMAIN served = Managers
  /\ DOMAIN opened = Managers /\ DOMAIN pos = Managers
  /\ DOMAIN put = Managers /\ DOMAIN stored = Managers

(* The types say for whom the values are.                                  *)
LEMMA FieldsOfTypes == Typed => Fields
BY DEF Typed, TypeOK, Fields

(* Manager n is as it was.                                                 *)
Same(n) ==
  /\ pc'[n] = pc[n] /\ req'[n] = req[n] /\ known'[n] = known[n]
  /\ dir'[n] = dir[n] /\ filename'[n] = filename[n]
  /\ size'[n] = size[n] /\ served'[n] = served[n]
  /\ opened'[n] = opened[n] /\ pos'[n] = pos[n]
  /\ put'[n] = put[n] /\ stored'[n] = stored[n]

(* The pieces of init() that look for a file.                              *)
Search(m) == Begin(m) \/ SearchMd5(m) \/ SearchName(m)

(* The steps that only go on.                                              *)
GoOn(m) ==
  \/ OpenProbe(m) \/ Reopen(m) \/ CheckWrite(m) \/ OpenWriteFails(m)
  \/ ReadFails(m) \/ WriteFails(m)

(* The steps that pass something on to the file.                           *)
Puts(m) == WriteElsewhere(m) \/ Flush(m) \/ CloseStreams(m)

Act(m) ==
  \/ Search(m) \/ GoOn(m) \/ KeepSize(m) \/ OpenWrite(m) \/ Read(m) \/ Write(m)
  \/ Puts(m) \/ Chown(m) \/ Chmod(m)

(* A step is one of a manager, or the end of the process.                  *)
LEMMA NextIs == Next <=> (\E m \in Managers : Act(m)) \/ Crash
BY DEF Next, Act, Search, GoOn, Puts

(* What a step that only goes on does.                                     *)
LEMMA GoOnIs ==
  ASSUME NEW m, GoOn(m)
  PROVE  /\ UNCHANGED <<req, filename, known, dir, size, served>>
         /\ UNCHANGED <<opened, pos, put, stored, disk>>
         /\ \/ pc[m] = "found" /\ Go(m, "probed")
            \/ pc[m] = "probed" /\ (Go(m, "reopened") \/ Go(m, "unopened"))
            \/ pc[m] = "check" /\ exists(filename[m]) /\ Go(m, "ending")
            \/ pc[m] = "check" /\ ~exists(filename[m]) /\ Go(m, "checked")
            \/ pc[m] \in {"checked", "no_stream", "writing"} /\ Go(m, "ending")
<1>1. CASE OpenProbe(m) \/ Reopen(m)
  BY Zenon, <1>1 DEF OpenProbe, Reopen, reader, writer
<1>2. CASE CheckWrite(m)
  BY Zenon, <1>2 DEF CheckWrite, reader, writer
<1>3. CASE OpenWriteFails(m) \/ ReadFails(m) \/ WriteFails(m)
  BY Zenon, <1>3 DEF OpenWriteFails, ReadFails, WriteFails, reader, writer
<1> QED BY Zenon, <1>1, <1>2, <1>3 DEF GoOn

(* A step of one manager leaves the others as they are.                    *)
LEMMA OthersStay ==
  ASSUME Fields, NEW m \in Managers, NEW n \in Managers, n # m, Act(m)
  PROVE  Same(n)
<1>1. CASE Begin(m)
  BY Zenon, <1>1 DEF Begin, Same, Fields, writer
<1>2. CASE SearchMd5(m)
  BY Zenon, <1>2 DEF SearchMd5, Same, Fields, writer, Go
<1>3. CASE SearchName(m)
  BY Zenon, <1>3 DEF SearchName, Same, Fields, writer, Go
<1>4. CASE GoOn(m)
  <2>1. \A v : Go(m, v) => pc'[n] = pc[n]
    BY Zenon DEF Go, Fields
  <2>2. pc'[n] = pc[n]
    BY Zenon, <1>4, <2>1, GoOnIs
  <2>3. /\ UNCHANGED <<req, filename, known, dir, size, served>>
        /\ UNCHANGED <<opened, pos, put, stored>>
    BY Zenon, <1>4, GoOnIs
  <2> QED BY Zenon, <2>2, <2>3 DEF Same
<1>5. CASE KeepSize(m)
  BY Zenon, <1>5 DEF KeepSize, Same, Fields, writer, Go
<1>6. CASE OpenWrite(m)
  BY Zenon, <1>6 DEF OpenWrite, Same, Fields, reader, Go
<1>7. CASE Read(m)
  BY Zenon, <1>7 DEF Read, Same, Fields, writer
<1>8. CASE Write(m)
  BY Zenon, <1>8 DEF Write, Same, Fields, reader
<1>9. CASE WriteElsewhere(m)
  BY Zenon, <1>9 DEF WriteElsewhere, PassOn, Same, Fields, reader
<1>10. CASE Flush(m)
  BY Zenon, <1>10 DEF Flush, PassOn, Same, Fields, reader
<1>11. CASE CloseStreams(m)
  BY Zenon, <1>11 DEF CloseStreams, PassOn, Same, Fields, reader, Go
<1>12. CASE Chown(m) \/ Chmod(m)
  BY Zenon, <1>12 DEF Chown, Chmod, Same, Fields, reader, writer, Go
<1> QED
  BY Zenon, <1>1, <1>2, <1>3, <1>4, <1>5, <1>6, <1>7, <1>8, <1>9, <1>10, <1>11, <1>12
  DEF Act, Search, Puts

-----------------------------------------------------------------------------
(* Where a manager is, and what it has done by then.                       *)

Finds == {"found", "probed", "reopened", "unopened", "reading", "no_stream"}

Wrote == {"writing", "ending", "chown", "chmod", "closed", "gone"}

Where(m) ==
  /\ opened[m] => pc[m] \in Wrote /\ filename[m] \in DOMAIN disk \ Initial
  /\ ~opened[m] => pos[m] = 0 /\ put[m] = 0 /\ stored[m] = {}
  /\ pc[m] = "writing" => opened[m]
  /\ pc[m] = "checked" => filename[m] \notin Initial
  /\ pc[m] \in Finds => filename[m] \in DOMAIN disk
  /\ put[m] <= pos[m]
  /\ pc[m] \in {"chown", "chmod", "closed"} => put[m] = pos[m]

IInv == Typed /\ Initial \subseteq DOMAIN disk /\ \A m \in Managers : Where(m)

(* Nothing happens to what the files hold.                                 *)
Quiet ==
  /\ DOMAIN disk' = DOMAIN disk
  /\ \A p \in DOMAIN disk : disk'[p].data = disk[p].data

(* Manager m passes blocks of its buffer on to its file.                   *)
Passes(m) ==
  /\ opened[m] /\ pc[m] \in {"writing", "ending"}
  /\ \E to \in put[m] .. pos[m] : PassOn(m, to)

(* What PassOn leaves of the other files, and makes of that of m.          *)
LEMMA PassOnIs ==
  ASSUME NEW m, NEW to, filename[m] \in DOMAIN disk, PassOn(m, to),
         disk[filename[m]] \in File
  PROVE  /\ DOMAIN disk' = DOMAIN disk
         /\ \A p \in DOMAIN disk : p # filename[m] => disk'[p] = disk[p]
         /\ disk'[filename[m]].data
              = Overwrite(disk[filename[m]].data, m, put[m] + 1, to)
         /\ disk'[filename[m]].set = disk[filename[m]].set
         /\ disk'[filename[m]] = [disk[filename[m]] EXCEPT !.data =
              Overwrite(disk[filename[m]].data, m, put[m] + 1, to)]
<1> PICK p : p = filename[m]
  OBVIOUS
<1> PICK d : d = Overwrite(disk[filename[m]].data, m, put[m] + 1, to)
  OBVIOUS
<1>1. disk' = [disk EXCEPT ![p] = [disk[p] EXCEPT !.data = d]]
  BY DEF PassOn
<1>2. DOMAIN disk[p] = {"data", "set"}
  BY DEF File
<1> QED BY <1>1, <1>2

(* Ownership and permissions are not what a file holds.                    *)
LEMMA ChangeIs ==
  ASSUME NEW m, NEW what, Change(m, what), \A p \in DOMAIN disk : disk[p] \in File
  PROVE  /\ Quiet
         /\ what \in {"owner", "mode"} => \A p \in DOMAIN disk' : disk'[p] \in File
<1> PICK q : q = filename[m]
  OBVIOUS
<1>1. q \in DOMAIN disk /\ disk[q] \in File
  BY DEF Change, exists
<1>2. disk' = [disk EXCEPT ![q] = [disk[q] EXCEPT !.set = disk[q].set \cup {what}]]
  BY DEF Change
<1>3. DOMAIN disk' = DOMAIN disk /\ \A p \in DOMAIN disk : p # q => disk'[p] = disk[p]
  BY <1>2
<1>4. disk'[q] = [disk[q] EXCEPT !.set = disk[q].set \cup {what}]
  BY <1>1, <1>2
<1>5. disk'[q].data = disk[q].data
  BY <1>1, <1>4 DEF File
<1>6. what \in {"owner", "mode"} => disk'[q] \in File
  BY <1>1, <1>4 DEF File
<1> QED BY <1>3, <1>5, <1>6 DEF Quiet

(* A step of the stream of m passes on what is in its buffer, or nothing.  *)
LEMMA PutsIs ==
  ASSUME IInv, NEW m \in Managers, Puts(m)
  PROVE  Passes(m) \/ UNCHANGED <<stored, disk>>
<1>1. put[m] \in Nat /\ pos[m] \in Nat /\ put[m] <= pos[m] /\ Where(m)
  BY StoreAssumption DEF IInv, Where, Typed, TypeOK
<1>2. pos[m] \in put[m] .. pos[m] /\ (put[m] < pos[m] => put[m] + 1 \in put[m] .. pos[m])
  BY <1>1
<1>3. CASE WriteElsewhere(m) \/ Flush(m)
  BY Zenon, <1>1, <1>2, <1>3 DEF WriteElsewhere, Flush, Passes, Where
<1>4. CASE CloseStreams(m)
  <2>1. opened[m] => pc[m] \in {"writing", "ending"}
    BY Zenon, <1>1, <1>4 DEF CloseStreams, Where, Wrote
  <2> QED BY Zenon, <1>2, <1>4, <2>1 DEF CloseStreams, Passes
<1> QED BY Zenon, <1>3, <1>4 DEF Puts

(* What a step of m does to what the files hold.                           *)
LEMMA DiskStep ==
  ASSUME IInv, NEW m \in Managers, Act(m)
  PROVE  (Quiet /\ UNCHANGED stored) \/ OpenWrite(m) \/ Passes(m)
<1>1. CASE UNCHANGED <<stored, disk>>
  BY <1>1 DEF Quiet
<1>2. CASE Search(m) \/ GoOn(m) \/ KeepSize(m) \/ Read(m) \/ Write(m)
  BY Zenon, <1>1, <1>2, GoOnIs
  DEF Search, Begin, SearchMd5, SearchName, KeepSize, Read, Write, writer
<1>3. CASE Chown(m) \/ Chmod(m)
  BY Zenon, <1>1, <1>3, ChangeIs DEF Chown, Chmod, IInv, Typed, TypeOK, writer
<1> QED BY Zenon, <1>1, <1>2, <1>3, PutsIs DEF Act

(* No action of a DataMgr removes a file.                                  *)
LEMMA FilesStay ==
  ASSUME IInv, NEW m \in Managers, Act(m)
  PROVE  DOMAIN disk \subseteq DOMAIN disk'
<1>1. CASE Passes(m)
  <2>1. filename[m] \in DOMAIN disk /\ disk[filename[m]] \in File
    BY Zenon, <1>1 DEF Passes, IInv, Where, Typed, TypeOK
  <2> QED BY Zenon, <1>1, <2>1, PassOnIs DEF Passes
<1>2. CASE OpenWrite(m)
  BY Zenon, <1>2 DEF OpenWrite
<1> QED BY Zenon, <1>1, <1>2, DiskStep DEF Quiet

(* A manager that does not step keeps its place.                           *)
LEMMA WhereSame ==
  ASSUME NEW n, Same(n), DOMAIN disk \subseteq DOMAIN disk', Where(n)
  PROVE  Where(n)'
<1> PICK a, b, c, d, e, f : /\ a = pc[n] /\ b = opened[n] /\ c = filename[n]
                            /\ d = pos[n] /\ e = put[n] /\ f = stored[n]
  OBVIOUS
<1>1. /\ pc'[n] = a /\ opened'[n] = b /\ filename'[n] = c
      /\ pos'[n] = d /\ put'[n] = e /\ stored'[n] = f
  BY Zenon DEF Same
<1> QED BY Zenon, <1>1 DEF Where

(* What a search finds is there.                                           *)
LEMMA SearchIs ==
  ASSUME Fields, NEW m \in Managers, SearchMd5(m) \/ SearchName(m)
  PROVE  /\ UNCHANGED <<req, known, size, served, writer, disk>>
         /\ pc'[m] \in {"found", "search_md5", "search_name", "ending"}
         /\ pc'[m] = "found" => filename'[m] \in DOMAIN disk
         /\ pc[m] \in {"search_md5", "search_name"}
<1>1. CASE SearchMd5(m)
  <2>1. \A d, sum : search_by_md5(d, sum) \subseteq DOMAIN disk
    BY DEF search_by_md5, exists
  <2> PICK found : found = search_by_md5(Dirs[dir[m]], req[m].name)
    OBVIOUS
  <2>2. found \subseteq DOMAIN disk
    BY Zenon, <2>1
  <2>3. \/ \E p \in found : filename' = [filename EXCEPT ![m] = p] /\ Go(m, "found")
        \/ UNCHANGED pc
        \/ Go(m, "search_name")
    BY Zenon, <1>1 DEF SearchMd5
  <2>4. pc[m] = "search_md5" /\ UNCHANGED <<req, known, size, served, writer, disk>>
    BY Zenon, <1>1 DEF SearchMd5
  <2> QED BY <2>2, <2>3, <2>4 DEF Go, Fields
<1>2. CASE SearchName(m)
  BY Zenon, <1>2 DEF SearchName, Go, Fields, exists
<1> QED BY Zenon, <1>1, <1>2

(* A step that leaves the stream alone.                                    *)
LEMMA WhereQuiet ==
  ASSUME NEW m, Where(m), UNCHANGED <<writer, disk>>,
         opened[m] => pc'[m] \in Wrote /\ filename' = filename,
         pc'[m] = "writing" => pc[m] = "writing",
         pc'[m] = "checked" => filename'[m] \notin Initial,
         pc'[m] \in Finds => filename'[m] \in DOMAIN disk,
         pc'[m] \in {"chown", "chmod", "closed"} => put[m] = pos[m]
  PROVE  Where(m)'
<1> PICK a : a = filename[m]
  OBVIOUS
<1> QED BY Zenon DEF Where, writer

(* Each step leaves the manager that takes it where it says.               *)
LEMMA WhereStep ==
  ASSUME IInv, NEW m \in Managers, Act(m)
  PROVE  Where(m)'
<1>0. Fields /\ Where(m) /\ Initial \subseteq DOMAIN disk
  BY Zenon, FieldsOfTypes DEF IInv
<1>1. CASE Begin(m)
  <2>1. pc'[m] \in {"check", "search_md5", "search_name"} /\ pc[m] = "idle"
    BY Zenon, <1>0, <1>1 DEF Begin, Fields
  <2>2. UNCHANGED <<writer, disk>>
    BY Zenon, <1>1 DEF Begin
  <2>3. ~opened[m]
    BY <1>0, <2>1 DEF Where, Wrote
  <2> QED BY <1>0, <2>1, <2>2, <2>3, WhereQuiet DEF Finds
<1>2. CASE SearchMd5(m) \/ SearchName(m)
  <2>1. ~opened[m]
    BY <1>0, <1>2, SearchIs DEF Where, Wrote
  <2> QED BY <1>0, <1>2, <2>1, SearchIs, WhereQuiet DEF Finds
<1>3. CASE GoOn(m)
  <2>1. /\ UNCHANGED <<writer, disk>> /\ filename' = filename
    BY Zenon, <1>3, GoOnIs DEF writer
  <2>2. \A v : Go(m, v) => pc'[m] = v
    BY <1>0 DEF Fields, Go
  <2>3. \/ pc[m] = "found" /\ pc'[m] = "probed"
        \/ pc[m] = "probed" /\ pc'[m] \in {"reopened", "unopened"}
        \/ pc[m] = "check" /\ pc'[m] = "ending"
        \/ pc[m] = "check" /\ filename[m] \notin DOMAIN disk /\ pc'[m] = "checked"
        \/ pc[m] \in {"checked", "no_stream", "writing"} /\ pc'[m] = "ending"
    BY Zenon, <1>3, <2>2, GoOnIs DEF exists
  <2>4. opened[m] => pc'[m] = "ending"
    BY <1>0, <2>3 DEF Where, Wrote
  <2>5. pc'[m] \in Finds => filename[m] \in DOMAIN disk
    BY <1>0, <2>3 DEF Where, Finds
  <2>6. pc'[m] \notin {"writing", "chown", "chmod", "closed"}
    BY <2>3
  <2>7. pc'[m] = "checked" => filename[m] \notin Initial
    BY <1>0, <2>3
  <2> QED BY Zenon, <1>0, <2>1, <2>4, <2>5, <2>6, <2>7, WhereQuiet DEF Wrote
<1>4. CASE KeepSize(m)
  <2>1. /\ UNCHANGED <<writer, disk>> /\ filename' = filename
        /\ pc[m] \in {"reopened", "unopened"} /\ pc'[m] \in {"reading", "no_stream"}
    BY Zenon, <1>0, <1>4 DEF KeepSize, Go, Fields
  <2>2. ~opened[m] /\ filename[m] \in DOMAIN disk
    BY <1>0, <2>1 DEF Where, Wrote, Finds
  <2>3. pc'[m] \notin {"writing", "checked", "chown", "chmod", "closed"}
    BY <2>1
  <2> QED BY Zenon, <1>0, <2>1, <2>2, <2>3, WhereQuiet
<1>5. CASE OpenWrite(m)
  <2>1. /\ pc[m] = "checked" /\ pc'[m] = "writing" /\ opened'[m]
        /\ UNCHANGED <<filename, pos, put, stored>> /\ filename[m] \in DOMAIN disk'
    BY Zenon, <1>0, <1>5 DEF OpenWrite, Go, Fields
  <2>2. filename[m] \notin Initial
    BY <1>0, <2>1 DEF Where
  <2> PICK a : a = filename[m]
    OBVIOUS
  <2>3. put[m] <= pos[m]
    BY <1>0 DEF Where
  <2> QED BY <2>1, <2>2, <2>3 DEF Where, Wrote, Finds
<1>6. CASE Read(m)
  <2>1. UNCHANGED <<pc, filename, writer, disk>> /\ pc[m] = "reading"
    BY Zenon, <1>6 DEF Read
  <2> QED BY Zenon, <1>0, <2>1, WhereQuiet DEF Where
<1>7. put[m] \in Nat /\ pos[m] \in Nat /\ put[m] <= pos[m]
  BY <1>0, StoreAssumption DEF IInv, Where, Typed, TypeOK
<1>8. CASE Write(m) \/ WriteElsewhere(m) \/ Flush(m)
  <2>1. /\ pc[m] = "writing" /\ UNCHANGED <<pc, filename, opened>>
    BY Zenon, <1>8 DEF Write, WriteElsewhere, Flush
  <2>2. put'[m] <= pos'[m]
    <3>1. CASE Write(m)
      <4>1. put'[m] = put[m] /\ pos'[m] = pos[m] + 1
        BY Zenon, <1>0, <3>1 DEF Write, Fields
      <4> QED BY <1>7, <4>1
    <3>2. CASE WriteElsewhere(m)
      <4>1. PICK n \in 1 .. Blocks : put'[m] = n - 1 /\ pos'[m] = n
        BY Zenon, <1>0, <3>2 DEF WriteElsewhere, Fields
      <4> QED BY <4>1, StoreAssumption
    <3>3. CASE Flush(m)
      <4>1. put'[m] = put[m] + 1 /\ pos'[m] = pos[m] /\ put[m] < pos[m]
        BY Zenon, <1>0, <3>3 DEF Flush, Fields
      <4> QED BY <1>7, <4>1
    <3> QED BY <1>8, <3>1, <3>2, <3>3
  <2>3. opened[m] /\ filename[m] \in DOMAIN disk' \ Initial
    BY Zenon, <1>0, <2>1, FilesStay DEF Where
  <2> QED BY <2>1, <2>2, <2>3 DEF Where, Wrote, Finds
<1>9. CASE CloseStreams(m)
  <2>1. /\ pc[m] \in {"reading", "writing", "ending"}
        /\ pc'[m] \in {"chown", "closed"} /\ UNCHANGED <<filename, opened, pos>>
    BY Zenon, <1>0, <1>9 DEF CloseStreams, Go, Fields
  <2>2. CASE opened[m]
    <3>1. put'[m] = pos[m] /\ filename[m] \in DOMAIN disk' \ Initial
      BY Zenon, <1>0, <1>9, <2>2, FilesStay DEF CloseStreams, Fields, Where
    <3> QED BY <1>7, <2>1, <2>2, <3>1 DEF Where, Wrote, Finds
  <2>3. CASE ~opened[m]
    <3>1. UNCHANGED <<put, stored>>
      BY Zenon, <1>9, <2>3 DEF CloseStreams
    <3>2. pos[m] = 0 /\ put[m] = 0 /\ stored[m] = {}
      BY <1>0, <2>3 DEF Where
    <3> QED BY <2>1, <2>3, <3>1, <3>2 DEF Where, Wrote, Finds
  <2> QED BY <2>2, <2>3
<1>10. CASE Chown(m) \/ Chmod(m)
  <2>1. /\ pc[m] \in {"chown", "chmod"} /\ pc'[m] \in {"chmod", "closed"}
        /\ UNCHANGED <<filename, opened, pos, put, stored>>
    BY Zenon, <1>0, <1>10 DEF Chown, Chmod, Go, Fields, writer
  <2>2. put[m] = pos[m]
    BY <1>0, <2>1 DEF Where
  <2>3. opened[m] => filename[m] \in DOMAIN disk' \ Initial
    BY Zenon, <1>0, FilesStay DEF Where
  <2>4. ~opened[m] => pos[m] = 0 /\ put[m] = 0 /\ stored[m] = {}
    BY <1>0 DEF Where
  <2> QED BY <1>7, <2>1, <2>2, <2>3, <2>4 DEF Where, Wrote, Finds
<1> QED
  BY Zenon, <1>1, <1>2, <1>3, <1>4, <1>5, <1>6, <1>8, <1>9, <1>10 DEF Act, Search, Puts

(* A file after blocks were written over it.                               *)
LEMMA OverwriteType ==
  ASSUME NEW data \in Seq(AnyBlock), NEW m \in Managers, NEW from \in Nat, NEW to \in Nat
  PROVE  Overwrite(data, m, from, to) \in Seq(AnyBlock)
<1> DEFINE n == IF to >= from /\ to > Len(data) THEN to ELSE Len(data)
           e(j) == IF from <= j /\ j <= to THEN Block(m, j)
                   ELSE IF j <= Len(data) THEN data[j] ELSE Hole
<1>1. n \in Nat
  OBVIOUS
<1>2. ASSUME NEW j \in 1 .. n
      PROVE  e(j) \in AnyBlock
  <2>1. Block(m, j) \in AnyBlock /\ Hole \in AnyBlock
    BY <1>1 DEF Block, Hole, AnyBlock
  <2>2. j <= Len(data) => data[j] \in AnyBlock
    BY <1>1
  <2> QED BY <2>1, <2>2
<1>3. Overwrite(data, m, from, to) = [j \in 1 .. n |-> e(j)]
  BY DEF Overwrite
<1> HIDE DEF n, e
<1> QED BY <1>1, <1>2, <1>3

(* A path that the searches may set filename_ to.                          *)
LEMMA PathType ==
  /\ \A r \in Requests : \A i \in 1 .. Len(Dirs) : <<Dirs[i], r.name>> \in Path
  /\ \A d, sum : search_by_md5(d, sum) \subseteq Path
  /\ 1 \in 1 .. Len(Dirs)
<1>1. \A r \in Requests : \A i \in 1 .. Len(Dirs) : <<Dirs[i], r.name>> \in Path
  BY DEF Path, DirSet, Names
<1>2. \A f \in Md5Files : f.companion \in Path /\ f.listed \in Path
  BY StoreAssumption
<1>3. \A d, sum : search_by_md5(d, sum) \subseteq Path
  BY Zenon, <1>2 DEF search_by_md5
<1>4. 1 \in 1 .. Len(Dirs)
  BY StoreAssumption
<1> QED BY <1>1, <1>3, <1>4

(* The types of the parts of a manager, apart from those of the files.     *)
ReaderTypes ==
  /\ known \in [Managers -> SUBSET Path]
  /\ dir \in [Managers -> 1 .. Len(Dirs)]
  /\ size \in [Managers -> Nat]
  /\ DOMAIN served = Managers
  /\ \A m \in Managers : /\ DOMAIN served[m] \subseteq 1 .. Blocks
                         /\ \A i \in DOMAIN served[m] : served[m][i] \in AnyBlock

WriterTypes ==
  /\ opened \in [Managers -> BOOLEAN]
  /\ pos \in [Managers -> 0 .. Blocks]
  /\ put \in [Managers -> 0 .. Blocks]
  /\ stored \in [Managers -> SUBSET (1 .. Blocks)]

PlaceTypes ==
  /\ pc \in [Managers -> Places]
  /\ req \in [Managers -> Requests]
  /\ filename \in [Managers -> Path]

DiskTypes ==
  /\ DOMAIN disk \subseteq Path
  /\ \A p \in DOMAIN disk : disk[p] \in File

LEMMA TypedParts == Typed <=> PlaceTypes /\ ReaderTypes /\ WriterTypes /\ DiskTypes
BY Zenon DEF Typed, TypeOK, PlaceTypes, ReaderTypes, WriterTypes, DiskTypes

LEMMA ReaderTypesStay == ASSUME ReaderTypes, UNCHANGED reader PROVE ReaderTypes'
<1>1. UNCHANGED <<known, dir, size, served>>
  BY DEF reader
<1> QED BY Zenon, <1>1 DEF ReaderTypes

LEMMA WriterTypesStay == ASSUME WriterTypes, UNCHANGED writer PROVE WriterTypes'
<1>1. UNCHANGED <<opened, pos, put, stored>>
  BY DEF writer
<1> QED BY Zenon, <1>1 DEF WriterTypes

(* The disk that the server finds holds files.                             *)
LEMMA TypedInit == Init => Typed
<1> SUFFICES ASSUME Init PROVE Typed
  OBVIOUS
<1>1. AnyRequest \in Requests
  BY StoreAssumption DEF AnyRequest
<1>2. <<Dirs[1], AnyRequest.name>> \in Path
  BY <1>1, PathType
<1>3. InitialData \in Seq(AnyBlock)
  <2>1. \A i \in 1 .. Blocks : Block(Nobody, i) \in AnyBlock
    BY StoreAssumption DEF Block, AnyBlock
  <2> QED BY <2>1, StoreAssumption DEF InitialData
<1>4. [data |-> InitialData, set |-> {}] \in File
  BY <1>3 DEF File
<1>5. Initial \subseteq Path /\ 0 \in 0 .. Blocks /\ 0 \in Nat
  BY StoreAssumption
<1>6. PlaceTypes
  BY <1>1, <1>2 DEF Init, PlaceTypes, Places
<1>7. ReaderTypes
  BY <1>5, PathType DEF Init, ReaderTypes
<1>8. WriterTypes
  BY <1>5 DEF Init, WriterTypes
<1>9. DiskTypes
  BY <1>4, <1>5 DEF Init, DiskTypes
<1> QED BY Zenon, <1>6, <1>7, <1>8, <1>9, TypedParts

(* Every step leaves files on the disk.                                    *)
LEMMA DiskTypesStep ==
  ASSUME IInv, NEW m \in Managers, Act(m)
  PROVE  DiskTypes'
<1>1. DiskTypes /\ Where(m) /\ PlaceTypes /\ WriterTypes
  BY Zenon, TypedParts DEF IInv
<1>2. filename[m] \in Path
  BY <1>1 DEF PlaceTypes
<1>3. CASE UNCHANGED disk
  BY Zenon, <1>1, <1>3 DEF DiskTypes
<1>4. CASE Search(m) \/ GoOn(m) \/ KeepSize(m) \/ Read(m) \/ Write(m)
  BY Zenon, <1>3, <1>4, GoOnIs
  DEF Search, Begin, SearchMd5, SearchName, KeepSize, Read, Write
<1>5. CASE Chown(m) \/ Chmod(m)
  <2>1. CASE Change(m, "owner") \/ Change(m, "mode")
    <3>1. \A p \in DOMAIN disk : disk[p] \in File
      BY <1>1 DEF DiskTypes
    <3>2. Quiet /\ \A p \in DOMAIN disk' : disk'[p] \in File
      BY Zenon, <2>1, <3>1, ChangeIs
    <3> QED BY Zenon, <1>1, <3>2 DEF DiskTypes, Quiet
  <2> QED BY Zenon, <1>3, <1>5, <2>1 DEF Chown, Chmod
<1>6. CASE OpenWrite(m)
  <2> PICK q : q = filename[m]
    OBVIOUS
  <2> DEFINE f == [data |-> <<>>, set |-> IF exists(q) THEN disk[q].set ELSE {}]
  <2>1. f \in File
    BY <1>1 DEF DiskTypes, File, exists
  <2>2. disk' = [p \in DOMAIN disk \cup {q} |-> IF p = q THEN f ELSE disk[p]]
    BY Zenon, <1>6 DEF OpenWrite
  <2> HIDE DEF f
  <2> QED BY <1>1, <1>2, <2>1, <2>2 DEF DiskTypes
<1>7. CASE Passes(m)
  <2>1. filename[m] \in DOMAIN disk
    BY Zenon, <1>1, <1>7 DEF Passes, Where
  <2>2. disk[filename[m]] \in File
    BY Zenon, <1>1, <2>1 DEF DiskTypes
  <2>3. PICK to \in put[m] .. pos[m] : PassOn(m, to)
    BY Zenon, <1>7 DEF Passes
  <2>4. put[m] + 1 \in Nat /\ to \in Nat
    BY <1>1, StoreAssumption DEF WriterTypes
  <2>5. disk[filename[m]].data \in Seq(AnyBlock)
    BY <2>2 DEF File
  <2> PICK d : d = Overwrite(disk[filename[m]].data, m, put[m] + 1, to)
    OBVIOUS
  <2>6. d \in Seq(AnyBlock)
    BY Zenon, <2>4, <2>5, OverwriteType
  <2>7. [disk[filename[m]] EXCEPT !.data = d] \in File
    BY <2>2, <2>6 DEF File
  <2>8. /\ DOMAIN disk' = DOMAIN disk
        /\ \A p \in DOMAIN disk : p # filename[m] => disk'[p] = disk[p]
        /\ disk'[filename[m]] = [disk[filename[m]] EXCEPT !.data = d]
    BY Zenon, <2>1, <2>2, <2>3, PassOnIs
  <2> QED BY Zenon, <1>1, <2>7, <2>8 DEF DiskTypes
<1> QED BY Zenon, <1>3, <1>4, <1>5, <1>6, <1>7, PutsIs DEF Act

(* Every step leaves a manager at a place, with a request and a path.      *)
LEMMA PlaceTypesStep ==
  ASSUME IInv, NEW m \in Managers, Act(m)
  PROVE  PlaceTypes'
<1>1. PlaceTypes /\ ReaderTypes
  BY Zenon, TypedParts DEF IInv
<1>2. ASSUME NEW v \in Places, Go(m, v) PROVE pc' \in [Managers -> Places]
  BY <1>1, <1>2 DEF Go, PlaceTypes
<1>3. CASE Begin(m)
  <2>1. PICK r \in Requests :
          /\ req' = [req EXCEPT ![m] = r]
          /\ filename' = [filename EXCEPT ![m] = <<Dirs[1], r.name>>]
          /\ pc' = [pc EXCEPT ![m] =
                      IF r.type = "write" THEN "check"
                      ELSE IF r.name \in Sums THEN "search_md5" ELSE "search_name"]
    BY Zenon, <1>3 DEF Begin
  <2>2. <<Dirs[1], r.name>> \in Path
    BY PathType
  <2> QED BY Zenon, <1>1, <2>1, <2>2 DEF PlaceTypes, Places
<1>4. CASE SearchMd5(m) \/ SearchName(m)
  <2>1. UNCHANGED filename \/ \E q \in Path : filename' = [filename EXCEPT ![m] = q]
    <3>1. <<Dirs[dir[m]], req[m].name>> \in Path
      BY <1>1, PathType DEF PlaceTypes, ReaderTypes
    <3> QED BY Zenon, <1>4, <3>1, PathType DEF SearchMd5, SearchName
  <2>2. UNCHANGED pc \/ \E v \in Places : Go(m, v)
    BY Zenon, <1>4 DEF SearchMd5, SearchName, Places
  <2>3. UNCHANGED req
    BY Zenon, <1>4 DEF SearchMd5, SearchName
  <2> QED BY Zenon, <1>1, <1>2, <2>1, <2>2, <2>3 DEF PlaceTypes
<1>5. CASE \/ GoOn(m) \/ KeepSize(m) \/ OpenWrite(m) \/ CloseStreams(m)
           \/ Chown(m) \/ Chmod(m)
  <2>1. UNCHANGED <<req, filename>>
    BY Zenon, <1>5, GoOnIs DEF KeepSize, OpenWrite, CloseStreams, Chown, Chmod
  <2>2. \E v \in Places : Go(m, v)
    BY Zenon, <1>5, GoOnIs DEF KeepSize, OpenWrite, CloseStreams, Chown, Chmod, Places
  <2> QED BY Zenon, <1>1, <1>2, <2>1, <2>2 DEF PlaceTypes
<1>6. CASE Read(m) \/ Write(m) \/ WriteElsewhere(m) \/ Flush(m)
  <2>1. UNCHANGED <<pc, req, filename>>
    BY Zenon, <1>6 DEF Read, Write, WriteElsewhere, Flush
  <2> QED BY Zenon, <1>1, <2>1 DEF PlaceTypes
<1> QED BY Zenon, <1>3, <1>4, <1>5, <1>6 DEF Act, Search, Puts

(* ... what it reads of files ...                                          *)
LEMMA ReaderTypesStep ==
  ASSUME IInv, NEW m \in Managers, Act(m)
  PROVE  ReaderTypes'
<1>1. PlaceTypes /\ ReaderTypes /\ DiskTypes /\ Where(m)
  BY Zenon, TypedParts DEF IInv
<1>2. CASE Begin(m)
  <2>1. /\ dir' = [dir EXCEPT ![m] = 1] /\ known' = [known EXCEPT ![m] = DOMAIN disk]
        /\ UNCHANGED <<size, served>>
    BY Zenon, <1>2 DEF Begin, FirstDir
  <2> QED BY Zenon, <1>1, <2>1, PathType DEF ReaderTypes, DiskTypes
<1>3. CASE SearchMd5(m) \/ SearchName(m)
  <2>1. \/ UNCHANGED dir
        \/ dir' = [dir EXCEPT ![m] = 1]
        \/ dir[m] < Len(Dirs) /\ dir' = [dir EXCEPT ![m] = dir[m] + 1]
    BY Zenon, <1>3 DEF SearchMd5, SearchName, FirstDir
  <2>2. dir[m] \in 1 .. Len(Dirs) /\ Len(Dirs) \in Nat
    BY <1>1, StoreAssumption DEF ReaderTypes
  <2>3. dir[m] < Len(Dirs) => dir[m] + 1 \in 1 .. Len(Dirs)
    BY <2>2
  <2>4. UNCHANGED <<known, size, served>>
    BY Zenon, <1>3 DEF SearchMd5, SearchName
  <2> QED BY Zenon, <1>1, <2>1, <2>3, <2>4, PathType DEF ReaderTypes
<1>4. CASE KeepSize(m)
  <2>1. filename[m] \in DOMAIN disk
    BY Zenon, <1>1, <1>4 DEF KeepSize, Where, Finds
  <2>2. file_size(filename[m]) \in Nat
    BY <1>1, <2>1 DEF file_size, DiskTypes, File
  <2> QED BY Zenon, <1>1, <1>4, <2>2 DEF KeepSize, ReaderTypes
<1>5. CASE Read(m)
  <2>1. filename[m] \in DOMAIN disk
    BY Zenon, <1>1, <1>5 DEF Read, Where, Finds
  <2> PICK data : data = disk[filename[m]].data
    OBVIOUS
  <2>2. data \in Seq(AnyBlock)
    BY <1>1, <2>1 DEF DiskTypes, File
  <2>3. PICK n \in 1 .. Blocks :
          served' = [served EXCEPT ![m] = WithBlock(served[m], n, data)]
    BY Zenon, <1>5 DEF Read
  <2>4. Hole \in AnyBlock
    BY DEF Hole, Block, AnyBlock
  <2>5. n <= Len(data) => data[n] \in AnyBlock
    BY <2>2, StoreAssumption
  <2> PICK out, new : out = served[m] /\ new = WithBlock(served[m], n, data)
    OBVIOUS
  <2>6. DOMAIN out \subseteq 1 .. Blocks /\ \A i \in DOMAIN out : out[i] \in AnyBlock
    BY Zenon, <1>1 DEF ReaderTypes
  <2>7. DOMAIN new \subseteq 1 .. Blocks /\ \A i \in DOMAIN new : new[i] \in AnyBlock
    BY Zenon, <2>4, <2>5, <2>6 DEF WithBlock
  <2>8. UNCHANGED <<known, dir, size>>
    BY Zenon, <1>5 DEF Read
  <2> QED BY Zenon, <1>1, <2>3, <2>7, <2>8 DEF ReaderTypes
<1>6. CASE UNCHANGED reader
  BY Zenon, <1>1, <1>6, ReaderTypesStay
<1>7. CASE \/ GoOn(m) \/ OpenWrite(m) \/ Write(m) \/ Puts(m) \/ Chown(m) \/ Chmod(m)
  BY Zenon, <1>6, <1>7, GoOnIs
  DEF OpenWrite, Write, Puts, WriteElsewhere, Flush, CloseStreams, Chown, Chmod, reader
<1> QED BY Zenon, <1>2, <1>3, <1>4, <1>5, <1>7 DEF Act, Search

(* ... and its stream.                                                     *)
LEMMA WriterTypesStep ==
  ASSUME IInv, NEW m \in Managers, Act(m)
  PROVE  WriterTypes'
<1>1. WriterTypes /\ Where(m) /\ Blocks \in Nat
  BY Zenon, TypedParts, StoreAssumption DEF IInv
<1>2. put[m] \in 0 .. Blocks /\ pos[m] \in 0 .. Blocks /\ put[m] <= pos[m]
  BY Zenon, <1>1 DEF WriterTypes, Where
<1>3. CASE UNCHANGED writer
  BY Zenon, <1>1, <1>3, WriterTypesStay
<1>4. CASE \/ Search(m) \/ GoOn(m) \/ KeepSize(m) \/ Read(m) \/ Chown(m) \/ Chmod(m)
  BY Zenon, <1>3, <1>4, GoOnIs
  DEF Search, Begin, SearchMd5, SearchName, KeepSize, Read, Chown, Chmod, writer
<1>5. CASE OpenWrite(m)
  BY Zenon, <1>1, <1>5 DEF OpenWrite, WriterTypes
<1>6. CASE Write(m)
  <2>1. pos[m] + 1 \in 0 .. Blocks
    BY <1>1, <1>2, <1>6 DEF Write
  <2> QED BY Zenon, <1>1, <1>6, <2>1 DEF Write, WriterTypes
<1>7. CASE Puts(m)
  <2>1. ASSUME NEW to \in 0 .. Blocks, PassOn(m, to)
        PROVE  stored' \in [Managers -> SUBSET (1 .. Blocks)]
    <3>1. put[m] + 1 .. to \subseteq 1 .. Blocks
      BY <1>1, <1>2
    <3> QED BY Zenon, <1>1, <2>1, <3>1 DEF PassOn, WriterTypes
  <2>2. CASE WriteElsewhere(m)
    <3>1. PICK n \in 1 .. Blocks :
            put' = [put EXCEPT ![m] = n - 1] /\ pos' = [pos EXCEPT ![m] = n]
      BY Zenon, <2>2 DEF WriteElsewhere
    <3>2. n - 1 \in 0 .. Blocks /\ n \in 0 .. Blocks
      BY <1>1
    <3> QED BY Zenon, <1>1, <1>2, <2>1, <2>2, <3>1, <3>2 DEF WriteElsewhere, WriterTypes
  <2>3. CASE Flush(m)
    <3>1. put[m] + 1 \in 0 .. Blocks
      BY <1>1, <1>2, <2>3 DEF Flush
    <3> QED BY Zenon, <1>1, <2>1, <2>3, <3>1 DEF Flush, WriterTypes
  <2>4. CASE CloseStreams(m)
    BY Zenon, <1>1, <1>2, <2>1, <2>4 DEF CloseStreams, WriterTypes
  <2> QED BY Zenon, <1>7, <2>2, <2>3, <2>4 DEF Puts
<1> QED BY Zenon, <1>4, <1>5, <1>6, <1>7 DEF Act

(* The end of the process leaves everything but the places.                *)
LEMMA CrashIs ==
  ASSUME Crash, NEW m \in Managers
  PROVE  /\ UNCHANGED <<req, filename, reader, writer, disk>>
         /\ pc'[m] = pc[m] \/ pc'[m] = "gone"
         /\ pc'[m] = "closed" <=> pc[m] = "closed"
BY Zenon DEF Crash

(* The invariant holds when the server starts ...                          *)
LEMMA IInvInit == Init => IInv
<1>1. ASSUME Init, NEW m \in Managers PROVE Where(m)
  <2>1. /\ pc[m] = "idle" /\ ~opened[m] /\ pos[m] = 0 /\ put[m] = 0 /\ stored[m] = {}
    BY Zenon, <1>1 DEF Init
  <2> QED BY <2>1 DEF Where, Wrote, Finds
<1>2. Init => Initial \subseteq DOMAIN disk
  BY DEF Init
<1> QED BY Zenon, <1>1, <1>2, TypedInit DEF IInv

(* ... and every step keeps it.                                            *)
LEMMA IInvStep == IInv /\ [Next]_vars => IInv'
<1> SUFFICES ASSUME IInv, [Next]_vars PROVE IInv'
  OBVIOUS
<1>1. ASSUME NEW m \in Managers, Act(m) PROVE IInv'
  <2>1. Typed'
    <3>1. PlaceTypes' /\ ReaderTypes' /\ WriterTypes' /\ DiskTypes'
      BY Zenon, <1>1, PlaceTypesStep, ReaderTypesStep, WriterTypesStep, DiskTypesStep
    <3> QED BY Zenon, <3>1
            DEF Typed, TypeOK, PlaceTypes, ReaderTypes, WriterTypes, DiskTypes
  <2>2. Fields
    BY Zenon, FieldsOfTypes DEF IInv
  <2>3. DOMAIN disk \subseteq DOMAIN disk'
    BY Zenon, <1>1, FilesStay
  <2>4. ASSUME NEW n \in Managers PROVE Where(n)'
    <3>1. CASE n = m
      BY Zenon, <1>1, <3>1, WhereStep
    <3>2. CASE n # m
      BY Zenon, <1>1, <2>2, <2>3, <3>2, OthersStay, WhereSame DEF IInv
    <3> QED BY <3>1, <3>2
  <2>5. (Initial \subseteq DOMAIN disk)'
    BY Zenon, <2>3 DEF IInv
  <2> QED BY Zenon, <2>1, <2>4, <2>5 DEF IInv
<1>2. CASE Crash
  <2>1. UNCHANGED <<req, filename, reader, writer, disk>>
    BY Zenon, <1>2 DEF Crash
  <2>2. Typed'
    <3>1. PlaceTypes'
      BY Zenon, <1>2, TypedParts DEF Crash, PlaceTypes, Places, IInv
    <3>2. ReaderTypes' /\ WriterTypes' /\ DiskTypes'
      BY Zenon, <2>1, ReaderTypesStay, WriterTypesStay, TypedParts DEF IInv, DiskTypes
    <3> QED BY Zenon, <3>1, <3>2
            DEF Typed, TypeOK, PlaceTypes, ReaderTypes, WriterTypes, DiskTypes
  <2>3. ASSUME NEW m \in Managers PROVE Where(m)'
    <3>1. Where(m) /\ (pc'[m] = pc[m] \/ pc'[m] = "gone")
      BY Zenon, <1>2, CrashIs DEF IInv
    <3>2. filename' = filename /\ UNCHANGED <<writer, disk>>
      BY Zenon, <2>1
    <3>3. opened[m] => pc'[m] \in Wrote
      BY Zenon, <3>1 DEF Where, Wrote
    <3>4. /\ pc'[m] = "writing" => pc[m] = "writing"
          /\ pc'[m] = "checked" => filename[m] \notin Initial
          /\ pc'[m] \in Finds => filename[m] \in DOMAIN disk
          /\ pc'[m] \in {"chown", "chmod", "closed"} => put[m] = pos[m]
      BY <3>1 DEF Where, Finds
    <3> QED BY Zenon, <3>1, <3>2, <3>3, <3>4, WhereQuiet
  <2> QED BY Zenon, <2>1, <2>2, <2>3 DEF IInv
<1>3. CASE UNCHANGED vars
  <2>1. UNCHANGED <<pc, req, filename, known, dir, size, served, opened, pos, put, stored, disk>>
    BY Zenon, <1>3 DEF vars, reader, writer
  <2>2. Typed'
    BY ZenonT(40), <2>1 DEF IInv, Typed, TypeOK
  <2>3. \A m \in Managers : Where(m)'
    BY Zenon, <2>1 DEF IInv, Where
  <2> QED BY Zenon, <2>1, <2>2, <2>3 DEF IInv
<1> QED BY Zenon, <1>1, <1>2, <1>3, NextIs

(* Every manager's request, path, stream and buffer, and every file on the *)
(* disk, keep their types (TypeOK).                                        *)
THEOREM FileStoreTypes == Spec => []TypeOK
<1>1. IInv => TypeOK
  BY DEF IInv, Typed
<1> QED BY <1>1, IInvInit, IInvStep, PTL DEF Spec

-----------------------------------------------------------------------------
(* What init() refuses and what it lets through.                           *)

(* The path of an open file is not changed, and no stream is opened but by *)
(* OpenWrite.                                                              *)
LEMMA OpenedStays ==
  ASSUME IInv, Next, NEW n \in Managers, opened[n]
  PROVE  opened'[n] /\ filename'[n] = filename[n]
<1>1. Fields /\ Where(n)
  BY Zenon, FieldsOfTypes DEF IInv
<1>2. CASE Crash
  BY Zenon, <1>2 DEF Crash, writer
<1>3. ASSUME NEW m \in Managers, Act(m) PROVE opened'[n] /\ filename'[n] = filename[n]
  <2>1. CASE n # m
    BY Zenon, <1>1, <1>3, <2>1, OthersStay DEF Same
  <2>2. CASE n = m
    <3>1. pc[m] \notin {"idle", "search_md5", "search_name"}
      BY <1>1, <2>2 DEF Where, Wrote
    <3>2. UNCHANGED filename
      BY Zenon, <1>3, <3>1, GoOnIs
      DEF Act, Search, Begin, SearchMd5, SearchName, KeepSize, OpenWrite, Read, Write,
          Puts, WriteElsewhere, Flush, CloseStreams, Chown, Chmod
    <3>3. opened' = opened \/ opened' = [opened EXCEPT ![m] = TRUE]
      BY Zenon, <1>3, <3>1, GoOnIs
      DEF Act, Search, Begin, SearchMd5, SearchName, KeepSize, OpenWrite, Read, Write,
          Puts, WriteElsewhere, Flush, CloseStreams, Chown, Chmod, writer
    <3> QED BY Zenon, <1>1, <2>2, <3>2, <3>3 DEF Fields
  <2> QED BY <2>1, <2>2
<1> QED BY Zenon, <1>2, <1>3, NextIs

(* What OpenWrite does.                                                    *)
LEMMA OpenWriteIs ==
  ASSUME Fields, NEW m \in Managers, OpenWrite(m)
  PROVE  /\ pc[m] = "checked" /\ opened'[m] /\ stored' = stored /\ filename' = filename
         /\ DOMAIN disk' = DOMAIN disk \cup {filename[m]}
         /\ disk'[filename[m]].data = <<>>
         /\ \A p \in DOMAIN disk : p # filename[m] => disk'[p] = disk[p]
<1> PICK q : q = filename[m]
  OBVIOUS
<1>1. disk' = [p \in DOMAIN disk \cup {q} |->
                 IF p = q
                 THEN [data |-> <<>>, set |-> IF exists(p) THEN disk[p].set ELSE {}]
                 ELSE disk[p]]
  BY Zenon DEF OpenWrite
<1>2. disk'[q].data = <<>> /\ \A p \in DOMAIN disk : p # q => disk'[p] = disk[p]
  BY <1>1
<1> QED BY Zenon, <1>1, <1>2 DEF OpenWrite, Fields

(* What Passes does.                                                       *)
LEMMA PassesIs ==
  ASSUME IInv, NEW m \in Managers, Passes(m)
  PROVE  /\ opened[m] /\ filename[m] \in DOMAIN disk \ Initial
         /\ DOMAIN disk' = DOMAIN disk
         /\ \A p \in DOMAIN disk : p # filename[m] => disk'[p] = disk[p]
         /\ \E to \in 0 .. Blocks :
              /\ disk'[filename[m]].data
                   = Overwrite(disk[filename[m]].data, m, put[m] + 1, to)
              /\ stored' = [stored EXCEPT ![m] = stored[m] \cup (put[m] + 1 .. to)]
<1>1. opened[m] /\ filename[m] \in DOMAIN disk \ Initial
  BY Zenon DEF Passes, IInv, Where
<1>2. disk[filename[m]] \in File
  BY Zenon, <1>1 DEF IInv, Typed, TypeOK
<1>3. put[m] \in 0 .. Blocks /\ pos[m] \in 0 .. Blocks /\ Blocks \in Nat
  BY Zenon, StoreAssumption DEF IInv, Typed, TypeOK
<1>4. \A to \in put[m] .. pos[m] : to \in 0 .. Blocks
  BY <1>3
<1>5. PICK to \in 0 .. Blocks : PassOn(m, to)
  BY Zenon, <1>4 DEF Passes
<1>6. stored' = [stored EXCEPT ![m] = stored[m] \cup (put[m] + 1 .. to)]
  BY Zenon, <1>5 DEF PassOn
<1> QED BY Zenon, <1>1, <1>2, <1>5, <1>6, PassOnIs

(* The content of p after a step, when nobody writes to it.                *)
LEMMA ContentKept ==
  ASSUME IInv, NEW m \in Managers, Act(m), NEW p \in DOMAIN disk,
         ~(filename[m] = p /\ (OpenWrite(m) \/ Passes(m)))
  PROVE  disk'[p].data = disk[p].data
<1>1. Fields
  BY Zenon, FieldsOfTypes DEF IInv
<1> QED BY Zenon, <1>1, DiskStep, OpenWriteIs, PassesIs DEF Quiet

(* A file that was there before the server started keeps its content,      *)
(* whatever uploads, refused uploads and crashes there are (InitialKept).  *)
THEOREM InitialFilesKept == Spec => []InitialKept
<1>1. Init => InitialKept
  BY DEF Init, InitialKept, exists
<1>2. IInv /\ InitialKept /\ [Next]_vars => InitialKept'
  <2> SUFFICES ASSUME IInv, InitialKept, [Next]_vars, NEW p \in Initial
               PROVE  p \in DOMAIN disk' /\ disk'[p].data = InitialData
    BY DEF InitialKept, exists
  <2>1. p \in DOMAIN disk /\ disk[p].data = InitialData
    BY DEF InitialKept, exists
  <2>2. ASSUME NEW m \in Managers, Act(m)
        PROVE  p \in DOMAIN disk' /\ disk'[p].data = InitialData
    <3>1. Fields /\ Where(m)
      BY Zenon, FieldsOfTypes DEF IInv
    <3>2. OpenWrite(m) \/ Passes(m) => filename[m] \notin Initial
      BY Zenon, <3>1, OpenWriteIs, PassesIs DEF Where
    <3> QED BY Zenon, <2>1, <2>2, <3>2, ContentKept, FilesStay
  <2>3. CASE Crash \/ UNCHANGED vars
    BY <2>1, <2>3 DEF Crash, vars
  <2> QED BY Zenon, <2>2, <2>3, NextIs
<1> QED BY <1>1, <1>2, IInvInit, IInvStep, PTL DEF Spec

(* No step of a manager makes it write to a file that is there, unless it  *)
(* had found none before.                                                  *)
LEMMA NoNewWriter ==
  ASSUME IInv, NEW m \in Managers, Act(m), NEW p \in DOMAIN disk,
         filename[m] = p => /\ pc[m] # "checked"
                            /\ opened[m] => pc[m] \notin {"writing", "ending"}
  PROVE  filename'[m] = p => /\ pc'[m] # "checked"
                             /\ opened'[m] => pc'[m] \notin {"writing", "ending"}
<1>0. Fields /\ Where(m)
  BY Zenon, FieldsOfTypes DEF IInv
<1>1. CASE Search(m)
  <2>1. pc'[m] \in {"check", "search_md5", "search_name", "found", "ending"}
    BY Zenon, <1>0, <1>1, SearchIs DEF Search, Begin, Fields
  <2>2. opened' = opened /\ pc[m] \in {"idle", "search_md5", "search_name"}
    BY Zenon, <1>0, <1>1, SearchIs DEF Search, Begin, writer
  <2>3. ~opened[m]
    BY <1>0, <2>2 DEF Where, Wrote
  <2> QED BY <2>1, <2>2, <2>3
<1>2. CASE GoOn(m)
  <2>1. UNCHANGED <<filename, opened>>
    BY Zenon, <1>2, GoOnIs
  <2>2. \A v : Go(m, v) => pc'[m] = v
    BY <1>0 DEF Fields, Go
  <2>3. \/ pc[m] = "found" /\ pc'[m] = "probed"
        \/ pc[m] = "probed" /\ pc'[m] \in {"reopened", "unopened"}
        \/ pc[m] = "check" /\ pc'[m] = "ending"
        \/ pc[m] = "check" /\ filename[m] \notin DOMAIN disk /\ pc'[m] = "checked"
        \/ pc[m] \in {"checked", "no_stream", "writing"} /\ pc'[m] = "ending"
    BY Zenon, <1>2, <2>2, GoOnIs DEF exists
  <2>4. opened[m] => pc[m] = "writing"
    BY <1>0, <2>3 DEF Where, Wrote
  <2> QED BY <2>1, <2>3, <2>4
<1>3. CASE OpenWrite(m)
  BY Zenon, <1>0, <1>3, OpenWriteIs
<1>4. CASE Read(m) \/ Write(m) \/ WriteElsewhere(m) \/ Flush(m)
  <2>1. UNCHANGED <<pc, filename, opened>>
    BY Zenon, <1>4 DEF Read, Write, WriteElsewhere, Flush, writer
  <2> QED BY <2>1
<1>5. CASE KeepSize(m) \/ CloseStreams(m) \/ Chown(m) \/ Chmod(m)
  <2>1. pc'[m] \in {"reading", "no_stream", "chown", "chmod", "closed"}
    BY Zenon, <1>0, <1>5 DEF KeepSize, CloseStreams, Chown, Chmod, Go, Fields
  <2> QED BY <2>1
<1> QED BY Zenon, <1>1, <1>2, <1>3, <1>4, <1>5 DEF Act, Puts

(* A file that no upload is writing keeps its content for good, whether    *)
(* its upload was closed, failed or was cut off by the end of the process  *)
(* (FinalForGood).                                                         *)
THEOREM FinalFiles == Spec => FinalForGood
<1>1. IInv /\ [Next]_vars =>
        [\A p \in DOMAIN disk :
           Settled(p) =>
             Settled(p)' /\ p \in DOMAIN disk' /\ disk'[p].data = disk[p].data]_vars
  <2> SUFFICES ASSUME IInv, Next, NEW p \in DOMAIN disk, Settled(p)
               PROVE  Settled(p)' /\ p \in DOMAIN disk' /\ disk'[p].data = disk[p].data
    OBVIOUS
  <2>1. Fields
    BY Zenon, FieldsOfTypes DEF IInv
  <2>2. ASSUME NEW m \in Managers, Act(m)
        PROVE  Settled(p)' /\ p \in DOMAIN disk' /\ disk'[p].data = disk[p].data
    <3>1. filename[m] = p => /\ pc[m] # "checked"
                             /\ opened[m] => pc[m] \notin {"writing", "ending"}
      BY Zenon DEF Settled
    <3>2. ~(filename[m] = p /\ (OpenWrite(m) \/ Passes(m)))
      BY Zenon, <2>1, <3>1, OpenWriteIs DEF Passes
    <3>3. disk'[p].data = disk[p].data /\ p \in DOMAIN disk'
      BY Zenon, <2>2, <3>2, ContentKept, FilesStay
    <3>4. ASSUME NEW n \in Managers, filename'[n] = p
          PROVE  /\ pc'[n] # "checked"
                 /\ opened'[n] => pc'[n] \notin {"writing", "ending"}
      <4>1. CASE n = m
        BY Zenon, <2>2, <3>1, <3>4, <4>1, NoNewWriter
      <4>2. CASE n # m
        <5>1. Same(n)
          BY Zenon, <2>1, <2>2, <4>2, OthersStay
        <5> QED BY Zenon, <3>4, <5>1 DEF Same, Settled
      <4> QED BY <4>1, <4>2
    <3> QED BY Zenon, <3>3, <3>4 DEF Settled
  <2>3. CASE Crash
    <3>1. UNCHANGED <<filename, opened, disk>>
      BY Zenon, <2>3 DEF Crash, writer
    <3>2. ASSUME NEW n \in Managers, filename[n] = p
          PROVE  /\ pc'[n] # "checked"
                 /\ opened[n] => pc'[n] \notin {"writing", "ending"}
      <4>1. pc'[n] = pc[n] \/ pc'[n] = "gone"
        BY Zenon, <2>3, CrashIs
      <4> QED BY <3>2, <4>1 DEF Settled
    <3> QED BY Zenon, <3>1, <3>2 DEF Settled
  <2> QED BY Zenon, <2>2, <2>3, NextIs
<1> QED BY <1>1, IInvInit, IInvStep, PTL DEF Spec, FinalForGood

-----------------------------------------------------------------------------
(* What uploads leave in their files.                                      *)

(* The blocks of data after some of m were written over it.                *)
LEMMA OverwriteIs ==
  ASSUME NEW data \in Seq(AnyBlock), NEW m, NEW from \in Nat, NEW to \in Nat,
         NEW new, new = Overwrite(data, m, from, to)
  PROVE  /\ Len(new) = IF to >= from /\ to > Len(data) THEN to ELSE Len(data)
         /\ \A j \in 1 .. Len(new) :
              new[j] = IF from <= j /\ j <= to THEN Block(m, j)
                       ELSE IF j <= Len(data) THEN data[j] ELSE Hole
<1> DEFINE n == IF to >= from /\ to > Len(data) THEN to ELSE Len(data)
           e(j) == IF from <= j /\ j <= to THEN Block(m, j)
                   ELSE IF j <= Len(data) THEN data[j] ELSE Hole
<1>1. n \in Nat
  OBVIOUS
<1>2. new = [j \in 1 .. n |-> e(j)]
  BY DEF Overwrite
<1> HIDE DEF n, e
<1>3. Len(new) = n /\ \A j \in 1 .. n : new[j] = e(j)
  BY <1>1, <1>2
<1> QED BY <1>3 DEF n, e

(* A file that holds some blocks of m holds more of them after PassOn.     *)
LEMMA HoldsMore ==
  ASSUME NEW data \in Seq(AnyBlock), NEW m, NEW from \in Nat \ {0}, NEW to \in Nat,
         NEW S \in SUBSET (1 .. Blocks), Holds(data, m, S)
  PROVE  Holds(Overwrite(data, m, from, to), m, S \cup (from .. to))
<1> PICK new, T : new = Overwrite(data, m, from, to) /\ T = S \cup (from .. to)
  OBVIOUS
<1> PICK l : l = Len(data)
  OBVIOUS
<1>1. l \in Nat /\ l \in S \cup {0}
  BY DEF Holds
<1>2. /\ Len(new) = IF to >= from /\ to > l THEN to ELSE l
      /\ \A j \in 1 .. Len(new) :
           new[j] = IF from <= j /\ j <= to THEN Block(m, j)
                    ELSE IF j <= l THEN data[j] ELSE Hole
  BY OverwriteIs
<1>3. Len(new) \in T \cup {0} /\ Len(new) \in Nat /\ l <= Len(new)
  BY <1>1, <1>2
<1>4. ASSUME NEW i \in T PROVE i <= Len(new) /\ new[i] = Block(m, i)
  <2>1. i \in S => i <= l /\ data[i] = Block(m, i) /\ i \in Nat
    BY DEF Holds
  <2>2. i \in from .. to => i <= Len(new) /\ i \in 1 .. Len(new)
    BY <1>1, <1>2
  <2>3. CASE i \in from .. to
    BY <1>2, <2>2, <2>3
  <2>4. CASE i \in S /\ i \notin from .. to
    <3>1. i \in 1 .. Len(new) /\ ~(from <= i /\ i <= to) /\ i <= l
      BY <1>1, <1>3, <2>1, <2>4, StoreAssumption
    <3> QED BY <1>2, <2>1, <2>4, <3>1
  <2> QED BY <2>3, <2>4
<1>5. ASSUME NEW i \in 1 .. Len(new) PROVE i \in T \/ new[i] = Hole
  <2>1. i \in Nat /\ (from <= i /\ i <= to => i \in from .. to)
    BY <1>3
  <2>2. i <= l => i \in 1 .. l
    BY <1>1, <1>3
  <2>3. i \in 1 .. l => i \in S \/ data[i] = Hole
    BY DEF Holds
  <2> QED BY <1>2, <2>1, <2>2, <2>3
<1> QED BY Zenon, <1>3, <1>4, <1>5 DEF Holds

(* Nobody else's upload goes to the file, so it holds what m passed on.    *)
Owns(m) ==
  opened[m] /\ ~Raced(filename[m]) => Holds(disk[filename[m]].data, m, stored[m])

(* Two streams that were opened stay so: a race is one for good.           *)
LEMMA RacedStays ==
  ASSUME IInv, Next, NEW p, Raced(p)
  PROVE  Raced(p)'
BY Zenon, OpenedStays DEF Raced

(* A file to which two managers have opened a stream is raced for.         *)
LEMMA OwnsStep ==
  ASSUME IInv, \A m \in Managers : Owns(m), Next, NEW n \in Managers
  PROVE  Owns(n)'
<1> SUFFICES ASSUME opened'[n], NEW p, p = filename'[n], ~Raced(p)'
             PROVE  Holds(disk'[p].data, n, stored'[n])
  BY Zenon DEF Owns, Raced
<1>0. Fields /\ Where(n) /\ WriterTypes /\ DiskTypes
  BY Zenon, FieldsOfTypes, TypedParts DEF IInv
<1>1. ~Raced(p)
  BY Zenon, RacedStays
<1>2. CASE Crash
  <2>1. UNCHANGED <<filename, opened, stored, disk>>
    BY Zenon, <1>2 DEF Crash, writer
  <2> QED BY Zenon, <1>1, <2>1 DEF Owns
<1>3. ASSUME NEW m \in Managers, Act(m), m # n
      PROVE  Holds(disk'[p].data, n, stored'[n])
  <2>1. Same(n)
    BY Zenon, <1>0, <1>3, OthersStay
  <2>2. opened[n] /\ filename'[n] = filename[n] /\ stored'[n] = stored[n]
    BY Zenon, <2>1 DEF Same
  <2>3. Holds(disk[filename[n]].data, n, stored[n]) /\ filename[n] \in DOMAIN disk
    BY Zenon, <1>0, <1>1, <2>2 DEF Owns, Where
  <2>4. ~(filename[m] = filename[n] /\ (OpenWrite(m) \/ Passes(m)))
    <3> SUFFICES ASSUME filename[m] = filename[n], OpenWrite(m) \/ Passes(m)
                 PROVE  FALSE
      OBVIOUS
    <3>1. opened'[m] /\ filename'[m] = filename[m]
      BY Zenon, <1>0, OpenWriteIs, OpenedStays DEF Passes
    <3> QED BY Zenon, <1>3, <2>2, <3>1 DEF Raced
  <2> QED BY Zenon, <1>3, <2>2, <2>3, <2>4, ContentKept
<1>4. CASE Act(n)
  <2>1. CASE OpenWrite(n)
    <3>1. ~opened[n]
      BY <1>0, <2>1, OpenWriteIs DEF Where, Wrote
    <3>2. stored[n] = {}
      BY <1>0, <3>1 DEF Where
    <3>3. Holds(<<>>, n, {})
      BY DEF Holds
    <3>4. disk'[p].data = <<>> /\ stored' = stored
      BY Zenon, <1>0, <2>1, OpenWriteIs
    <3> QED BY Zenon, <3>2, <3>3, <3>4
  <2>2. CASE Passes(n)
    <3>1. filename'[n] = filename[n] /\ opened[n] /\ filename[n] \in DOMAIN disk
      BY Zenon, <2>2, PassesIs, OpenedStays
    <3>2. PICK to \in 0 .. Blocks :
            /\ disk'[filename[n]].data
                 = Overwrite(disk[filename[n]].data, n, put[n] + 1, to)
            /\ stored' = [stored EXCEPT ![n] = stored[n] \cup (put[n] + 1 .. to)]
      BY Zenon, <2>2, PassesIs
    <3>3. stored'[n] = stored[n] \cup (put[n] + 1 .. to)
      BY Zenon, <1>0, <3>2 DEF Fields
    <3>4. Holds(disk[filename[n]].data, n, stored[n])
      BY Zenon, <1>1, <3>1 DEF Owns
    <3>5. put[n] + 1 \in Nat \ {0} /\ to \in Nat
      BY <1>0, StoreAssumption DEF WriterTypes
    <3>6. disk[filename[n]].data \in Seq(AnyBlock) /\ stored[n] \in SUBSET (1 .. Blocks)
      BY <1>0, <3>1 DEF DiskTypes, File, WriterTypes
    <3>7. Holds(Overwrite(disk[filename[n]].data, n, put[n] + 1, to), n,
                stored[n] \cup (put[n] + 1 .. to))
      BY Zenon, <3>4, <3>5, <3>6, HoldsMore
    <3> QED BY Zenon, <3>1, <3>2, <3>3, <3>7
  <2>3. CASE ~OpenWrite(n) /\ ~Passes(n)
    <3>1. Quiet /\ stored' = stored
      BY Zenon, <1>4, <2>3, DiskStep
    <3>2. opened' = opened
      BY Zenon, <1>4, <2>3, GoOnIs
      DEF Act, Search, Begin, SearchMd5, SearchName, KeepSize, Read, Write,
          Puts, WriteElsewhere, Flush, CloseStreams, Chown, Chmod, writer
    <3>3. filename'[n] = filename[n] /\ filename[n] \in DOMAIN disk
      BY Zenon, <1>0, <3>2, OpenedStays DEF Where
    <3> QED BY Zenon, <1>1, <3>1, <3>2, <3>3 DEF Quiet, Owns
  <2> QED BY <2>1, <2>2, <2>3
<1> QED BY Zenon, <1>2, <1>3, <1>4, NextIs

(* A step that changes nothing leaves it so.                               *)
LEMMA OwnsSame ==
  ASSUME \A m \in Managers : Owns(m), UNCHANGED vars
  PROVE  (\A m \in Managers : Owns(m))'
<1>1. UNCHANGED <<filename, opened, stored, disk>>
  BY DEF vars, writer
<1> QED BY Zenon, <1>1 DEF Owns, Raced

(* Whoever's file nobody else uploads to, it holds what was passed on.     *)
LEMMA OwnsAlways == Spec => [](IInv /\ \A m \in Managers : Owns(m))
<1>1. Init => \A m \in Managers : Owns(m)
  BY DEF Init, Owns
<1>2. IInv /\ (\A m \in Managers : Owns(m)) /\ [Next]_vars
      => (\A m \in Managers : Owns(m))'
  BY Zenon, OwnsStep, OwnsSame
<1> QED BY <1>1, <1>2, IInvInit, IInvStep, PTL DEF Spec

(* Once close() has closed file_out_ the file has every block that write() *)
(* took, each at its place, in whatever order they came, and nothing else, *)
(* unless two uploads raced for it (ClosedIsWhole).                        *)
THEOREM ClosedFilesWhole == Spec => []ClosedIsWhole
<1>1. IInv /\ (\A m \in Managers : Owns(m)) => ClosedIsWhole
  <2> SUFFICES ASSUME IInv, NEW m \in Managers, Owns(m), opened[m],
                      pc[m] \in {"chown", "chmod", "closed"}, ~Raced(filename[m])
               PROVE  Holds(disk[filename[m]].data, m, Written(m))
    BY Zenon DEF ClosedIsWhole
  <2>1. put[m] = pos[m] /\ pos[m] \in 0 .. Blocks
    BY Zenon DEF IInv, Where, Typed, TypeOK
  <2>2. put[m] + 1 .. pos[m] = {}
    BY <2>1, StoreAssumption
  <2>3. Written(m) = stored[m]
    BY Zenon, <2>2 DEF Written
  <2> QED BY Zenon, <2>3 DEF Owns
<1> QED BY <1>1, OwnsAlways, PTL

(* Block i of a file is one of an upload to that file, or zeros.           *)
InPlace(p, i, b) ==
  b = Hole \/ \E m \in Managers : opened[m] /\ filename[m] = p /\ b = Block(m, i)

(* ... and so it is after a step.                                          *)
LEMMA InPlaceStays ==
  ASSUME IInv, Next, NEW p, NEW i, NEW b, InPlace(p, i, b)
  PROVE  InPlace(p, i, b)'
BY Zenon, OpenedStays DEF InPlace

LEMMA InPlaceIs ==
  ASSUME UploadedInPlace, NEW p \in DOMAIN disk, p \notin Initial,
         NEW i \in 1 .. Len(disk[p].data)
  PROVE  InPlace(p, i, disk[p].data[i])
BY DEF UploadedInPlace, InPlace

(* Even a file that two uploads race for, or that a crash has cut off, has *)
(* no block at another place than its own, and none of an upload to        *)
(* another file (UploadedInPlace).                                         *)
THEOREM UploadsInPlace == Spec => []UploadedInPlace
<1>1. Init => UploadedInPlace
  BY DEF Init, UploadedInPlace
<1>2. IInv /\ UploadedInPlace /\ [Next]_vars => UploadedInPlace'
  <2>1. ASSUME IInv, UploadedInPlace, Next PROVE UploadedInPlace'
    <3>0. Fields /\ WriterTypes /\ DiskTypes
      BY Zenon, <2>1, FieldsOfTypes, TypedParts DEF IInv
    <3>1. ASSUME NEW p \in DOMAIN disk' \ Initial, NEW data, data = disk'[p].data,
                 NEW i \in 1 .. Len(data), NEW b, b = data[i]
          PROVE  InPlace(p, i, b)'
      <4>1. ASSUME p \in DOMAIN disk, disk'[p].data = disk[p].data
            PROVE  InPlace(p, i, b)'
        <5>1. data = disk[p].data
          BY Zenon, <3>1, <4>1
        <5>2. InPlace(p, i, b)
          BY <2>1, <3>1, <4>1, <5>1, InPlaceIs
        <5> QED BY Zenon, <2>1, <5>2, InPlaceStays
      <4>2. CASE Crash
        BY Zenon, <3>1, <4>1, <4>2 DEF Crash
      <4>3. ASSUME NEW m \in Managers, Act(m) PROVE InPlace(p, i, b)'
        <5>1. CASE OpenWrite(m) /\ p = filename[m]
          <6>1. data = <<>>
            BY Zenon, <3>0, <3>1, <5>1, OpenWriteIs
          <6> QED BY <6>1
        <5>2. CASE Passes(m) /\ p = filename[m]
          <6>1. opened[m] /\ p \in DOMAIN disk
            BY Zenon, <2>1, <5>2, PassesIs
          <6>2. PICK old : old = disk[p].data
            OBVIOUS
          <6> PICK from : from = put[m] + 1
            OBVIOUS
          <6>3. PICK to \in 0 .. Blocks : data = Overwrite(old, m, from, to)
            BY Zenon, <2>1, <3>1, <5>2, <6>2, PassesIs
          <6>4. old \in Seq(AnyBlock) /\ from \in Nat /\ to \in Nat
            BY <3>0, <6>1, <6>2, <6>3, StoreAssumption DEF DiskTypes, File, WriterTypes
          <6>5. \/ b = Block(m, i)
                \/ b = Hole
                \/ b = old[i] /\ i \in 1 .. Len(old)
            <7>1. /\ Len(data) = IF to >= from /\ to > Len(old) THEN to ELSE Len(old)
                  /\ \A j \in 1 .. Len(data) :
                       data[j] = IF from <= j /\ j <= to THEN Block(m, j)
                                 ELSE IF j <= Len(old) THEN old[j] ELSE Hole
              BY <6>3, <6>4, OverwriteIs
            <7>2. i \in Nat /\ 1 <= i
              BY <3>1, <6>4, <7>1
            <7>3. PICK l \in Nat : l = Len(old)
              BY <6>4
            <7> QED BY <3>1, <7>1, <7>2, <7>3
          <6>6. i \in 1 .. Len(old) => InPlace(p, i, old[i])
            BY <2>1, <3>1, <6>1, <6>2, InPlaceIs
          <6>7. InPlace(p, i, b)
            BY Zenon, <5>2, <6>1, <6>5, <6>6 DEF InPlace
          <6> QED BY Zenon, <2>1, <6>7, InPlaceStays
        <5>3. CASE ~(filename[m] = p /\ (OpenWrite(m) \/ Passes(m)))
          <6>1. p \in DOMAIN disk
            BY Zenon, <2>1, <3>0, <3>1, <4>3, <5>3, DiskStep, OpenWriteIs, PassesIs DEF Quiet
          <6> QED BY Zenon, <2>1, <4>1, <4>3, <5>3, <6>1, ContentKept
        <5> QED BY Zenon, <5>1, <5>2, <5>3
      <4> QED BY Zenon, <2>1, <4>2, <4>3, NextIs
    <3>2. ASSUME NEW p \in DOMAIN disk' \ Initial, NEW i \in 1 .. Len(disk'[p].data)
          PROVE  InPlace(p, i, disk[p].data[i])'
      <4> PICK data, b : data = disk'[p].data /\ b = data[i]
        OBVIOUS
      <4>1. InPlace(p, i, b)'
        BY Zenon, <3>1
      <4> QED BY Zenon, <4>1 DEF InPlace
    <3> QED BY Zenon, <3>2 DEF UploadedInPlace, InPlace
  <2>2. ASSUME UploadedInPlace, UNCHANGED vars PROVE UploadedInPlace'
    <3>1. UNCHANGED <<filename, opened, disk>>
      BY Zenon, <2>2 DEF vars, writer
    <3> QED BY <2>2, <3>1 DEF UploadedInPlace
  <2> QED BY <2>1, <2>2
<1> QED BY <1>1, <1>2, IInvInit, IInvStep, PTL DEF Spec

-----------------------------------------------------------------------------
(* Downloads of files that are still being written.                        *)

(* A file that was not there when the server started was opened.           *)
HasOpener ==
  \A p \in DOMAIN disk \ Initial : \E m \in Managers : opened[m] /\ filename[m] = p

LEMMA HasOpenerStep == IInv /\ HasOpener /\ [Next]_vars => HasOpener'
<1>1. ASSUME IInv, HasOpener, Next, NEW p \in DOMAIN disk' \ Initial
      PROVE  \E m \in Managers : opened'[m] /\ filename'[m] = p
  <2>1. CASE p \in DOMAIN disk
    <3>1. PICK m \in Managers : opened[m] /\ filename[m] = p
      BY <1>1, <2>1 DEF HasOpener
    <3> QED BY Zenon, <1>1, <3>1, OpenedStays
  <2>2. CASE p \notin DOMAIN disk
    <3>1. Fields
      BY Zenon, <1>1, FieldsOfTypes DEF IInv
    <3>2. ~Crash
      BY Zenon, <1>1, <2>2 DEF Crash
    <3>3. PICK m \in Managers : Act(m)
      BY Zenon, <1>1, <3>2, NextIs
    <3>4. OpenWrite(m) /\ p = filename[m]
      BY Zenon, <1>1, <2>2, <3>1, <3>3, DiskStep, OpenWriteIs, PassesIs DEF Quiet
    <3> QED BY Zenon, <3>1, <3>4, OpenWriteIs
  <2> QED BY <2>1, <2>2
<1>2. ASSUME HasOpener, UNCHANGED vars PROVE HasOpener'
  <2>1. UNCHANGED <<filename, opened, disk>>
    BY Zenon, <1>2 DEF vars, writer
  <2> QED BY <1>2, <2>1 DEF HasOpener
<1> QED BY <1>1, <1>2 DEF HasOpener

(* A manager has read nothing before init() is over, and then only what is *)
(* in the file, which has at least the size that file_size() gave.         *)
Serves(m) ==
  /\ pc[m] \in {"idle", "search_md5", "search_name", "found", "probed",
                "reopened", "unopened"} => DOMAIN served[m] = {}
  /\ pc[m] = "reading" /\ ~Raced(filename[m]) =>
       /\ size[m] <= Len(disk[filename[m]].data)
       /\ \A i \in DOMAIN served[m] :
            /\ i <= size[m]
            /\ \/ served[m][i] = disk[filename[m]].data[i]
               \/ served[m][i] = Hole /\ filename[m] \notin Initial

(* The new content has at least the length of the old one, and changes     *)
(* only zeros of it.                                                       *)
Grown(old, new) ==
  /\ Len(old) <= Len(new)
  /\ \A i \in 1 .. Len(old) : new[i] = old[i] \/ old[i] = Hole

(* What an upload writes over a file of its own changes only zeros of it.  *)
LEMMA OverwriteGrows ==
  ASSUME NEW old \in Seq(AnyBlock), NEW m, NEW S, Holds(old, m, S),
         NEW q \in 0 .. Blocks, NEW to \in 0 .. Blocks,
         NEW new, new = Overwrite(old, m, q + 1, to)
  PROVE  Grown(old, new)
<1>1. q + 1 \in Nat /\ to \in Nat
  BY StoreAssumption
<1>2. /\ Len(new) = IF to >= q + 1 /\ to > Len(old) THEN to ELSE Len(old)
      /\ \A j \in 1 .. Len(new) :
           new[j] = IF q + 1 <= j /\ j <= to THEN Block(m, j)
                    ELSE IF j <= Len(old) THEN old[j] ELSE Hole
  BY <1>1, OverwriteIs
<1> PICK l \in Nat : l = Len(old)
  OBVIOUS
<1>3. l <= Len(new) /\ \A i \in 1 .. l : i \in 1 .. Len(new)
  BY <1>1, <1>2
<1>4. ASSUME NEW i \in 1 .. l PROVE new[i] = old[i] \/ old[i] = Hole
  <2>1. old[i] = Block(m, i) \/ old[i] = Hole
    BY Zenon DEF Holds
  <2>2. new[i] = Block(m, i) \/ new[i] = old[i]
    BY <1>1, <1>2, <1>3
  <2> QED BY Zenon, <2>1, <2>2
<1> QED BY Zenon, <1>3, <1>4 DEF Grown

(* While nobody races for a file, a step only adds to it: it grows, and no *)
(* block of it is changed but from zeros.                                  *)
LEMMA FileGrows ==
  ASSUME IInv, \A m \in Managers : Owns(m), HasOpener, NEW m \in Managers, Act(m),
         NEW p \in DOMAIN disk, ~Raced(p)'
  PROVE  /\ Len(disk[p].data) <= Len(disk'[p].data)
         /\ \A i \in 1 .. Len(disk[p].data) :
              \/ disk'[p].data[i] = disk[p].data[i]
              \/ disk[p].data[i] = Hole /\ p \notin Initial
<1>0. Fields /\ WriterTypes /\ DiskTypes /\ Where(m)
  BY Zenon, FieldsOfTypes, TypedParts DEF IInv
<1> PICK old, new : old = disk[p].data /\ new = disk'[p].data
  OBVIOUS
<1>1. old \in Seq(AnyBlock)
  BY <1>0 DEF DiskTypes, File
<1>2. Next
  BY Zenon, NextIs
<1>3. CASE OpenWrite(m) /\ filename[m] = p
  <2>1. p \notin Initial /\ ~opened[m] /\ opened'[m] /\ filename'[m] = p
    BY <1>0, <1>3, OpenWriteIs DEF Where, Wrote
  <2>2. PICK n \in Managers : opened[n] /\ filename[n] = p
    BY <2>1 DEF HasOpener
  <2>3. opened'[n] /\ filename'[n] = p /\ n # m
    BY Zenon, <1>2, <2>1, <2>2, OpenedStays
  <2> QED BY Zenon, <2>1, <2>3 DEF Raced
<1>4. CASE Passes(m) /\ filename[m] = p
  <2>1. opened[m] /\ p \notin Initial
    BY Zenon, <1>4, PassesIs
  <2>2. ~Raced(p)
    BY Zenon, <1>2, RacedStays
  <2>3. Holds(old, m, stored[m])
    BY Zenon, <1>4, <2>1, <2>2 DEF Owns
  <2>4. PICK to \in 0 .. Blocks : new = Overwrite(old, m, put[m] + 1, to)
    BY Zenon, <1>4, PassesIs
  <2>5. PICK q \in 0 .. Blocks : q = put[m]
    BY Zenon, <1>0 DEF WriterTypes
  <2>6. new = Overwrite(old, m, q + 1, to)
    BY Zenon, <2>4, <2>5
  <2>7. Grown(old, new)
    BY Zenon, <1>1, <2>3, <2>4, <2>5, <2>6, OverwriteGrows
  <2> QED BY Zenon, <2>1, <2>7 DEF Grown
<1>5. CASE ~(filename[m] = p /\ (OpenWrite(m) \/ Passes(m)))
  <2>1. new = old
    BY Zenon, <1>5, ContentKept
  <2>2. Len(old) <= Len(old)
    BY <1>1
  <2> QED BY Zenon, <2>1, <2>2
<1> QED BY Zenon, <1>3, <1>4, <1>5

LEMMA LenOfFile == ASSUME NEW f \in File PROVE Len(f.data) \in Nat
BY DEF File

LEMMA AtMost ==
  ASSUME NEW s \in Nat, NEW k \in Nat, NEW l \in Nat, s <= k, k <= l
  PROVE  s <= l
OBVIOUS

LEMMA Within ==
  ASSUME NEW s \in Nat, NEW l \in Nat, NEW i \in 1 .. Blocks, i <= s, s <= l
  PROVE  i \in 1 .. l /\ i <= l
BY StoreAssumption

(* What was read of a file that others may write to is still right.        *)
LEMMA ServesFrame ==
  ASSUME IInv, \A k \in Managers : Owns(k), HasOpener, NEW m \in Managers, Act(m),
         NEW n \in Managers, Serves(n), pc'[n] = pc[n], filename'[n] = filename[n],
         size'[n] = size[n], served'[n] = served[n]
  PROVE  Serves(n)'
<1> PICK p, s, out : p = filename[n] /\ s = size[n] /\ out = served[n]
  OBVIOUS
<1> SUFFICES ASSUME pc[n] = "reading", ~Raced(p)'
             PROVE  /\ s <= Len(disk'[p].data)
                    /\ \A i \in DOMAIN out :
                         /\ i <= s
                         /\ \/ out[i] = disk'[p].data[i]
                            \/ out[i] = Hole /\ p \notin Initial
  <2>1. pc[n] # "reading" => Serves(n)'
    BY Zenon DEF Serves
  <2>2. Raced(p)' => Raced(filename[n])'
    BY Zenon DEF Raced
  <2>3. ASSUME pc[n] = "reading", ~Raced(p)',
               /\ s <= Len(disk'[p].data)
               /\ \A i \in DOMAIN out :
                    /\ i <= s
                    /\ \/ out[i] = disk'[p].data[i]
                       \/ out[i] = Hole /\ p \notin Initial
        PROVE  Serves(n)'
    BY <2>3 DEF Serves
  <2>4. ASSUME pc[n] = "reading", Raced(p)' PROVE Serves(n)'
    BY <2>2, <2>4 DEF Serves
  <2> QED BY Zenon, <2>1, <2>3, <2>4
<1>1. Next
  BY Zenon, NextIs
<1>2. ~Raced(p)
  BY Zenon, <1>1, RacedStays
<1>3. p \in DOMAIN disk
  BY DEF IInv, Where, Finds
<1> PICK old, new : old = disk[p].data /\ new = disk'[p].data
  OBVIOUS
<1>4. /\ s <= Len(old)
      /\ \A i \in DOMAIN out : /\ i <= s
                               /\ out[i] = old[i] \/ (out[i] = Hole /\ p \notin Initial)
  BY Zenon, <1>2 DEF Serves
<1>5. /\ Len(old) <= Len(new)
      /\ \A i \in 1 .. Len(old) :
           new[i] = old[i] \/ (old[i] = Hole /\ p \notin Initial)
  BY Zenon, <1>3, FileGrows
<1>6. s \in Nat /\ Len(old) \in Nat /\ DOMAIN out \subseteq 1 .. Blocks
  <2>1. ReaderTypes /\ DiskTypes
    BY Zenon, TypedParts DEF IInv
  <2> QED BY Zenon, <1>3, <2>1, LenOfFile DEF ReaderTypes, DiskTypes
<1>7. Len(new) \in Nat
  <2>1. DiskTypes' /\ p \in DOMAIN disk'
    BY Zenon, <1>1, <1>3, DiskTypesStep, FilesStay
  <2> QED BY Zenon, <2>1, LenOfFile DEF DiskTypes
<1>8. s <= Len(new)
  BY Zenon, <1>4, <1>5, <1>6, <1>7, AtMost
<1>9. \A i \in DOMAIN out : i \in 1 .. Len(old)
  BY Zenon, <1>4, <1>6, Within
<1> QED BY Zenon, <1>4, <1>5, <1>8, <1>9

(* A manager that is not reading has nothing to be right about.            *)
LEMMA ServesElse ==
  ASSUME NEW n, pc'[n] # "reading", served'[n] = served[n], Serves(n),
         \/ pc'[n] \notin {"idle", "search_md5", "search_name", "found", "probed",
                           "reopened", "unopened"}
         \/ pc[n] \in {"idle", "search_md5", "search_name", "found", "probed",
                       "reopened", "unopened"}
  PROVE  Serves(n)'
<1> PICK out : out = served[n]
  OBVIOUS
<1> QED BY Zenon DEF Serves

(* A step of a manager reads what stands in the file.                      *)
LEMMA ServesStep ==
  ASSUME IInv, \A k \in Managers : Owns(k), HasOpener, NEW n \in Managers, Serves(n), Next
  PROVE  Serves(n)'
<1>0. Fields /\ Where(n)
  BY Zenon, FieldsOfTypes DEF IInv
<1>1. ASSUME NEW m \in Managers, Act(m), m # n PROVE Serves(n)'
  <2>1. pc'[n] = pc[n] /\ filename'[n] = filename[n] /\ size'[n] = size[n]
        /\ served'[n] = served[n]
    BY Zenon, <1>0, <1>1, OthersStay DEF Same
  <2> QED BY Zenon, <1>1, <2>1, ServesFrame
<1>2. CASE Search(n)
  <2>1. /\ pc'[n] \in {"check", "search_md5", "search_name", "found", "ending"}
        /\ served' = served /\ pc[n] \in {"idle", "search_md5", "search_name"}
    BY Zenon, <1>0, <1>2, SearchIs DEF Search, Begin, Fields
  <2> QED BY <2>1, ServesElse
<1>3. CASE GoOn(n)
  <2>1. served' = served
    BY Zenon, <1>3, GoOnIs
  <2>2. \A v : Go(n, v) => pc'[n] = v
    BY <1>0 DEF Fields, Go
  <2>3. \/ pc[n] = "found" /\ pc'[n] = "probed"
        \/ pc[n] = "probed" /\ pc'[n] \in {"reopened", "unopened"}
        \/ pc'[n] \in {"checked", "ending"}
    BY Zenon, <1>3, <2>2, GoOnIs
  <2> QED BY <2>1, <2>3, ServesElse
<1>4. CASE KeepSize(n)
  <2>1. /\ pc[n] \in {"reopened", "unopened"} /\ pc'[n] \in {"reading", "no_stream"}
        /\ UNCHANGED <<filename, served, disk>> /\ size'[n] = file_size(filename[n])
    BY Zenon, <1>0, <1>4 DEF KeepSize, Go, Fields
  <2>2. DOMAIN served[n] = {}
    BY <2>1 DEF Serves
  <2>3. filename[n] \in DOMAIN disk
    BY <1>0, <2>1 DEF Where, Finds
  <2>4. size'[n] = Len(disk[filename[n]].data) /\ Len(disk[filename[n]].data) \in Nat
    <3>1. DiskTypes
      BY Zenon, TypedParts DEF IInv
    <3> QED BY Zenon, <2>1, <2>3, <3>1, LenOfFile DEF file_size, DiskTypes
  <2>5. size'[n] <= Len(disk'[filename'[n]].data)
    BY <2>1, <2>4
  <2>6. DOMAIN served'[n] = {}
    BY Zenon, <2>1, <2>2
  <2> QED BY Zenon, <2>5, <2>6 DEF Serves
<1>5. CASE Read(n)
  <2>1. pc[n] = "reading" /\ UNCHANGED <<pc, filename, opened, size, disk>>
    BY Zenon, <1>5 DEF Read, writer
  <2> PICK p, s, old, data : /\ p = filename[n] /\ s = size[n] /\ old = served[n]
                             /\ data = disk[filename[n]].data
    OBVIOUS
  <2>2. PICK i \in 1 .. Blocks : i <= s /\ served'[n] = WithBlock(old, i, data)
    BY Zenon, <1>0, <1>5 DEF Read, Left, Fields
  <2>3. p \in DOMAIN disk
    BY <1>0, <2>1 DEF Where, Finds
  <2>4. Len(data) \in Nat /\ s \in Nat
    <3>1. ReaderTypes /\ DiskTypes
      BY Zenon, TypedParts DEF IInv
    <3> QED BY Zenon, <2>3, <3>1, LenOfFile DEF ReaderTypes, DiskTypes
  <2> PICK new : new = served'[n]
    OBVIOUS
  <2>5. ASSUME ~Raced(p)
        PROVE  /\ s <= Len(data)
               /\ \A j \in DOMAIN new : /\ j <= s
                                        /\ new[j] = data[j] \/ (new[j] = Hole /\ p \notin Initial)
    <3>1. /\ s <= Len(data)
          /\ \A j \in DOMAIN old : /\ j <= s
                                   /\ old[j] = data[j] \/ (old[j] = Hole /\ p \notin Initial)
      BY Zenon, <2>1, <2>5 DEF Serves
    <3>2. i <= Len(data)
      BY Zenon, <2>2, <2>4, <3>1, Within
    <3>3. DOMAIN new = DOMAIN old \cup {i} /\ new[i] = data[i]
      BY Zenon, <2>2, <3>2 DEF WithBlock
    <3>4. \A j \in DOMAIN old : j # i => new[j] = old[j]
      BY Zenon, <2>2 DEF WithBlock
    <3> QED BY Zenon, <2>2, <3>1, <3>3, <3>4
  <2>6. Raced(filename[n])' <=> Raced(p)
    BY Zenon, <2>1 DEF Raced
  <2>7. pc'[n] = "reading" /\ size'[n] = s /\ filename'[n] = p /\ disk'[p].data = data
    BY Zenon, <2>1
  <2>8. pc'[n] \notin {"idle", "search_md5", "search_name", "found", "probed",
                      "reopened", "unopened"}
    BY <2>7
  <2> QED BY Zenon, <2>5, <2>6, <2>7, <2>8 DEF Serves
<1>6. CASE Write(n) \/ WriteElsewhere(n) \/ Flush(n)
  <2>1. pc'[n] = "writing" /\ served' = served
    BY Zenon, <1>6 DEF Write, WriteElsewhere, Flush, reader
  <2> QED BY <2>1, ServesElse
<1>7. CASE OpenWrite(n) \/ CloseStreams(n) \/ Chown(n) \/ Chmod(n)
  <2>1. pc'[n] \in {"writing", "chown", "chmod", "closed"} /\ served' = served
    BY Zenon, <1>0, <1>7 DEF OpenWrite, CloseStreams, Chown, Chmod, Go, Fields, reader
  <2> QED BY <2>1, ServesElse
<1>8. CASE Crash
  <2>1. UNCHANGED <<filename, opened, size, served, disk>>
    BY Zenon, <1>8 DEF Crash, reader, writer
  <2>2. pc'[n] = pc[n] \/ pc'[n] = "gone"
    BY Zenon, <1>8, CrashIs
  <2>3. CASE pc'[n] = "gone"
    BY <2>1, <2>3, ServesElse
  <2>4. CASE pc'[n] = pc[n]
    BY Zenon, <2>1, <2>4 DEF Serves, Raced
  <2> QED BY <2>2, <2>3, <2>4
<1> QED
  BY Zenon, <1>1, <1>2, <1>3, <1>4, <1>5, <1>6, <1>7, <1>8, NextIs DEF Act, Puts

(* What a download has read stands in the file at that place: file_size_   *)
(* never lets it run past what is there, though another session may still  *)
(* be writing, unless two uploads race for the file (ServedFromFile).      *)
THEOREM ReadsFromFile == Spec => []ServedFromFile
<1> DEFINE All == \A m \in Managers : Serves(m)
           Own == \A m \in Managers : Owns(m)
<1>1. Init => HasOpener /\ All
  <2>1. ASSUME Init PROVE HasOpener
    BY <2>1 DEF Init, HasOpener
  <2>2. ASSUME Init, NEW m \in Managers PROVE Serves(m)
    <3>1. pc[m] = "idle" /\ DOMAIN served[m] = {}
      BY <2>2 DEF Init
    <3> QED BY <3>1 DEF Serves
  <2> QED BY <2>1, <2>2
<1>2. IInv /\ Own /\ HasOpener /\ All /\ [Next]_vars => All'
  <2>1. ASSUME IInv, Own, HasOpener, All, Next PROVE All'
    BY Zenon, <2>1, ServesStep
  <2>2. ASSUME All, UNCHANGED vars PROVE All'
    <3>1. UNCHANGED <<pc, filename, opened, size, served, disk>>
      BY Zenon, <2>2 DEF vars, reader, writer
    <3> QED BY Zenon, <2>2, <3>1 DEF Serves, Raced
  <2> QED BY Zenon, <2>1, <2>2
<1>3. IInv /\ All => ServedFromFile
  <2> SUFFICES ASSUME IInv, NEW m \in Managers, Serves(m), pc[m] = "reading",
                      ~Raced(filename[m]), NEW data, data = disk[filename[m]].data,
                      NEW i \in DOMAIN served[m]
               PROVE  /\ i <= Len(data)
                      /\ \/ served[m][i] = data[i]
                         \/ served[m][i] = Hole /\ filename[m] \notin Initial
    BY Zenon DEF ServedFromFile
  <2>1. /\ size[m] <= Len(data) /\ i <= size[m]
        /\ \/ served[m][i] = data[i]
           \/ served[m][i] = Hole /\ filename[m] \notin Initial
    BY Zenon DEF Serves
  <2>2. filename[m] \in DOMAIN disk
    BY DEF IInv, Where, Finds
  <2>3. Len(data) \in Nat /\ size[m] \in Nat /\ i \in 1 .. Blocks
    <3>1. ReaderTypes /\ DiskTypes
      BY Zenon, TypedParts DEF IInv
    <3> QED BY Zenon, <2>2, <3>1, LenOfFile DEF ReaderTypes, DiskTypes
  <2>4. i <= Len(data)
    BY Zenon, <2>1, <2>3, Within
  <2> QED BY Zenon, <2>1, <2>4
<1>4. Spec => [](IInv /\ Own)
  BY OwnsAlways
<1> HIDE DEF All, Own
<1> QED BY <1>1, <1>2, <1>3, <1>4, HasOpenerStep, PTL DEF Spec

-----------------------------------------------------------------------------
(* The searches.                                                           *)

(* The directories that a search has been through.                         *)
Passed(m) == {Dirs[i] : i \in 1 .. dir[m] - 1}

(* A manager's file is one that a .md5 file of the directory names.        *)
FoundBySum(m) ==
  /\ req[m].name \in Sums
  /\ \E f \in Md5Files : f.dir = Dirs[dir[m]] /\ f.sum = req[m].name
       /\ filename[m] \in {f.companion, f.listed}

NoSum(m) == \A d \in DirSet : ~HasSum(d, req[m].name, known[m])

NoSumPassed(m) == \A d \in Passed(m) : ~HasSum(d, req[m].name, known[m])

NoNamePassed(m) == \A d \in Passed(m) : <<d, req[m].name>> \notin known[m]

(* What the searches have ruled out by the time they are where they are.   *)
Searched(m) ==
  /\ known[m] \subseteq DOMAIN disk
  /\ pc[m] = "search_md5" => req[m].name \in Sums /\ NoSumPassed(m)
  /\ pc[m] = "search_name" => NoSum(m) /\ NoNamePassed(m)
  /\ pc[m] \in Finds => IF FoundBySum(m) THEN NoSumPassed(m)
                                         ELSE NoSum(m) /\ NoNamePassed(m)

(* A directory in which the search by sum finds nothing has no file that   *)
(* the sum leads to.                                                       *)
LEMMA NothingFound ==
  ASSUME NEW d, NEW sum, search_by_md5(d, sum) = {}, NEW files \in SUBSET DOMAIN disk
  PROVE  ~HasSum(d, sum, files)
<1> SUFFICES ASSUME NEW f \in Md5Files, f.dir = d, f.sum = sum,
                    exists(f.companion) \/ exists(f.listed)
             PROVE  search_by_md5(d, sum) # {}
  BY DEF HasSum, exists
<1>1. exists(f.companion) => f.companion \in search_by_md5(d, sum)
  BY Zenon DEF search_by_md5
<1>2. ~exists(f.companion) /\ exists(f.listed) => f.listed \in search_by_md5(d, sum)
  BY Zenon DEF search_by_md5
<1> QED BY ZenonT(40), <1>1, <1>2

(* What the search by sum returns, a .md5 file of the directory names.     *)
LEMMA FoundIsNamed ==
  ASSUME NEW d, NEW sum, NEW p \in search_by_md5(d, sum)
  PROVE  \E f \in Md5Files : f.dir = d /\ f.sum = sum /\ p \in {f.companion, f.listed}
  BY Zenon DEF search_by_md5

(* The directories passed after one more, and after the last.              *)
LEMMA PassedMore ==
  ASSUME NEW i \in 1 .. Len(Dirs)
  PROVE  /\ \A d \in {Dirs[j] : j \in 1 .. (i + 1) - 1} :
              d \in {Dirs[j] : j \in 1 .. i - 1} \/ d = Dirs[i]
         /\ i = Len(Dirs) =>
              \A d \in DirSet : d \in {Dirs[j] : j \in 1 .. i - 1} \/ d = Dirs[i]
         /\ {Dirs[j] : j \in 1 .. 1 - 1} = {}
         /\ {Dirs[j] : j \in 1 .. i - 1} \subseteq DirSet
<1>1. i \in Nat /\ Len(Dirs) \in Nat
  BY StoreAssumption
<1>2. \A j \in 1 .. (i + 1) - 1 : j \in 1 .. i - 1 \/ j = i
  BY <1>1
<1>3. i = Len(Dirs) => \A j \in 1 .. Len(Dirs) : j \in 1 .. i - 1 \/ j = i
  BY <1>1
<1>4. 1 .. 1 - 1 = {}
  OBVIOUS
<1>5. \A j \in 1 .. i - 1 : j \in 1 .. Len(Dirs)
  BY <1>1
<1> QED BY <1>2, <1>3, <1>4, <1>5 DEF DirSet

(* A manager that goes on with what it found, or gives up, keeps what it   *)
(* knows.                                                                  *)
LEMMA SearchedFrame ==
  ASSUME NEW n, Searched(n), DOMAIN disk \subseteq DOMAIN disk',
         \/ pc'[n] = pc[n]
         \/ pc[n] \in Finds /\ pc'[n] \in Finds
         \/ pc'[n] \notin Finds \cup {"search_md5", "search_name"},
         req'[n] = req[n], known'[n] = known[n], dir'[n] = dir[n],
         filename'[n] = filename[n]
  PROVE  Searched(n)'
<1>1. /\ Passed(n)' = Passed(n) /\ FoundBySum(n)' = FoundBySum(n)
  BY Zenon DEF Passed, FoundBySum
<1>2. NoSum(n)' = NoSum(n) /\ NoSumPassed(n)' = NoSumPassed(n)
      /\ NoNamePassed(n)' = NoNamePassed(n)
  BY Zenon, <1>1 DEF NoSum, NoSumPassed, NoNamePassed
<1>3. known'[n] \subseteq DOMAIN disk'
  BY Zenon DEF Searched
<1>4. CASE pc'[n] = pc[n]
  BY Zenon, <1>1, <1>2, <1>3, <1>4 DEF Searched
<1>5. CASE pc[n] \in Finds /\ pc'[n] \in Finds
  <2>1. pc'[n] \notin {"search_md5", "search_name"}
    BY <1>5 DEF Finds
  <2> QED BY Zenon, <1>1, <1>2, <1>3, <1>5, <2>1 DEF Searched
<1>6. CASE pc'[n] \notin Finds \cup {"search_md5", "search_name"}
  BY Zenon, <1>3, <1>6 DEF Searched
<1> QED BY <1>4, <1>5, <1>6

(* The turns of the search by sum.                                         *)
LEMMA SearchedMd5 ==
  ASSUME IInv, NEW n \in Managers, Searched(n), SearchMd5(n)
  PROVE  Searched(n)'
<1>0. Fields /\ ReaderTypes
  BY Zenon, FieldsOfTypes, TypedParts DEF IInv
<1> PICK name, i, found : /\ name = req[n].name /\ i = dir[n]
                          /\ found = search_by_md5(Dirs[dir[n]], req[n].name)
  OBVIOUS
<1>1. /\ pc[n] = "search_md5" /\ UNCHANGED <<req, known, disk>>
      /\ i \in 1 .. Len(Dirs) /\ known[n] \subseteq DOMAIN disk
  BY Zenon, <1>0 DEF SearchMd5, ReaderTypes, Searched
<1>2. name \in Sums /\ NoSumPassed(n)
  BY Zenon, <1>1 DEF Searched
<1>3. CASE /\ \E p \in found : filename' = [filename EXCEPT ![n] = p]
           /\ Go(n, "found") /\ UNCHANGED dir
  <2>1. PICK p \in found : filename'[n] = p
    BY Zenon, <1>0, <1>3 DEF Fields
  <2>2. pc'[n] = "found"
    BY Zenon, <1>0, <1>3 DEF Fields, Go
  <2>3. PICK f \in Md5Files :
          f.dir = Dirs[i] /\ f.sum = name /\ p \in {f.companion, f.listed}
    <3>1. p \in search_by_md5(Dirs[i], name)
      BY Zenon, <2>1
    <3> QED BY <3>1, FoundIsNamed
  <2>4. FoundBySum(n)'
    <3>1. req'[n].name = name /\ dir'[n] = i /\ filename'[n] \in {f.companion, f.listed}
      BY Zenon, <1>1, <1>3, <2>1, <2>3
    <3> QED BY Zenon, <1>2, <2>3, <3>1 DEF FoundBySum
  <2>5. NoSumPassed(n)'
    BY Zenon, <1>1, <1>2, <1>3 DEF NoSumPassed, Passed
  <2> QED BY Zenon, <1>1, <2>2, <2>4, <2>5 DEF Searched
<1>4. found = {} => ~HasSum(Dirs[i], name, known[n])
  BY Zenon, <1>1, NothingFound
<1>5. CASE /\ found = {} /\ dir' = [dir EXCEPT ![n] = dir[n] + 1] /\ UNCHANGED pc
  <2>1. dir'[n] = i + 1
    BY Zenon, <1>0, <1>5 DEF Fields
  <2>2. \A d \in Passed(n)' : d \in Passed(n) \/ d = Dirs[i]
    BY <1>1, <2>1, PassedMore DEF Passed
  <2>3. NoSumPassed(n)'
    BY Zenon, <1>1, <1>2, <1>4, <1>5, <2>2 DEF NoSumPassed
  <2>4. pc'[n] = "search_md5" /\ pc'[n] \notin Finds \cup {"search_name"}
    BY <1>1, <1>5 DEF Finds
  <2> QED BY Zenon, <1>1, <1>2, <2>3, <2>4 DEF Searched
<1>6. CASE /\ found = {} /\ dir[n] = Len(Dirs) /\ dir' = [dir EXCEPT ![n] = FirstDir]
           /\ Go(n, "search_name")
  <2>1. dir'[n] = 1 /\ pc'[n] = "search_name"
    BY Zenon, <1>0, <1>6 DEF Fields, FirstDir, Go
  <2>2. Passed(n)' = {}
    BY <1>1, <2>1, PassedMore DEF Passed
  <2>3. \A d \in DirSet : d \in Passed(n) \/ d = Dirs[i]
    BY <1>1, <1>6, PassedMore DEF Passed
  <2>4. NoSum(n)'
    BY Zenon, <1>1, <1>2, <1>4, <1>6, <2>3 DEF NoSum, NoSumPassed
  <2>5. NoNamePassed(n)'
    BY Zenon, <2>2 DEF NoNamePassed
  <2>6. pc'[n] \notin Finds \cup {"search_md5"}
    BY <2>1 DEF Finds
  <2> QED BY Zenon, <1>1, <2>1, <2>4, <2>5, <2>6 DEF Searched
<1> QED BY Zenon, <1>3, <1>5, <1>6 DEF SearchMd5

(* The turns of the search by name.                                        *)
LEMMA SearchedName ==
  ASSUME IInv, NEW n \in Managers, Searched(n), SearchName(n)
  PROVE  Searched(n)'
<1>0. Fields /\ ReaderTypes
  BY Zenon, FieldsOfTypes, TypedParts DEF IInv
<1> PICK name, i, p : name = req[n].name /\ i = dir[n] /\ p = <<Dirs[dir[n]], req[n].name>>
  OBVIOUS
<1>1. /\ pc[n] = "search_name" /\ UNCHANGED <<req, known, disk>>
      /\ i \in 1 .. Len(Dirs) /\ known[n] \subseteq DOMAIN disk
  BY Zenon, <1>0 DEF SearchName, ReaderTypes, Searched
<1>2. NoSum(n) /\ NoNamePassed(n)
  BY Zenon, <1>1 DEF Searched
<1>3. NoSum(n)'
  BY Zenon, <1>1, <1>2 DEF NoSum
<1>4. CASE Go(n, "found") /\ UNCHANGED dir
  <2>1. pc'[n] = "found" /\ Passed(n)' = Passed(n)
    BY Zenon, <1>0, <1>4 DEF Fields, Go, Passed
  <2>2. Passed(n)' \subseteq DirSet
    BY <1>1, <2>1, PassedMore DEF Passed
  <2>3. NoSumPassed(n)' /\ NoNamePassed(n)'
    BY Zenon, <1>1, <1>2, <1>3, <2>1, <2>2 DEF NoSum, NoSumPassed, NoNamePassed
  <2> QED BY Zenon, <1>1, <1>3, <2>1, <2>3 DEF Searched
<1>5. CASE /\ ~exists(p) /\ dir' = [dir EXCEPT ![n] = dir[n] + 1] /\ UNCHANGED pc
  <2>1. dir'[n] = i + 1
    BY Zenon, <1>0, <1>5 DEF Fields
  <2>2. \A d \in Passed(n)' : d \in Passed(n) \/ d = Dirs[i]
    BY <1>1, <2>1, PassedMore DEF Passed
  <2>3. <<Dirs[i], name>> \notin known[n]
    BY Zenon, <1>1, <1>5 DEF exists
  <2>4. NoNamePassed(n)'
    BY Zenon, <1>1, <1>2, <1>5, <2>2, <2>3 DEF NoNamePassed
  <2>5. pc'[n] = "search_name" /\ pc'[n] \notin Finds \cup {"search_md5"}
    BY <1>1, <1>5 DEF Finds
  <2> QED BY Zenon, <1>1, <1>3, <2>4, <2>5 DEF Searched
<1>6. CASE Go(n, "ending")
  <2>1. pc'[n] \notin Finds \cup {"search_md5", "search_name"}
    BY <1>0, <1>6 DEF Fields, Go, Finds
  <2> QED BY Zenon, <1>1, <2>1 DEF Searched
<1> QED BY Zenon, <1>4, <1>5, <1>6 DEF SearchName

(* Each turn of the search goes on to the next directory, or ends with the *)
(* file it found; what others write meanwhile does not count.              *)
LEMMA SearchedStep ==
  ASSUME IInv, NEW n \in Managers, Searched(n), Next
  PROVE  Searched(n)'
<1>0. Fields
  BY Zenon, FieldsOfTypes DEF IInv
<1>1. CASE Begin(n)
  <2>1. PICK r \in Requests :
          /\ req' = [req EXCEPT ![n] = r]
          /\ pc' = [pc EXCEPT ![n] =
                      IF r.type = "write" THEN "check"
                      ELSE IF r.name \in Sums THEN "search_md5" ELSE "search_name"]
    BY Zenon, <1>1 DEF Begin
  <2>2. dir'[n] = 1 /\ req'[n] = r /\ known'[n] = DOMAIN disk /\ disk' = disk
    BY Zenon, <1>0, <1>1, <2>1 DEF Begin, FirstDir, Fields
  <2>3. Passed(n)' = {}
    BY <2>2, PathType, PassedMore DEF Passed
  <2>4. NoSumPassed(n)' /\ NoNamePassed(n)'
    BY Zenon, <2>3 DEF NoSumPassed, NoNamePassed
  <2>5. r.name \notin Sums => NoSum(n)'
    BY <2>2, StoreAssumption DEF NoSum, HasSum
  <2>6. \/ pc'[n] = "check"
        \/ pc'[n] = "search_md5" /\ r.name \in Sums
        \/ pc'[n] = "search_name" /\ r.name \notin Sums
    BY Zenon, <1>0, <2>1 DEF Fields
  <2>7. pc'[n] \notin Finds
    BY <2>6 DEF Finds
  <2> QED BY Zenon, <2>2, <2>4, <2>5, <2>6, <2>7 DEF Searched
<1>2. CASE SearchMd5(n)
  BY Zenon, <1>2, SearchedMd5
<1>3. CASE SearchName(n)
  BY Zenon, <1>3, SearchedName
<1>4. ASSUME NEW m \in Managers, m # n, Act(m) PROVE Searched(n)'
  <2>1. Same(n) /\ DOMAIN disk \subseteq DOMAIN disk'
    BY Zenon, <1>0, <1>4, OthersStay, FilesStay
  <2> QED BY Zenon, <2>1, SearchedFrame DEF Same
<1>5. CASE Act(n) /\ ~Search(n)
  <2>1. DOMAIN disk \subseteq DOMAIN disk'
    BY Zenon, <1>5, FilesStay
  <2>2. UNCHANGED <<req, known, dir, filename>>
    BY Zenon, <1>5, GoOnIs
    DEF Act, KeepSize, OpenWrite, Read, Write, Puts, WriteElsewhere, Flush, CloseStreams,
        Chown, Chmod, reader
  <2>3. \/ pc'[n] = pc[n]
        \/ pc[n] \in Finds /\ pc'[n] \in Finds
        \/ pc'[n] \notin Finds \cup {"search_md5", "search_name"}
    <3>1. \A v : Go(n, v) => pc'[n] = v
      BY <1>0 DEF Fields, Go
    <3>2. CASE GoOn(n)
      <4>1. \/ pc[n] = "found" /\ pc'[n] = "probed"
            \/ pc[n] = "probed" /\ pc'[n] \in {"reopened", "unopened"}
            \/ pc'[n] \in {"checked", "ending"}
        BY Zenon, <3>1, <3>2, GoOnIs
      <4> QED BY <4>1 DEF Finds
    <3>3. CASE KeepSize(n)
      <4>1. /\ pc[n] \in {"reopened", "unopened"} /\ pc'[n] \in {"reading", "no_stream"}
        BY Zenon, <3>1, <3>3 DEF KeepSize
      <4> QED BY <4>1 DEF Finds
    <3>4. CASE OpenWrite(n) \/ CloseStreams(n) \/ Chown(n) \/ Chmod(n)
      <4>1. pc'[n] \in {"writing", "chown", "chmod", "closed"}
        BY Zenon, <3>1, <3>4 DEF OpenWrite, CloseStreams, Chown, Chmod
      <4> QED BY <4>1 DEF Finds
    <3>5. CASE Read(n) \/ Write(n) \/ WriteElsewhere(n) \/ Flush(n)
      BY Zenon, <3>5 DEF Read, Write, WriteElsewhere, Flush
    <3> QED BY Zenon, <1>5, <3>2, <3>3, <3>4, <3>5 DEF Act, Puts
  <2> QED BY Zenon, <2>1, <2>2, <2>3, SearchedFrame
<1>6. CASE Crash
  <2>1. UNCHANGED <<req, known, dir, filename, disk>>
    BY Zenon, <1>6 DEF Crash, reader
  <2>2. pc'[n] = pc[n] \/ pc'[n] \notin Finds \cup {"search_md5", "search_name"}
    BY <1>6, CrashIs DEF Finds
  <2> QED BY Zenon, <2>1, <2>2, SearchedFrame
<1> QED BY Zenon, <1>1, <1>2, <1>3, <1>4, <1>5, <1>6, NextIs DEF Search

(* The search goes from the root directory through the others in their     *)
(* order, first by sum and then by name (SearchOrder): nothing is served   *)
(* while a file that comes before it was there when the request came, for  *)
(* any number of directories and .md5 files and whatever is uploaded       *)
(* meanwhile.                                                              *)
THEOREM SearchesInOrder == Spec => []SearchOrder
<1> DEFINE All == \A m \in Managers : Searched(m)
<1>1. Init => All
  <2> SUFFICES ASSUME Init, NEW m \in Managers PROVE Searched(m)
    OBVIOUS
  <2>1. pc[m] = "idle" /\ known[m] = {}
    BY DEF Init
  <2> QED BY <2>1 DEF Searched, Finds
<1>2. IInv /\ All /\ [Next]_vars => All'
  <2> SUFFICES ASSUME IInv, All, [Next]_vars, NEW n \in Managers
               PROVE  Searched(n)'
    OBVIOUS
  <2>1. CASE Next
    BY Zenon, <2>1, SearchedStep
  <2>2. CASE UNCHANGED vars
    <3>1. UNCHANGED <<pc, req, known, dir, filename, disk>>
      BY Zenon, <2>2 DEF vars, reader
    <3> QED BY Zenon, <3>1, SearchedFrame
  <2> QED BY <2>1, <2>2
<1>3. All => SearchOrder
  <2> SUFFICES ASSUME NEW m \in Managers, Searched(m), pc[m] \in Finds
               PROVE  IF FoundBySum(m) THEN NoSumPassed(m)
                      ELSE /\ NoNamePassed(m)
                           /\ req[m].name \in Sums => NoSum(m)
    BY Zenon DEF SearchOrder, Passed, FoundBySum, NoSumPassed, NoNamePassed, NoSum, Finds
  <2> QED BY Zenon DEF Searched
<1> HIDE DEF All
<1> QED BY <1>1, <1>2, <1>3, IInvInit, IInvStep, PTL DEF Spec

=============================================================================
