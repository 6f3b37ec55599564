----------------------------- MODULE FileStore -----------------------------
(***************************************************************************)
(* The data managers of several sessions on one file system: class         *)
(* DataMgrFile of source/tftpDataMgrFile.cpp.  Each manager runs in the    *)
(* thread of its session; an action is a piece of init(), read(), write()  *)
(* or close() with at most one access to a file that others write (the     *)
(* search of one directory by md5 sum is taken as one).                    *)
(*                                                                         *)
(* A file is a sequence of blocks, a block is known by the manager that    *)
(* wrote it and by its number.  Which blocks a session reads and writes,   *)
(* and in which order, is modelled by Session; here it is any.  A packet   *)
(* without data writes nothing, and has no action.                         *)
(***************************************************************************)
EXTENDS Naturals, Sequences

CONSTANTS
  Managers,  (* data managers, one for each session                        *)
  Nobody,    (* stands for the author of files that no session wrote       *)
  Requests,  (* records [type, name]; a name may be an md5 sum             *)
  Sums,      (* the names for which match_md5() holds                      *)
  Dirs,      (* get_root_dir() followed by get_serach_dir()                *)
  Md5Files,  (* the .md5 files: [dir, sum, companion, listed], the last    *)
             (* two are the paths search_by_md5() derives from each        *)
  Initial,   (* paths of the files that are there when the server starts   *)
  Blocks     (* blocks of every whole file                                 *)

Names == {r.name : r \in Requests}
DirSet == {Dirs[i] : i \in 1 .. Len(Dirs)}

(* directory / name                                                        *)
Path == DirSet \X Names

ASSUME StoreAssumption ==
  /\ Nobody \notin Managers
  /\ \A r \in Requests : r.type \in {"read", "write"}
  /\ Sums \subseteq Names
  /\ Dirs \in Seq(DirSet) /\ Len(Dirs) > 0
  /\ Md5Files \subseteq
       [dir : DirSet, sum : Sums, companion : Path, listed : Path]
  /\ Initial \subseteq Path
  /\ Requests # {}
  /\ Blocks \in Nat \ {0}

VARIABLES
  pc,        \* where each manager is
  req,       \* the request it serves
  known,     \* the files that were there when init() began (history)
  dir,       \* number of the directory that its search looks at
  filename,  \* filename_
  size,      \* file_size_
  served,    \* what file_in_ has read: a function on numbers of blocks
  opened,    \* file_out_ was opened
  pos,       \* position of file_out_: the block that write() put into it last
  put,       \* the blocks after put up to pos are still in its buffer
  stored,    \* the blocks that it has passed on to the file (history)
  disk       \* the files: a function on their paths, to [data, set]; set is
             \* what of "owner" and "mode" a close() has changed

reader == <<known, dir, size, served>>
writer == <<opened, pos, put, stored>>
vars == <<pc, req, filename, reader, writer, disk>>

Block(m, i) == [by |-> m, num |-> i]
Hole == Block(Nobody, 0)

exists(p) == p \in DOMAIN disk

(* Blocks from .. to of manager m, written over data at their own places;  *)
(* what lies between the end of data and the first of them reads as zeros. *)
Overwrite(data, m, from, to) ==
  [j \in 1 .. IF to >= from /\ to > Len(data) THEN to ELSE Len(data) |->
     IF from <= j /\ j <= to THEN Block(m, j)
     ELSE IF j <= Len(data) THEN data[j] ELSE Hole]

(* Manager m goes on to v.                                                 *)
Go(m, v) == pc' = [pc EXCEPT ![m] = v]

-----------------------------------------------------------------------------
(* init()                                                                  *)

(* Mutant of FirstDir: the root directory is left out of the search.       *)
SecondDir == 2

(* The searches begin with the root directory.                             *)
FirstDir == 1

Begin(m) ==
  /\ pc[m] = "idle"
  /\ \E r \in Requests :
        /\ req' = [req EXCEPT ![m] = r]
        /\ pc' = [pc EXCEPT ![m] =
                    IF r.type = "write" THEN "check"
                    ELSE IF r.name \in Sums THEN "search_md5" ELSE "search_name"]
        /\ filename' = [filename EXCEPT ![m] = <<Dirs[1], r.name>>]
  /\ dir' = [dir EXCEPT ![m] = FirstDir]
  /\ known' = [known EXCEPT ![m] = DOMAIN disk]
  /\ UNCHANGED <<size, served, writer, disk>>

(* What search_by_md5() may return for a directory: the order in which it  *)
(* meets the .md5 files is not specified.                                  *)
search_by_md5(d, sum) ==
  LET matching == {f \in Md5Files : f.dir = d /\ f.sum = sum}
  IN  {f.companion : f \in {g \in matching : exists(g.companion)}}
      \cup {f.listed : f \in {g \in matching : ~exists(g.companion)
                                               /\ exists(g.listed)}}

(* full_search_md5(), one directory; then the search by name.              *)
SearchMd5(m) ==
  /\ pc[m] = "search_md5"
  /\ LET found == search_by_md5(Dirs[dir[m]], req[m].name)
     IN  \/ /\ \E p \in found : filename' = [filename EXCEPT ![m] = p]
            /\ Go(m, "found")
            /\ UNCHANGED dir
         \/ /\ found = {} /\ dir[m] < Len(Dirs)
            /\ dir' = [dir EXCEPT ![m] = dir[m] + 1]
            /\ UNCHANGED <<pc, filename>>
         \/ /\ found = {} /\ dir[m] = Len(Dirs)
            /\ dir' = [dir EXCEPT ![m] = FirstDir]
            /\ Go(m, "search_name")
            /\ UNCHANGED filename
  /\ UNCHANGED <<req, known, size, served, writer, disk>>

(* full_search_name(), one directory; without a result "File not found" is *)
(* the error of the session.                                               *)
SearchName(m) ==
  /\ pc[m] = "search_name"
  /\ LET p == <<Dirs[dir[m]], req[m].name>>
     IN  \/ /\ exists(p)
            /\ filename' = [filename EXCEPT ![m] = p]
            /\ Go(m, "found")
            /\ UNCHANGED dir
         \/ /\ ~exists(p) /\ dir[m] < Len(Dirs)
            /\ dir' = [dir EXCEPT ![m] = dir[m] + 1]
            /\ UNCHANGED <<pc, filename>>
         \/ /\ ~exists(p) /\ dir[m] = Len(Dirs)
            /\ Go(m, "ending")
            /\ UNCHANGED <<dir, filename>>
  /\ UNCHANGED <<req, known, size, served, writer, disk>>

(* The first open() and the close() after it.  When that open() fails, so  *)
(* does close(), which throws: see Crash.                                  *)
OpenProbe(m) ==
  /\ pc[m] = "found"
  /\ Go(m, "probed")
  /\ UNCHANGED <<req, filename, reader, writer, disk>>

(* The second open(), whose failure nobody looks at.                       *)
Reopen(m) ==
  /\ pc[m] = "probed"
  /\ Go(m, "reopened") \/ Go(m, "unopened")
  /\ UNCHANGED <<req, filename, reader, writer, disk>>

(* Mutant of file_size: one block short.                                   *)
file_size_short(p) == Len(disk[p].data) - 1

file_size(p) == Len(disk[p].data)

(* The size of the file, with or without a stream to read it.              *)
KeepSize(m) ==
  /\ pc[m] \in {"reopened", "unopened"}
  /\ size' = [size EXCEPT ![m] = file_size(filename[m])]
  /\ Go(m, IF pc[m] = "reopened" THEN "reading" ELSE "no_stream")
  /\ UNCHANGED <<req, known, dir, filename, served, writer, disk>>

(* Mutant of CheckWrite: an existing file is not refused.                  *)
CheckWriteBlind(m) ==
  /\ pc[m] = "check"
  /\ Go(m, "checked")
  /\ UNCHANGED <<req, filename, reader, writer, disk>>

(* Mutant of CheckWrite: an empty file passes for none.                    *)
CheckWriteEmpty(m) ==
  /\ pc[m] = "check"
  /\ Go(m, IF exists(filename[m]) /\ disk[filename[m]].data # <<>>
           THEN "ending" ELSE "checked")
  /\ UNCHANGED <<req, filename, reader, writer, disk>>

(* An upload to an existing file is refused: "File already exists".        *)
CheckWrite(m) ==
  /\ pc[m] = "check"
  /\ Go(m, IF exists(filename[m]) THEN "ending" ELSE "checked")
  /\ UNCHANGED <<req, filename, reader, writer, disk>>

(* open() for output creates the file, or truncates the one that has come  *)
(* into being since the check.                                             *)
OpenWrite(m) ==
  /\ pc[m] = "checked"
  /\ disk' = [p \in DOMAIN disk \cup {filename[m]} |->
                IF p = filename[m]
                THEN [data |-> <<>>, set |-> IF exists(p) THEN disk[p].set ELSE {}]
                ELSE disk[p]]
  /\ opened' = [opened EXCEPT ![m] = TRUE]
  /\ Go(m, "writing")
  /\ UNCHANGED <<req, filename, reader, pos, put, stored>>

(* open() fails, its error is that of the session.                         *)
OpenWriteFails(m) ==
  /\ pc[m] = "checked"
  /\ Go(m, "ending")
  /\ UNCHANGED <<req, filename, reader, writer, disk>>

-----------------------------------------------------------------------------
(* read(), write() and close()                                             *)

(* Mutant of Left: the size of the file does not end the reading.          *)
LeftAlways(m, n) == n <= Blocks

(* read() has something to return: file_size_ is past the position.        *)
Left(m, n) == n <= size[m]

(* What is read, with block n of data; other bytes stay in the buffer when *)
(* the file has become shorter than file_size_.                            *)
WithBlock(out, n, data) ==
  [i \in DOMAIN out \cup {n} |->
     IF i # n THEN out[i] ELSE IF n <= Len(data) THEN data[n] ELSE Hole]

(* file_in_ reads block n, for the read() that returns it or ahead of it.  *)
Read(m) ==
  /\ pc[m] = "reading"
  /\ \E n \in 1 .. Blocks :
       /\ Left(m, n)
       /\ served' = [served EXCEPT ![m] =
                        WithBlock(served[m], n, disk[filename[m]].data)]
  /\ UNCHANGED <<pc, req, filename, known, dir, size, writer, disk>>

(* read() without a stream: "Server read stream not opened".               *)
ReadFails(m) ==
  /\ pc[m] = "no_stream"
  /\ Go(m, "ending")
  /\ UNCHANGED <<req, filename, reader, writer, disk>>

(* The stream passes the blocks of its buffer up to `to` on to the file.   *)
PassOn(m, to) ==
  /\ disk' = [disk EXCEPT ![filename[m]].data =
                 Overwrite(disk[filename[m]].data, m, put[m] + 1, to)]
  /\ stored' = [stored EXCEPT ![m] = stored[m] \cup (put[m] + 1 .. to)]

(* write() of the block at the position of file_out_: it goes into the     *)
(* buffer.                                                                 *)
Write(m) ==
  /\ pc[m] = "writing"
  /\ pos[m] < Blocks
  /\ pos' = [pos EXCEPT ![m] = pos[m] + 1]
  /\ UNCHANGED <<pc, req, filename, reader, opened, put, stored, disk>>

(* Mutant of WriteElsewhere: the position of the stream is not changed.    *)
WriteNoSeek(m) ==
  /\ pc[m] = "writing"
  /\ \E n \in 1 .. Blocks \ {pos[m] + 1} :
        /\ pos[m] < Blocks
        /\ pos' = [pos EXCEPT ![m] = pos[m] + 1]
        /\ disk' = [disk EXCEPT ![filename[m]].data =
                       Append(Overwrite(@, m, put[m] + 1, pos[m]), Block(m, n))]
        /\ put' = [put EXCEPT ![m] = pos[m] + 1]
        /\ stored' = [stored EXCEPT ![m] = @ \cup (put[m] + 1 .. pos[m]) \cup {n}]
  /\ UNCHANGED <<pc, req, filename, reader, opened>>

(* write() of a block at another position: seekp() empties the buffer.     *)
WriteElsewhere(m) ==
  /\ pc[m] = "writing"
  /\ \E n \in 1 .. Blocks \ {pos[m] + 1} :
        /\ put' = [put EXCEPT ![m] = n - 1]
        /\ pos' = [pos EXCEPT ![m] = n]
  /\ PassOn(m, pos[m])
  /\ UNCHANGED <<pc, req, filename, reader, opened>>

(* write() fails and returns -1, which is the error of the session.  A     *)
(* seekp() that fails throws: see Crash.                                   *)
WriteFails(m) ==
  /\ pc[m] = "writing"
  /\ Go(m, "ending")
  /\ UNCHANGED <<req, filename, reader, writer, disk>>

(* The stream passes a block of its buffer on to the file.                 *)
Flush(m) ==
  /\ pc[m] = "writing"
  /\ put[m] < pos[m]
  /\ put' = [put EXCEPT ![m] = put[m] + 1]
  /\ PassOn(m, put[m] + 1)
  /\ UNCHANGED <<pc, req, filename, reader, opened, pos>>

(* Mutant of CloseStreams: file_out_ is left open.                         *)
CloseStreamsIn(m) ==
  /\ pc[m] \in {"reading", "writing", "ending"}
  /\ Go(m, IF req[m].type = "write" THEN "chown" ELSE "closed")
  /\ UNCHANGED <<req, filename, reader, writer, disk>>

(* close(), at the end of every session that got as far as init(), those   *)
(* that init() refused included.  Closing file_out_ empties its buffer.    *)
CloseStreams(m) ==
  /\ pc[m] \in {"reading", "writing", "ending"}
  /\ Go(m, IF req[m].type = "write" THEN "chown" ELSE "closed")
  /\ IF opened[m] THEN PassOn(m, pos[m]) /\ put' = [put EXCEPT ![m] = pos[m]]
                  ELSE UNCHANGED <<put, stored, disk>>
  /\ UNCHANGED <<req, filename, reader, opened, pos>>

(* The file of the upload, whoever created it, has its `what` set.         *)
Change(m, what) ==
  /\ exists(filename[m])
  /\ disk' = [disk EXCEPT ![filename[m]].set = @ \cup {what}]

(* chown(), not asked for by every setting; a failure is only logged.      *)
Chown(m) ==
  /\ pc[m] = "chown"
  /\ Go(m, "chmod")
  /\ Change(m, "owner") \/ UNCHANGED disk
  /\ UNCHANGED <<req, filename, reader, writer>>

(* permissions(); a failure is only logged.                                *)
Chmod(m) ==
  /\ pc[m] = "chmod"
  /\ Go(m, "closed")
  /\ Change(m, "mode") \/ UNCHANGED disk
  /\ UNCHANGED <<req, filename, reader, writer>>

(* An exception in any thread (an open() of a file to read, file_size() or *)
(* a seek or flush that fails) ends the process: what the streams have not *)
(* passed on is lost, and the server starts again on the same files.       *)
Crash ==
  /\ \E m \in Managers : pc[m] \notin {"idle", "closed", "gone"}
  /\ pc' = [m \in Managers |-> IF pc[m] \in {"idle", "closed"} THEN pc[m] ELSE "gone"]
  /\ UNCHANGED <<req, filename, reader, writer, disk>>

-----------------------------------------------------------------------------
Places == {"idle", "search_md5", "search_name", "found", "probed", "reopened",
           "unopened", "reading", "no_stream", "check", "checked", "writing",
           "ending", "chown", "chmod", "closed", "gone"}

AnyBlock == [by : Managers \cup {Nobody}, num : Nat]

File == [data : Seq(AnyBlock), set : SUBSET {"owner", "mode"}]

InitialData == [i \in 1 .. Blocks |-> Block(Nobody, i)]

AnyRequest == CHOOSE r \in Requests : TRUE

Init ==
  /\ pc = [m \in Managers |-> "idle"]
  /\ req = [m \in Managers |-> AnyRequest]
  /\ known = [m \in Managers |-> {}]
  /\ dir = [m \in Managers |-> 1]
  /\ filename = [m \in Managers |-> <<Dirs[1], AnyRequest.name>>]
  /\ size = [m \in Managers |-> 0]
  /\ served = [m \in Managers |-> <<>>]
  /\ opened = [m \in Managers |-> FALSE]
  /\ pos = [m \in Managers |-> 0]
  /\ put = [m \in Managers |-> 0]
  /\ stored = [m \in Managers |-> {}]
  /\ disk = [p \in Initial |-> [data |-> InitialData, set |-> {}]]

Next ==
  \/ \E m \in Managers :
       \/ Begin(m) \/ SearchMd5(m) \/ SearchName(m)
       \/ OpenProbe(m) \/ Reopen(m) \/ KeepSize(m)
       \/ CheckWrite(m) \/ OpenWrite(m) \/ OpenWriteFails(m)
       \/ Read(m) \/ ReadFails(m)
       \/ Write(m) \/ WriteElsewhere(m) \/ WriteFails(m) \/ Flush(m)
       \/ CloseStreams(m) \/ Chown(m) \/ Chmod(m)
  \/ Crash

Spec == Init /\ [][Next]_vars

-----------------------------------------------------------------------------
TypeOK ==
  /\ pc \in [Managers -> Places]
  /\ req \in [Managers -> Requests]
  /\ known \in [Managers -> SUBSET Path]
  /\ dir \in [Managers -> 1 .. Len(Dirs)]
  /\ filename \in [Managers -> Path]
  /\ size \in [Managers -> Nat]
  /\ \A m \in Managers : /\ DOMAIN served[m] \subseteq 1 .. Blocks
                         /\ \A i \in DOMAIN served[m] : served[m][i] \in AnyBlock
  /\ opened \in [Managers -> BOOLEAN]
  /\ pos \in [Managers -> 0 .. Blocks]
  /\ put \in [Managers -> 0 .. Blocks]
  /\ stored \in [Managers -> SUBSET (1 .. Blocks)]
  /\ DOMAIN disk \subseteq Path
  /\ \A p \in DOMAIN disk : disk[p] \in File

(* A file that was there before the server started keeps its content,      *)
(* whatever uploads, refused uploads and crashes there are: init() refuses *)
(* every upload to it.                                                     *)
InitialKept ==
  \A p \in Initial : exists(p) /\ disk[p].data = InitialData

(* No upload to p is under way.                                            *)
Settled(p) ==
  \A m \in Managers :
    filename[m] = p => pc[m] # "checked" /\ (opened[m] => pc[m] \notin {"writing", "ending"})

(* A file that no upload is writing keeps its content for good, whether    *)
(* its upload was closed, failed or was cut off by the end of the process: *)
(* a request that is repeated, or comes again after the restart, finds the *)
(* file and is refused by init(), and the close() of a refused upload      *)
(* writes nothing.                                                         *)
FinalForGood ==
  [][\A p \in DOMAIN disk :
       Settled(p) => Settled(p)' /\ p \in DOMAIN disk' /\ disk'[p].data = disk[p].data]_vars

(* Two uploads have opened the file: both had found none.                  *)
Raced(p) ==
  \E m, n \in Managers :
    m # n /\ opened[m] /\ opened[n] /\ filename[m] = p /\ filename[n] = p

(* The blocks of S are in data, each at its place, and zeros between them. *)
Holds(data, m, S) ==
  /\ Len(data) \in S \cup {0}
  /\ \A i \in S : i <= Len(data) /\ data[i] = Block(m, i)
  /\ \A i \in 1 .. Len(data) : i \in S \/ data[i] = Hole

(* The blocks for which write() has returned without an error.             *)
Written(m) == stored[m] \cup (put[m] + 1 .. pos[m])

(* Once close() has closed file_out_ the file has every block that write() *)
(* took, each at its place, in whatever order they came, and nothing else, *)
(* for good, unless two uploads raced for it.                              *)
ClosedIsWhole ==
  \A m \in Managers :
    pc[m] \in {"chown", "chmod", "closed"} /\ opened[m] /\ ~Raced(filename[m])
    => Holds(disk[filename[m]].data, m, Written(m))

(* Even a file that two uploads race for, or that a crash has cut off, has *)
(* no block at another place than its own, and none of an upload to        *)
(* another file.                                                           *)
UploadedInPlace ==
  \A p \in DOMAIN disk \ Initial :
    \A i \in 1 .. Len(disk[p].data) :
      \/ disk[p].data[i] = Hole
      \/ \E m \in Managers :
           opened[m] /\ filename[m] = p /\ disk[p].data[i] = Block(m, i)

(* What a download has read stands in the file at that place: file_size_   *)
(* never lets it run past what is there, though another session may still  *)
(* be writing.  A block that an upload left out and brought later may have *)
(* been read as zeros.  Two uploads that race for the file are left out.   *)
ServedFromFile ==
  \A m \in Managers :
    pc[m] = "reading" /\ ~Raced(filename[m]) =>
      LET data == disk[filename[m]].data
      IN  \A i \in DOMAIN served[m] :
            /\ i <= Len(data)
            /\ \/ served[m][i] = data[i]
               \/ served[m][i] = Hole /\ filename[m] \notin Initial

(* .md5 files of a directory that name the sum, with a file to serve.      *)
HasSum(d, sum, files) ==
  \E f \in Md5Files :
    f.dir = d /\ f.sum = sum /\ {f.companion, f.listed} \cap files # {}

(* The search goes from the root directory through the others in their     *)
(* order, first by sum and then by name: nothing is served while a file    *)
(* that comes before it was there when the request came, however other     *)
(* sessions create files during the search.                                *)
SearchOrder ==
  \A m \in Managers :
    pc[m] \in {"found", "probed", "reopened", "unopened", "reading", "no_stream"} =>
    LET name   == req[m].name
        before == {Dirs[i] : i \in 1 .. dir[m] - 1}
        bySum  == name \in Sums
                  /\ \E f \in Md5Files : f.dir = Dirs[dir[m]] /\ f.sum = name
                       /\ filename[m] \in {f.companion, f.listed}
    IN  IF bySum THEN \A d \in before : ~HasSum(d, name, known[m])
        ELSE /\ \A d \in before : <<d, name>> \notin known[m]
             /\ name \in Sums => \A d \in DirSet : ~HasSum(d, name, known[m])

(* "Set permissions for created files": close() changes owner and          *)
(* permissions of no file that it did not create.                          *)
OnlyCreatedChanged == \A p \in Initial : disk[p].set = {}

=============================================================================
