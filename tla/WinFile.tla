------------------------------- MODULE WinFile -------------------------------
(***************************************************************************)
(* Files on Windows: open, close, read, write and truncate of src/win/fs.c *)
(* and the table of src/win/fs-fd-hash-inl.h.  A file that was opened with *)
(* UV_FS_O_FILEMAP is read and written through a mapping; its position,    *)
(* size and mapping live in the table, from which an operation takes a     *)
(* copy, and to which it writes the copy back.  Positional operations on   *)
(* other files move the file pointer and put it back.                      *)
(*                                                                         *)
(* The operations run on the threads of the pool.  The user runs one       *)
(* operation at a time on a descriptor: two at once may lose a position or *)
(* close a mapping twice.  A path is open once at a time.  A buffer holds  *)
(* one byte; a write writes its number.  The descriptors 0 to 2, which     *)
(* fs__close spares, are not used.                                         *)
(***************************************************************************)
EXTENDS Integers, Sequences, FiniteSets

CONSTANTS
  Workers,    \* the threads of the pool
  Paths,      \* the files, none of which exists at first, except for Dir
  Dir,        \* the path of a directory
  Opens,      \* the paths and flags that the user gives to uv_fs_open
  HashSize,   \* UV__FD_HASH_SIZE
  GroupSize,  \* UV__FD_HASH_GROUP_SIZE
  Offsets,    \* positions of positional reads and writes
  Sizes,      \* lengths given to uv_fs_ftruncate
  MaxLen,     \* buffers of a read or a write
  MaxUse      \* bound: operations and failures of system calls

VARIABLES
  hash,   \* uv__fd_hash
  file,   \* the descriptors
  disk,   \* what the paths name
  maps,   \* mapping handles: the descriptor each was made for, 0 if closed
  work,   \* what the threads do
  hist,   \* history, see Init
  uses

vars == <<hash, file, disk, maps, work, hist, uses>>

Fds == 3 .. (2 + Cardinality(Paths))
Mappings == 1 .. (Cardinality(Paths) + MaxUse)
Invalid == 0                                     \* INVALID_HANDLE_VALUE
NoInfo == [flags |-> {}, dir |-> FALSE, map |-> Invalid, size |-> 0, pos |-> 0]
NoEntry == [fd |-> 0, info |-> NoInfo]
NoFile == [path |-> "", flags |-> {}, access |-> {}, alive |-> FALSE, pos |-> 0, temp |-> FALSE]
Idle == [op |-> "idle", step |-> "idle", fd |-> 0, off |-> -1, n |-> 0, sym |-> 0, at |-> 0, i |-> 0,
         info |-> NoInfo, bytes |-> <<>>, failed |-> FALSE]
Absent == [kind |-> "none", data |-> <<>>, ro |-> FALSE]

Min2(a, b) == IF a < b THEN a ELSE b
Group == [i \in 1 .. GroupSize |-> NoEntry]
EmptyBucket == [size |-> 0, groups |-> <<Group>>]

(***************************************************************************)
(* hist: broken   descriptors whose handle an error path closed            *)
(*       data, pos   what each path holds and where each descriptor        *)
(*                stands according to POSIX                                *)
(*       wrong    operations that answered what POSIX forbids              *)
(*       closes   a handle was closed that the descriptor does not own     *)
(***************************************************************************)
Init ==
  /\ hash = [b \in 0 .. (HashSize - 1) |-> EmptyBucket]
  /\ file = [fd \in Fds |-> NoFile]
  /\ disk = [p \in Paths |-> IF p = Dir THEN [Absent EXCEPT !.kind = "dir"] ELSE Absent]
  /\ maps = [m \in Mappings |-> 0]
  /\ work = [w \in Workers |-> Idle]
  /\ hist = [broken |-> {}, wrong |-> {}, closes |-> FALSE,
             data |-> [p \in Paths |-> <<>>], pos |-> [fd \in Fds |-> 0]]
  /\ uses = 0

----------------------------------------------------------------------------
(* The table. *)

FirstGroupSize(b) ==
  IF b.size # 0 /\ b.size % GroupSize = 0 THEN GroupSize ELSE b.size % GroupSize

Slots(b) ==
  ({1} \X (1 .. FirstGroupSize(b))) \cup ((2 .. Len(b.groups)) \X (1 .. GroupSize))

Find(b, fd) == {s \in Slots(b) : b.groups[s[1]][s[2]].fd = fd}

HashHas(fd) == Find(hash[fd % HashSize], fd) # {}

HashGet(fd) ==
  LET b == hash[fd % HashSize]
      s == CHOOSE s \in Find(b, fd) : TRUE
  IN b.groups[s[1]][s[2]].info

HashAdd(fd, info) ==
  LET k == fd % HashSize
      b == hash[k]
      i == b.size % GroupSize
      s == CHOOSE s \in Find(b, fd) : TRUE
  IN IF Find(b, fd) # {}
     THEN [hash EXCEPT ![k].groups[s[1]][s[2]].info = info]
     ELSE LET gs == IF b.size # 0 /\ i = 0 THEN <<Group>> \o b.groups ELSE b.groups
          IN [hash EXCEPT ![k] = [size |-> b.size + 1,
                                  groups |-> [gs EXCEPT ![1][i + 1] = [fd |-> fd, info |-> info]]]]

HashRemoveTail(fd) ==
  LET k == fd % HashSize
      b == hash[k]
      n == b.size - 1
      s == CHOOSE s \in Find(b, fd) : TRUE
      gs == [b.groups EXCEPT ![s[1]][s[2]] = b.groups[s[1]][(n % GroupSize) + 1]]
  IN [hash EXCEPT ![k] = [size |-> n,
                          groups |-> IF n # 0 /\ n % GroupSize = 0 THEN Tail(gs) ELSE gs]]

\* uv__fd_hash_remove: the last entry of the first group takes the place.
HashRemove(fd) ==
  LET k == fd % HashSize
      b == hash[k]
      n == b.size - 1
      s == CHOOSE s \in Find(b, fd) : TRUE
      gs == [b.groups EXCEPT ![s[1]][s[2]] = b.groups[1][(n % GroupSize) + 1]]
  IN [hash EXCEPT ![k] = [size |-> n,
                          groups |-> IF n # 0 /\ n % GroupSize = 0 THEN Tail(gs) ELSE gs]]

----------------------------------------------------------------------------
(* The flags of uv_fs_open. *)

Rw(fl) == fl \cap {"WRONLY", "RDWR"}

\* A mapping needs read access, and the position of an append is computed.
AdjustForMap(fl) ==
  LET g == IF Rw(fl) = {"WRONLY"} THEN (fl \ {"WRONLY"}) \cup {"RDWR"} ELSE fl
  IN IF "FILEMAP" \notin fl THEN fl
     ELSE IF "APPEND" \in g THEN (g \ {"APPEND", "WRONLY"}) \cup {"RDWR"} ELSE g

Generic(fl) ==
  IF Rw(fl) = {} THEN {"READ"}
  ELSE IF Rw(fl) = {"WRONLY"} THEN {"WRITE", "APPEND"} ELSE {"READ", "WRITE", "APPEND"}

Appending(fl) ==
  IF "APPEND" \in fl THEN (Generic(fl) \ {"WRITE"}) \cup {"APPEND"} ELSE Generic(fl)

OpenFlagsInvalid(fl) ==
  \/ Cardinality(Rw(fl)) = 2
  \/ {"SEQUENTIAL", "RANDOM"} \subseteq fl
  \/ {"SYNC", "DSYNC"} \subseteq fl
  \/ "DIRECT" \in fl /\ "APPEND" \in Appending(fl) /\ "WRITE" \notin Appending(fl)

DesiredAccess(fl) ==
  (Appending(fl) \ (IF "DIRECT" \in fl THEN {"APPEND"} ELSE {}))
    \cup (IF "TEMPORARY" \in fl THEN {"DELETE"} ELSE {})

DispositionLax(fl) ==
  LET c == fl \cap {"CREAT", "EXCL", "TRUNC"}
  IN IF c = {"CREAT"} \/ c = {"CREAT", "EXCL"} THEN "OPEN_ALWAYS"
     ELSE IF "CREAT" \notin c THEN (IF "TRUNC" \in c THEN "TRUNCATE_EXISTING" ELSE "OPEN_EXISTING")
     ELSE IF "EXCL" \in c THEN "CREATE_NEW" ELSE "CREATE_ALWAYS"

Disposition(fl) ==
  LET c == fl \cap {"CREAT", "EXCL", "TRUNC"}
  IN IF c = {"CREAT"} THEN "OPEN_ALWAYS"
     ELSE IF "CREAT" \notin c THEN (IF "TRUNC" \in c THEN "TRUNCATE_EXISTING" ELSE "OPEN_EXISTING")
     ELSE IF "EXCL" \in c THEN "CREATE_NEW" ELSE "CREATE_ALWAYS"

\* NOWRITE: the mode, less the umask, has no write permission.
ReadOnlyAttribute(fl) == {"CREAT", "NOWRITE"} \subseteq fl

\* CreateFileW: an error or what the path names then.
CreateFile(x, access, disposition, ro) ==
  CASE x.kind = "none" /\ disposition \in {"OPEN_EXISTING", "TRUNCATE_EXISTING"} -> <<"ENOENT">>
    [] x.kind = "none" /\ disposition \in {"OPEN_ALWAYS", "CREATE_NEW", "CREATE_ALWAYS"} ->
         <<"ok", [kind |-> "file", data |-> <<>>, ro |-> ro]>>
    [] x.kind # "none" /\ disposition = "CREATE_NEW" -> <<"FILE_EXISTS">>
    [] x.kind = "dir" /\ disposition = "CREATE_ALWAYS" -> <<"FILE_EXISTS">>
    [] x.kind = "dir" /\ disposition = "TRUNCATE_EXISTING" -> <<"EACCES">>
    [] x.kind = "dir" /\ disposition \in {"OPEN_EXISTING", "OPEN_ALWAYS"} -> <<"ok", x>>
    [] x.kind = "file" /\ disposition \notin {"CREATE_NEW"} ->
         IF x.ro /\ (access \cap {"WRITE", "APPEND"} # {} \/ disposition = "CREATE_ALWAYS")
           THEN <<"EACCES">>
         ELSE IF disposition = "TRUNCATE_EXISTING" /\ "WRITE" \notin access THEN <<"EINVAL">>
         ELSE <<"ok", IF disposition \in {"TRUNCATE_EXISTING", "CREATE_ALWAYS"}
                      THEN [x EXCEPT !.data = <<>>] ELSE x>>

OpenError(e, fl) ==
  IF e # "FILE_EXISTS" THEN e
  ELSE IF "CREAT" \in fl /\ "EXCL" \notin fl THEN "EISDIR" ELSE "EEXIST"

----------------------------------------------------------------------------
(* POSIX: the reference. *)

PosixOpenError(x, fl) ==
  IF x.kind = "none" THEN (IF "CREAT" \in fl THEN {} ELSE {"ENOENT"})
  ELSE IF {"CREAT", "EXCL"} \subseteq fl THEN {"EEXIST"}
  ELSE IF x.kind = "dir" THEN (IF "TRUNC" \in fl THEN {"EISDIR", "EACCES"} ELSE {})
  ELSE IF x.ro /\ Rw(fl) # {} THEN {"EACCES"} ELSE {}

PosixPos(fd, off) == IF off = -1 THEN hist.pos[fd] ELSE off

PosixRead(data, pos, n) == SubSeq(data, pos + 1, Min2(pos + n, Len(data)))

Overwrite(data, pos, bytes) ==
  [i \in 1 .. (IF pos + Len(bytes) > Len(data) THEN pos + Len(bytes) ELSE Len(data)) |->
     IF i \in (pos + 1) .. (pos + Len(bytes)) THEN bytes[i - pos]
     ELSE IF i <= Len(data) THEN data[i] ELSE 0]

Resize(data, n) == [i \in 1 .. n |-> IF i <= Len(data) THEN data[i] ELSE 0]

----------------------------------------------------------------------------
(* What the threads share. *)

\* The first thread that is idle takes an operation.
Free(w) == work[w] = Idle /\ \A v \in Workers : v < w => work[v] # Idle
At(w, ops, step) == work[w].op \in ops /\ work[w].step = step
Goes(w, o) == work' = [work EXCEPT ![w] = o]
Fails(b) == IF b THEN uses < MaxUse /\ uses' = uses + 1 ELSE uses' = uses
Data(fd) == disk[file[fd].path].data

\* CreateFileMapping hands out a handle that is free; CloseHandle frees one.
CanMap(ms) == \E m \in Mappings : ms[m] = 0
NewMap(ms) == CHOOSE m \in Mappings : ms[m] = 0
CloseMap(ms, m) == IF m = Invalid THEN ms ELSE [ms EXCEPT ![m] = 0]
Closes(m, fd) == hist.closes \/ (m # Invalid /\ maps[m] # fd)

\* The entry after an error that closed the handle of the descriptor.
Reset(info) == [info EXCEPT !.map = Invalid, !.size = 0, !.pos = 0]

Wrong(h, w, bad) ==
  IF bad /\ work[w].fd \notin h.broken
  THEN [h EXCEPT !.wrong = @ \cup {work[w].op}] ELSE h

(***************************************************************************)
(* The request has its result.  A read answers bytes, a write a number,    *)
(* and each may answer less than it should only if a system call failed.   *)
(***************************************************************************)
Forbidden(o, rw) == Rw(file[o.fd].flags) = rw \/ file[o.fd].path = Dir

ReadEnds(w, ok, got) ==
  LET o == work[w]
      right == PosixRead(hist.data[file[o.fd].path], PosixPos(o.fd, o.off), o.n)
      bad == \/ ok = Forbidden(o, {"WRONLY"}) /\ (ok \/ ~o.failed)
             \/ ok /\ got # right /\ ~(o.failed /\ got = SubSeq(right, 1, Len(got)))
  IN /\ hist' = Wrong(IF ok /\ o.off = -1 THEN [hist EXCEPT !.pos[o.fd] = @ + Len(got)] ELSE hist, w, bad)
     /\ Goes(w, Idle)

WriteEnds(w, ok, n) ==
  LET o == work[w]
      f == file[o.fd]
      old == hist.data[f.path]
      from == IF "APPEND" \in f.flags THEN Len(old) ELSE PosixPos(o.fd, o.off)
      new == IF ok THEN Overwrite(old, from, [i \in 1 .. n |-> o.sym]) ELSE old
      bad == \/ ok = Forbidden(o, {}) /\ (ok \/ ~o.failed)
             \/ ~o.failed /\ (Data(o.fd) # new \/ (ok /\ n # o.n))
  IN /\ hist' = Wrong([hist EXCEPT !.data[f.path] = Data(o.fd),
                                   !.pos[o.fd] = IF ok /\ o.off = -1 THEN from + n ELSE @], w, bad)
     /\ Goes(w, Idle)

TruncateEnds(w, ok) ==
  LET o == work[w]
      old == hist.data[file[o.fd].path]
      bad == \/ ok /\ (Forbidden(o, {}) \/ Data(o.fd) # Resize(old, o.n))
             \/ ~ok /\ ~o.failed /\ Data(o.fd) # old
  IN /\ hist' = Wrong([hist EXCEPT !.data[file[o.fd].path] = Data(o.fd)], w, bad)
     /\ Goes(w, Idle)

----------------------------------------------------------------------------
(* uv_fs_open *)

Lowest == CHOOSE fd \in Fds : file[fd].path = "" /\ \A g \in Fds : file[g].path = "" => fd <= g

\* fs__open: CreateFileW, then _open_osfhandle, which may have no descriptor.
Open(w, p, fl) ==
  LET g == AdjustForMap(fl)
      r == CreateFile(disk[p], DesiredAccess(g), Disposition(g), ReadOnlyAttribute(g))
      expect == PosixOpenError(disk[p], fl)
      fd == Lowest
      misled == IF r[1] # "ok" THEN OpenError(r[1], g) \notin (expect \cup {"EINVAL"})
                ELSE \/ expect # {}
                     \/ r[2].data # (IF "TRUNC" \in fl THEN <<>> ELSE disk[p].data)
      h == IF misled THEN [hist EXCEPT !.wrong = @ \cup {"open"}] ELSE hist
  IN /\ Free(w) /\ uses < MaxUse /\ \A d \in Fds : file[d].path # p
     /\ uses' = uses + 1
     /\ IF OpenFlagsInvalid(g) THEN UNCHANGED <<file, disk, work, hist>>
        ELSE IF r[1] # "ok" THEN hist' = h /\ UNCHANGED <<file, disk, work>>
        ELSE \E full \in BOOLEAN :
             /\ disk' = [disk EXCEPT ![p] = r[2]]
             /\ hist' = [h EXCEPT !.data[p] = r[2].data, !.pos[fd] = IF full THEN @ ELSE 0]
             /\ IF full THEN UNCHANGED <<file, work>>
                ELSE /\ file' = [file EXCEPT ![fd] = [path |-> p, flags |-> fl, access |-> DesiredAccess(g),
                                                      alive |-> TRUE, pos |-> 0, temp |-> "TEMPORARY" \in fl]]
                     /\ Goes(w, IF "FILEMAP" \in fl THEN [Idle EXCEPT !.op = "open", !.fd = fd] ELSE Idle)
     /\ UNCHANGED <<hash, maps>>

\* The rest of fs__open for UV_FS_O_FILEMAP.  If a call fails the handle is
\* closed and the descriptor stays.
OpenMap(w) ==
  LET fd == work[w].fd
      n == Len(Data(fd))
      info == [NoInfo EXCEPT !.flags = file[fd].flags, !.dir = file[fd].path = Dir, !.size = n,
                             !.map = IF n = 0 THEN Invalid ELSE NewMap(maps)]
  IN /\ work[w].op = "open" /\ CanMap(maps)
     /\ \E fails \in BOOLEAN :
          /\ Fails(fails)
          /\ IF fails
             THEN /\ file' = [file EXCEPT ![fd].alive = FALSE]
                  /\ hist' = [hist EXCEPT !.broken = @ \cup {fd}]
                  /\ UNCHANGED <<hash, maps>>
             ELSE /\ maps' = IF n = 0 THEN maps ELSE [maps EXCEPT ![info.map] = fd]
                  /\ hash' = HashAdd(fd, info)
                  /\ UNCHANGED <<file, hist>>
     /\ Goes(w, Idle)
     /\ UNCHANGED disk

----------------------------------------------------------------------------
(* The other operations begin: the user names a descriptor that it has.    *)

Busy(fd) == {w \in Workers : work[w].fd = fd}

Begin(w, op, fd, off, n) ==
  /\ Free(w) /\ uses < MaxUse /\ file[fd].path # "" /\ Busy(fd) = {}
  /\ uses' = uses + 1
  /\ Goes(w, [Idle EXCEPT !.op = op, !.step = "get", !.fd = fd, !.off = off, !.n = n, !.sym = uses + 1])
  /\ UNCHANGED <<hash, file, disk, maps, hist>>

Use(w) ==
  \/ \E x \in Opens : Open(w, x[1], x[2])
  \/ \E fd \in Fds :
       \/ Begin(w, "close", fd, -1, 0)
       \/ \E n \in Sizes : Begin(w, "truncate", fd, -1, n)
       \/ \E op \in {"read", "write"}, off \in Offsets \cup {-1} : Begin(w, op, fd, off, MaxLen)

\* uv__fd_hash_get: a copy of the entry, or the plain path, where a positional
\* operation keeps the file pointer.
Get(w) ==
  LET o == work[w] IN
  /\ At(w, {"read", "write"}, "get")
  /\ Goes(w, IF HashHas(o.fd) THEN [o EXCEPT !.info = HashGet(o.fd), !.step = "view"]
             ELSE [o EXCEPT !.at = file[o.fd].pos, !.step = "io"])
  /\ UNCHANGED <<hash, file, disk, maps, hist, uses>>

----------------------------------------------------------------------------
(* Files without a mapping. *)

\* One turn of the loop of fs__read.  At the end of the file ReadFile with an
\* offset fails with ERROR_HANDLE_EOF.
PlainRead(w) ==
  LET o == work[w]
      f == file[o.fd]
      from == IF o.off # -1 THEN o.off + Len(o.bytes) ELSE f.pos
      more == from < Len(Data(o.fd))
  IN /\ At(w, {"read"}, "io")
     /\ \E fails \in BOOLEAN :
          LET allowed == f.alive /\ "READ" \in f.access /\ f.path # Dir /\ ~fails
              got == IF allowed /\ more THEN Append(o.bytes, Data(o.fd)[from + 1]) ELSE o.bytes
              again == allowed /\ (more \/ o.off = -1) /\ o.i + 1 < o.n
          IN /\ Fails(fails)
             /\ Goes(w, [o EXCEPT !.bytes = got, !.failed = @ \/ fails, !.i = @ + 1,
                                  !.step = IF again THEN "io"
                                           ELSE IF allowed \/ got # <<>> THEN "ok" ELSE "error"])
             /\ file' = IF allowed /\ more THEN [file EXCEPT ![o.fd].pos = from + 1] ELSE file
     /\ UNCHANGED <<hash, disk, maps, hist>>

\* One turn of the loop of fs__write.  Without FILE_WRITE_DATA it goes to the end.
PlainWrite(w) ==
  LET o == work[w]
      f == file[o.fd]
      from == IF "WRITE" \notin f.access THEN Len(Data(o.fd))
              ELSE IF o.off # -1 THEN o.off + Len(o.bytes) ELSE f.pos
  IN /\ At(w, {"write"}, "io")
     /\ \E fails \in BOOLEAN :
          LET allowed == f.alive /\ f.access \cap {"WRITE", "APPEND"} # {} /\ f.path # Dir /\ ~fails
              put == IF allowed THEN Append(o.bytes, o.sym) ELSE o.bytes
          IN /\ Fails(fails)
             /\ Goes(w, [o EXCEPT !.bytes = put, !.failed = @ \/ fails,
                                  !.step = IF allowed /\ Len(put) < o.n THEN "io"
                                           ELSE IF allowed \/ put # <<>> THEN "ok" ELSE "error"])
             /\ file' = IF allowed THEN [file EXCEPT ![o.fd].pos = from + 1] ELSE file
             /\ disk' = IF allowed THEN [disk EXCEPT ![f.path].data = Overwrite(@, from, <<o.sym>>)] ELSE disk
     /\ UNCHANGED <<hash, maps, hist>>

Restore(o) == IF o.off # -1 THEN [file EXCEPT ![o.fd].pos = o.at] ELSE file

\* The file pointer goes back, and the request has its result.
PlainEnds(w) ==
  LET o == work[w] IN
  /\ o.op \in {"read", "write"} /\ o.step \in {"ok", "error"}
  /\ file' = Restore(o)
  /\ IF o.op = "read" THEN ReadEnds(w, o.step = "ok", o.bytes) ELSE WriteEnds(w, o.step = "ok", Len(o.bytes))
  /\ UNCHANGED <<hash, disk, maps, uses>>

----------------------------------------------------------------------------
(* Files with a mapping: the work is done with the copy of the entry.      *)

\* fs__read_filemap up to UnmapViewOfFile.
ReadView(w) ==
  LET o == work[w]
      info == o.info
      pos == IF o.off = -1 THEN info.pos ELSE o.off
      end == Min2(pos + o.n, info.size)
  IN /\ At(w, {"read"}, "view")
     /\ \/ /\ Rw(info.flags) = {"WRONLY"} \/ info.dir \/ pos >= info.size
           /\ Goes(w, [o EXCEPT !.step = IF Rw(info.flags) = {"WRONLY"} \/ info.dir THEN "refused" ELSE "end"])
           /\ UNCHANGED uses
        \/ /\ ~(Rw(info.flags) = {"WRONLY"} \/ info.dir \/ pos >= info.size)
           /\ \E fails \in BOOLEAN :
                /\ Fails(fails)
                /\ Goes(w, [o EXCEPT !.bytes = SubSeq(Data(o.fd), pos + 1, end), !.at = end, !.failed = fails,
                                     !.step = IF fails THEN "refused" ELSE "put"])
     /\ UNCHANGED <<hash, file, disk, maps, hist>>

\* A sequential read moves the position of its copy, and puts that back.
ReadPutAny(w) ==
  LET o == work[w] IN
  /\ o.op = "read" /\ o.step \in {"put", "end", "refused"}
  /\ hash' = IF o.step = "put" THEN HashAdd(o.fd, [o.info EXCEPT !.pos = o.at]) ELSE hash
  /\ ReadEnds(w, o.step # "refused", o.bytes)
  /\ UNCHANGED <<file, disk, maps, uses>>

ReadPut(w) ==
  LET o == work[w] IN
  /\ o.op = "read" /\ o.step \in {"put", "end", "refused"}
  /\ hash' = IF o.step = "put" /\ o.off = -1 THEN HashAdd(o.fd, [o.info EXCEPT !.pos = o.at]) ELSE hash
  /\ ReadEnds(w, o.step # "refused", o.bytes)
  /\ UNCHANGED <<file, disk, maps, uses>>

\* fs__write_filemap up to the new mapping, which a larger file needs.
WriteGrow(w) ==
  LET o == work[w]
      info == o.info
      pos == IF "APPEND" \in info.flags THEN info.size ELSE IF o.off = -1 THEN info.pos ELSE o.off
      end == pos + o.n
      left == CloseMap(maps, info.map)
      grown == [info EXCEPT !.map = NewMap(left), !.size = end]
  IN /\ At(w, {"write"}, "view")
     /\ IF Rw(info.flags) = {} \/ info.dir
        THEN Goes(w, [o EXCEPT !.step = "refused"]) /\ UNCHANGED <<hash, file, disk, maps, hist, uses>>
        ELSE IF end <= info.size
        THEN Goes(w, [o EXCEPT !.at = pos, !.step = "copy"]) /\ UNCHANGED <<hash, file, disk, maps, hist, uses>>
        ELSE \E fails \in BOOLEAN :
             /\ Fails(fails) /\ (fails \/ CanMap(left))
             /\ IF fails \/ ~file[o.fd].alive
                THEN /\ maps' = left
                     /\ hash' = HashAdd(o.fd, Reset(info))
                     /\ file' = [file EXCEPT ![o.fd].alive = FALSE]
                     /\ Goes(w, [o EXCEPT !.failed = TRUE, !.step = "refused"])
                     /\ UNCHANGED disk
                ELSE /\ maps' = [left EXCEPT ![grown.map] = o.fd]
                     /\ hash' = HashAdd(o.fd, grown)
                     /\ disk' = [disk EXCEPT ![file[o.fd].path].data = IF Len(@) < end THEN Resize(@, end) ELSE @]
                     /\ Goes(w, [o EXCEPT !.info = grown, !.at = pos, !.step = "copy"])
                     /\ UNCHANGED file
             /\ hist' = [hist EXCEPT !.closes = Closes(info.map, o.fd),
                                     !.broken = IF fails \/ ~file[o.fd].alive THEN @ \cup {o.fd} ELSE @]

\* The view, the copy and the flush; each may fail.
WriteView(w) ==
  LET o == work[w] IN
  /\ At(w, {"write"}, "copy")
  /\ \E fails, copied \in BOOLEAN :
       /\ Fails(fails) /\ (fails \/ copied)
       /\ disk' = IF copied THEN [disk EXCEPT ![file[o.fd].path].data =
                                    Overwrite(@, o.at, [i \in 1 .. o.n |-> o.sym])] ELSE disk
       /\ Goes(w, [o EXCEPT !.failed = fails, !.step = IF fails THEN "refused" ELSE "put"])
  /\ UNCHANGED <<hash, file, maps, hist>>

WritePut(w) ==
  LET o == work[w] IN
  /\ o.op = "write" /\ o.step \in {"put", "refused"}
  /\ hash' = IF o.step = "put" /\ o.off = -1 THEN HashAdd(o.fd, [o.info EXCEPT !.pos = o.at + o.n]) ELSE hash
  /\ WriteEnds(w, o.step = "put", o.n)
  /\ UNCHANGED <<file, disk, maps, uses>>

----------------------------------------------------------------------------
(* uv_fs_ftruncate *)

TruncateGetOpen(w) ==
  LET o == work[w]
      info == IF HashHas(o.fd) THEN HashGet(o.fd) ELSE NoInfo
  IN /\ At(w, {"truncate"}, "get")
     /\ Goes(w, [o EXCEPT !.info = info, !.step = IF info.dir THEN "refused" ELSE "set"])
     /\ UNCHANGED <<hash, file, disk, maps, hist, uses>>

\* The mapping goes before the file changes its size.
TruncateGet(w) ==
  LET o == work[w]
      info == IF HashHas(o.fd) THEN HashGet(o.fd) ELSE NoInfo
  IN /\ At(w, {"truncate"}, "get")
     /\ Goes(w, [o EXCEPT !.info = info, !.step = IF info.dir THEN "refused" ELSE "set"])
     /\ maps' = CloseMap(maps, info.map)
     /\ hist' = [hist EXCEPT !.closes = Closes(info.map, o.fd)]
     /\ UNCHANGED <<hash, file, disk, uses>>

\* NtSetInformationFile, which needs FILE_WRITE_DATA.
TruncateSet(w) ==
  LET o == work[w]
      f == file[o.fd]
      mapped == o.info.flags # {}
  IN /\ At(w, {"truncate"}, "set")
     /\ \E fails \in BOOLEAN :
          /\ Fails(fails)
          /\ IF f.alive /\ "WRITE" \in f.access /\ f.path # Dir /\ ~fails
             THEN /\ disk' = [disk EXCEPT ![f.path].data = Resize(@, o.n)]
                  /\ Goes(w, [o EXCEPT !.step = "map"])
                  /\ UNCHANGED <<hash, file, hist>>
             ELSE /\ Goes(w, [o EXCEPT !.failed = fails, !.step = "refused"])
                  /\ IF mapped
                     THEN /\ hash' = HashAdd(o.fd, Reset(o.info))
                          /\ file' = [file EXCEPT ![o.fd].alive = FALSE]
                          /\ hist' = [hist EXCEPT !.broken = @ \cup {o.fd}]
                     ELSE UNCHANGED <<hash, file, hist>>
                  /\ UNCHANGED disk
     /\ UNCHANGED maps

TruncateMap(w) ==
  LET o == work[w]
      wants == o.info.flags # {} /\ o.n # 0
      info == [o.info EXCEPT !.size = o.n, !.map = IF wants THEN NewMap(maps) ELSE Invalid]
  IN /\ At(w, {"truncate"}, "map") /\ (wants => CanMap(maps))
     /\ \E fails \in BOOLEAN :
          /\ Fails(fails) /\ (fails => wants)
          /\ hash' = IF o.info.flags = {} THEN hash ELSE HashAdd(o.fd, IF fails THEN Reset(info) ELSE info)
          /\ maps' = IF wants /\ ~fails THEN [maps EXCEPT ![info.map] = o.fd] ELSE maps
          /\ file' = IF fails THEN [file EXCEPT ![o.fd].alive = FALSE] ELSE file
          /\ hist' = IF fails THEN [hist EXCEPT !.broken = @ \cup {o.fd}] ELSE hist
          /\ Goes(w, [o EXCEPT !.failed = fails, !.step = IF fails THEN "refused" ELSE "ok"])
     /\ UNCHANGED disk

TruncateDone(w) ==
  /\ work[w].op = "truncate" /\ work[w].step \in {"ok", "refused"}
  /\ TruncateEnds(w, work[w].step = "ok")
  /\ UNCHANGED <<hash, file, disk, maps, uses>>

----------------------------------------------------------------------------
(* uv_fs_close *)

\* The entry goes first: another thread may get the descriptor once it is closed.
CloseEntry(w) ==
  LET o == work[w]
      map == IF HashHas(o.fd) THEN HashGet(o.fd).map ELSE Invalid
  IN /\ At(w, {"close"}, "get")
     /\ hash' = IF HashHas(o.fd) THEN HashRemove(o.fd) ELSE hash
     /\ maps' = CloseMap(maps, map)
     /\ hist' = [hist EXCEPT !.closes = Closes(map, o.fd)]
     /\ Goes(w, [o EXCEPT !.step = "close"])
     /\ UNCHANGED <<file, disk, uses>>

\* _close; a temporary file goes with its handle.
CloseFd(w) ==
  LET fd == work[w].fd
      f == file[fd]
  IN /\ At(w, {"close"}, "close")
     /\ file' = [file EXCEPT ![fd] = NoFile]
     /\ disk' = IF f.temp /\ f.path # Dir THEN [disk EXCEPT ![f.path] = Absent] ELSE disk
     /\ hist' = [hist EXCEPT !.broken = @ \ {fd},
                             !.data = IF f.temp THEN [@ EXCEPT ![f.path] = <<>>] ELSE @]
     /\ Goes(w, Idle)
     /\ UNCHANGED <<hash, maps, uses>>

Step(w) ==
  \/ OpenMap(w) \/ Get(w) \/ PlainRead(w) \/ PlainWrite(w) \/ PlainEnds(w)
  \/ ReadView(w) \/ ReadPut(w) \/ WriteGrow(w) \/ WriteView(w) \/ WritePut(w)
  \/ TruncateGet(w) \/ TruncateSet(w) \/ TruncateMap(w) \/ TruncateDone(w)
  \/ CloseEntry(w) \/ CloseFd(w)

Rest == (\A w \in Workers : work[w] = Idle) /\ UNCHANGED vars

Next == (\E w \in Workers : Use(w) \/ Step(w)) \/ Rest

Spec == Init /\ [][Next]_vars

----------------------------------------------------------------------------
\* No error closed the handle of the descriptor.
Sound(fd) == fd \notin hist.broken
Quiet(fd) == Busy(fd) = {}

(***************************************************************************)
(* uv__fd_hash_get finds the entries that were added and not removed: each *)
(* descriptor has at most one, in its bucket; a bucket has the groups that *)
(* its size needs; and a descriptor that is not in use has an entry if and *)
(* only if its file was opened with UV_FS_O_FILEMAP.  So no operation      *)
(* takes the wrong path, whatever threads do with other descriptors of the *)
(* bucket.                                                                 *)
(***************************************************************************)
HashFinds ==
  /\ \A k \in DOMAIN hash :
       /\ Cardinality(Slots(hash[k])) = hash[k].size
       /\ Len(hash[k].groups) = (IF hash[k].size = 0 THEN 1 ELSE ((hash[k].size - 1) \div GroupSize) + 1)
       /\ \A fd \in Fds : Cardinality(Find(hash[k], fd)) <= (IF fd % HashSize = k THEN 1 ELSE 0)
  /\ \A fd \in Fds : Sound(fd) /\ Quiet(fd) => (HashHas(fd) <=> "FILEMAP" \in file[fd].flags)

(***************************************************************************)
(* Every mapping handle that is open belongs to the entry of its           *)
(* descriptor or to the operation that works on it, an entry has the size  *)
(* of the file and a mapping if the file has bytes, and no operation       *)
(* closes a handle that another descriptor has.                            *)
(***************************************************************************)
MappingsExact ==
  /\ ~hist.closes
  /\ \A m \in Mappings : maps[m] # 0 =>
                           HashHas(maps[m]) /\ HashGet(maps[m]).map = m
  /\ \A fd \in Fds : Sound(fd) /\ Quiet(fd) /\ "FILEMAP" \in file[fd].flags =>
       LET info == HashGet(fd) IN
       /\ info.size = Len(Data(fd))
       /\ IF info.size = 0 THEN info.map = Invalid ELSE info.map # Invalid /\ maps[info.map] = fd

(***************************************************************************)
(* A descriptor behaves as POSIX says, with or without a mapping: a        *)
(* positional read or write leaves the position alone, a sequential one    *)
(* moves it by what it did, an append goes to the end, nothing is read     *)
(* past the end, a gap reads as zeros, and access that was not asked for   *)
(* is refused.                                                             *)
(***************************************************************************)
ActsLikeAFile ==
  /\ hist.wrong \cap {"read", "write", "truncate"} = {}
  /\ \A fd \in Fds : file[fd].path # "" /\ Sound(fd) /\ Quiet(fd) =>
       /\ Data(fd) = hist.data[file[fd].path]
       /\ hist.pos[fd] = IF HashHas(fd) THEN HashGet(fd).pos ELSE file[fd].pos

(***************************************************************************)
(* uv_fs_open has the effect of the POSIX flags: an existing file is kept, *)
(* emptied or refused, a missing one made or reported, and a file without  *)
(* write permission is not opened for writing, whatever UV_FS_O_FILEMAP    *)
(* does to the flags.                                                      *)
(***************************************************************************)
OpenIsPosix == "open" \notin hist.wrong
==============================================================================
