------------------------------- MODULE UnixFs -------------------------------
(***************************************************************************)
(* File system requests on Unix: src/unix/fs.c, built for Linux, and what  *)
(* it uses of src/uv-common.c.                                             *)
(*                                                                         *)
(*   o  a request from uv_fs_* over the thread pool, or the io_uring (see  *)
(*      IoUring), to uv_fs_req_cleanup, with the memory that it holds;     *)
(*   o  the operations that are more than a system call: write, sendfile,  *)
(*      copyfile, mkstemp, scandir and the directory streams.              *)
(*                                                                         *)
(* A system call may fail, be interrupted or do a part of its work.  Only  *)
(* one request at a time works on a file or on a directory stream.         *)
(***************************************************************************)
EXTENDS Integers, Sequences, FiniteSets

CONSTANTS
  Reqs,      \* the requests
  Programs,  \* operations that a program asks for, and how many; none to look at times
  Entries,   \* what the directory lists, "." and ".." among it
  Batch,     \* nentries of uv_dir_t
  BufLists,  \* lists of buffer lengths for uv_fs_write
  IovMax,    \* uv__getiovmax
  Src,       \* the bytes of the file that is sent or copied
  Chunk,     \* sizeof(buf) of uv__fs_sendfile_emul
  Second, Micro,  \* nanoseconds in a second and in a microsecond
  Times      \* times in nanoseconds, 0 being 1970

VARIABLES
  req,    \* the requests
  mem,    \* memory that is allocated: the request and what it is for
  dir,    \* uv_dir_t: open, and the position of the stream
  disk,   \* the files
  lock,   \* cloexec_lock: who reads; and descriptors without close-on-exec
  statics,   \* no_copy_file_range_support and no_cloexec_support, when set
  hist,   \* history, and the program
  tick,   \* a time
  uses

vars == <<req, mem, dir, disk, lock, statics, hist, tick, uses>>

(***************************************************************************)
(* req:  st      none, queued, ring, cancelled, work and its steps, eintr, *)
(*               over, told (the caller has the result), clean             *)
(*       path, bufs, ptr   null, user (the caller's memory), own, and for  *)
(*               bufs small (in the request), for ptr statbuf and dir      *)
(*       next, used    entries so far, and nbufs as an index               *)
(*       io      the transfer: off, len, the bytes left, those at hand,    *)
(*               use_pread, flags of copyfile, result so far               *)
(* disk: dst     the bytes at the destination, or Absent                  *)
(*       fds     the descriptors of copyfile;  pos  the file position      *)
(* hist: bad     memory was freed that was not allocated                   *)
(*       dropped the memory of an open directory was freed                 *)
(*       given   names that readdir gave;  lost  an error lost some        *)
(*       leaked  a child got a descriptor;  kept  unlink failed            *)
(***************************************************************************)
NoIo == [off |-> 0, start |-> 0, left |-> <<>>, buf |-> <<>>, pread |-> TRUE, nread |-> 0, sent |-> 0, len |-> 0,
         excl |-> FALSE, clone |-> "no", err |-> 0, opened |-> FALSE, todo |-> 0]
Fresh == [st |-> "none", type |-> "", cb |-> FALSE, path |-> "null", bufs |-> "null", ptr |-> "null", result |-> 0,
          next |-> 0, used |-> 0, clobbered |-> FALSE, io |-> NoIo]
Absent == <<-1>>

Init ==
  /\ req = [r \in Reqs |-> Fresh] /\ mem = {} /\ uses = 0
  /\ dir = [open |-> FALSE, at |-> 1]
  /\ \E old \in {Absent, <<9>>, Src} : disk = [dst |-> old, old |-> old, same |-> old = Src, fds |-> {}, pos |-> 0]
  /\ lock = [readers |-> {}, raw |-> {}] /\ statics = {}
  /\ \E p \in Programs : hist = [types |-> p[1], max |-> p[2], bad |-> FALSE, dropped |-> FALSE, given |-> <<>>,
                                  lost |-> FALSE, leaked |-> FALSE, kept |-> FALSE]
  /\ tick \in Times /\ (hist.types # {} => tick = 0)
  /\ "copyfile" \notin hist.types => disk.dst = Absent

Error == -2
Cancelled == -3

Alloc(r, x) == mem \cup {<<r, x>>}
Frees(r, xs) ==
  /\ mem' = mem \ {<<r, x>> : x \in xs}
  /\ hist' = [hist EXCEPT !.bad = @ \/ \E x \in xs : <<r, x>> \notin mem]

\* Without a callback the work is done by the loop's thread, which waits.
LoopIsFree == \A r \in Reqs : req[r].st \in {"none", "told", "clean"} \/ req[r].cb

At(r, types, st) == req[r].type \in types /\ req[r].st = st
Sets(r, q) == req' = [req EXCEPT ![r] = q] /\ UNCHANGED <<tick, uses>>
Result(q, n) == [q EXCEPT !.result = n, !.st = "over"]
Smaller(a, b) == IF a < b THEN a ELSE b

----------------------------------------------------------------------------
(* uv_fs_*: INIT, the arguments, POST *)

Temps == {"mkstemp"}
Streams == {"readdir", "closedir"}
Paths == {"stat", "open", "utime", "readlink", "statfs", "scandir", "opendir", "copyfile"}
Fds == {"fsync", "close", "sendfile"}
Rings == {"stat", "open", "fsync", "close", "read", "write"}   \* uv__iou_fs_*
OnFiles == {"write", "sendfile", "copyfile"}
OnDirs == {"opendir", "readdir", "closedir"}

\* POST, unless the ring took the request.
Post(r, q, M) ==
  /\ mem' = M
  /\ \/ req' = [req EXCEPT ![r] = [q EXCEPT !.st = IF q.cb THEN "queued" ELSE "work"]]
     \/ q.cb /\ q.type \in Rings \ OnFiles /\ req' = [req EXCEPT ![r] = [q EXCEPT !.st = "ring"]]

Refuse(r, q) == req' = [req EXCEPT ![r] = [q EXCEPT !.st = "told", !.result = Error]] /\ UNCHANGED mem

\* PATH and PATH2: a copy for the pool, the caller's memory without.
CallPath(r, q) ==
  /\ q.type \in Paths
  /\ IF q.cb THEN Post(r, [q EXCEPT !.path = "own"], Alloc(r, <<"path">>)) \/ Refuse(r, q)
     ELSE Post(r, [q EXCEPT !.path = "user"], mem)

\* The template is always copied.
CallTemp(r, q) == q.type \in Temps /\ (Post(r, [q EXCEPT !.path = "own"], Alloc(r, <<"path">>)) \/ Refuse(r, q))

CallFd(r, q) == q.type \in Fds /\ Post(r, q, mem)

CallStream(r, q) == q.type \in Streams /\ Post(r, [q EXCEPT !.ptr = "dir"], mem)

\* More than four buffers need memory; a synchronous read uses the caller's list.
CallRead(r, q) ==
  /\ q.type = "read"
  /\ IF ~q.cb THEN Post(r, [q EXCEPT !.bufs = "user"], mem)
     ELSE \/ Refuse(r, q)
          \/ Post(r, [q EXCEPT !.bufs = "small"], mem)
          \/ Post(r, [q EXCEPT !.bufs = "own"], Alloc(r, <<"bufs">>))

CallWrite(r, q) ==
  /\ q.type = "write"
  /\ \/ Refuse(r, q)
     \/ Post(r, [q EXCEPT !.bufs = "small"], mem)
     \/ Post(r, [q EXCEPT !.bufs = "own"], Alloc(r, <<"bufs">>))

RECURSIVE Bytes(_, _)
\* The buffers, each with its bytes, which are numbered from n + 1.
Bytes(lens, n) ==
  IF lens = <<>> THEN <<>>
  ELSE <<[i \in 1 .. Head(lens) |-> n + i]>> \o Bytes(Tail(lens), n + Head(lens))

\* The arguments of the transfers.
Transfers(type) ==
  CASE type = "write" -> {[NoIo EXCEPT !.left = Bytes(b, 0), !.off = o, !.start = o] : b \in BufLists, o \in {-1, 1}}
    [] type = "sendfile" -> {[NoIo EXCEPT !.off = o, !.start = o, !.len = n] : o \in {0, 1}, n \in {2, Len(Src) + 1}}
    [] type = "copyfile" -> {[NoIo EXCEPT !.excl = e, !.clone = c] : e \in BOOLEAN, c \in {"no", "try", "force"}}
    [] OTHER -> {NoIo}

Call(r, t, cb) ==
  /\ LoopIsFree /\ req[r].st \in {"none", "clean"} /\ uses < hist.max
  /\ t \in OnDirs => (dir.open <=> t # "opendir") /\ ~hist.dropped
  /\ \A f \in {OnFiles, OnDirs} : t \in f =>
       \A s \in Reqs \ {r} : req[s].type \in f => req[s].st \in {"none", "clean"}
  /\ uses' = uses + 1
  /\ \E io \in Transfers(t) :
       LET q == [Fresh EXCEPT !.type = t, !.cb = cb, !.io = io] IN
       \/ CallPath(r, q) \/ CallTemp(r, q) \/ CallFd(r, q) \/ CallStream(r, q) \/ CallRead(r, q) \/ CallWrite(r, q)
  /\ UNCHANGED <<dir, disk, lock, statics, hist, tick>>

\* uv_cancel of a request that no thread has.
Cancel(r) ==
  /\ LoopIsFree /\ req[r].st = "queued"
  /\ Sets(r, [req[r] EXCEPT !.st = "cancelled"])
  /\ UNCHANGED <<mem, dir, disk, lock, statics, hist>>

\* A thread of the pool takes the request.
Work(r) ==
  /\ req[r].st = "queued"
  /\ Sets(r, [req[r] EXCEPT !.st = "work"])
  /\ UNCHANGED <<mem, dir, disk, lock, statics, hist>>

\* The ring has the result; uv__iou_fs_statx_post.
Ring(r) ==
  /\ req[r].st = "ring"
  /\ \E n \in {0, Error} : Sets(r, [Result(req[r], n) EXCEPT !.ptr = IF n = 0 /\ req[r].type = "stat" THEN "statbuf" ELSE @])
  /\ UNCHANGED <<mem, dir, disk, lock, statics, hist>>

RetriesAll(type) == type # "close"

\* uv__fs_work: the operations that are tried again after EINTR.
Retries(type) == type \notin {"close", "read"}

Interrupted(r) ==
  LET q == req[r] IN
  /\ q.st = "eintr"
  /\ Sets(r, IF Retries(q.type) THEN [q EXCEPT !.st = "work"] ELSE Result(q, Error))
  /\ UNCHANGED <<mem, dir, disk, lock, statics, hist>>

\* uv__fs_done, or the return of a call without a callback.
Done(r) ==
  LET q == req[r] IN
  /\ q.st \in {"over", "cancelled"} /\ (q.cb => LoopIsFree)
  /\ Sets(r, [q EXCEPT !.st = "told", !.result = IF q.st = "cancelled" THEN Cancelled ELSE @])
  /\ UNCHANGED <<mem, dir, disk, lock, statics, hist>>

----------------------------------------------------------------------------
(* uv_fs_req_cleanup and the lists of names *)

Dents(i, n) == {<<"dent", k>> : k \in i .. n}

\* uv__fs_scandir_cleanup: uv_fs_scandir_next has freed the entries before the last.
ScandirFrees(q) ==
  {<<"ptr">>} \cup (IF q.result >= 0 THEN Dents(IF q.next > 0 THEN q.next ELSE 1, q.result) ELSE {})

\* uv__fs_readdir_cleanup
ReaddirFrees(q) == IF q.result < 0 THEN {} ELSE Dents(1, q.result)

PathFreesAll(q) == IF q.path # "null" THEN {<<"path">>} ELSE {}

PathFrees(q) == IF q.path # "null" /\ (q.cb \/ q.type \in Temps) THEN {<<"path">>} ELSE {}

\* Whatever ptr is, if it is not the stream that opendir made or the request's own.
Cleanup(r) ==
  LET q == req[r]
      names == IF q.ptr = "null" THEN {} ELSE IF q.type = "scandir" THEN ScandirFrees(q)
               ELSE IF q.type = "readdir" THEN ReaddirFrees(q) ELSE {}
      rest == IF q.type \notin {"scandir", "readdir", "opendir"} /\ q.ptr = "own" THEN {<<"ptr">>} ELSE {}
      bufs == IF q.bufs \in {"own", "user"} THEN {<<"bufs">>} ELSE {}
      all == PathFrees(q) \cup names \cup rest \cup bufs
      drops == q.type = "closedir" /\ q.ptr = "dir"
  IN /\ LoopIsFree /\ q.st \in {"told", "clean"}
     /\ mem' = (mem \ {<<r, x>> : x \in all}) \ (IF drops THEN {<<"dir", <<"ptr">>>>} ELSE {})
     /\ hist' = [hist EXCEPT !.bad = @ \/ \E x \in all : <<r, x>> \notin mem, !.dropped = @ \/ drops]
     /\ Sets(r, [Fresh EXCEPT !.st = "clean", !.type = q.type, !.cb = q.cb])
     /\ UNCHANGED <<dir, disk, lock, statics>>

\* uv_fs_scandir_next frees the entry that it gave before, and the list at its end.
ScandirNext(r) ==
  LET q == req[r]
      end == q.next = q.result
  IN /\ LoopIsFree /\ At(r, {"scandir"}, "told") /\ q.result >= 0 /\ q.ptr # "null"
     /\ Frees(r, (IF q.next > 0 THEN {<<"dent", q.next>>} ELSE {}) \cup (IF end THEN {<<"ptr">>} ELSE {}))
     /\ Sets(r, IF end THEN [q EXCEPT !.ptr = "null"] ELSE [q EXCEPT !.next = @ + 1])
     /\ UNCHANGED <<dir, disk, lock, statics>>

Listed == SelectSeq(Entries, LAMBDA e : e \notin {".", ".."})

\* uv__fs_scandir; an empty list is freed.
Scandir(r) ==
  LET q == req[r]
      n == Len(Listed)
  IN /\ At(r, {"scandir"}, "work")
     /\ \/ Sets(r, Result(q, Error)) /\ UNCHANGED mem
        \/ Sets(r, [q EXCEPT !.st = "eintr"]) /\ UNCHANGED mem
        \/ Sets(r, Result([q EXCEPT !.ptr = "own"], n)) /\ mem' = mem \cup {<<r, x>> : x \in {<<"ptr">>} \cup Dents(1, n)}
        \/ Sets(r, Result(q, 0)) /\ UNCHANGED mem
     /\ UNCHANGED <<dir, disk, lock, statics, hist>>

\* uv__fs_opendir
Opendir(r) ==
  /\ At(r, {"opendir"}, "work")
  /\ \/ Sets(r, Result(req[r], Error)) /\ UNCHANGED <<mem, dir, hist>>
     \/ /\ dir' = [open |-> TRUE, at |-> 1]
        /\ mem' = Alloc("dir", <<"ptr">>)
        /\ hist' = [hist EXCEPT !.given = <<>>, !.lost = FALSE]
        /\ Sets(r, Result([req[r] EXCEPT !.ptr = "dir"], 0))
  /\ UNCHANGED <<disk, lock, statics>>

ReaddirFull(q) == q.used > Batch

\* The array of the stream is full.
ReaddirStops(q) == q.used = Batch

\* One turn of the loop of uv__fs_readdir; an error loses the names.
Readdir(r) ==
  LET q == req[r]
      end == ReaddirStops(q) \/ dir.at > Len(Entries)
  IN /\ At(r, {"readdir"}, "work")
     /\ \/ end /\ Sets(r, Result(q, q.used)) /\ UNCHANGED <<mem, dir, hist>>
        \/ /\ ~end
           /\ dir' = [dir EXCEPT !.at = @ + 1]
           /\ IF Entries[dir.at] \in {".", ".."} THEN Sets(r, q) /\ UNCHANGED <<mem, hist>>
              ELSE /\ mem' = Alloc(r, <<"dent", q.used + 1>>)
                   /\ hist' = [hist EXCEPT !.given = Append(@, Entries[dir.at])]
                   /\ Sets(r, [q EXCEPT !.used = @ + 1])
        \/ /\ ~end
           /\ mem' = mem \ {<<r, x>> : x \in Dents(1, q.used)}
           /\ hist' = [hist EXCEPT !.lost = TRUE]
           /\ Sets(r, Result(q, Error)) /\ UNCHANGED dir
     /\ UNCHANGED <<disk, lock, statics>>

\* uv__fs_closedir
Closedir(r) ==
  /\ At(r, {"closedir"}, "work")
  /\ Frees("dir", {<<"ptr">>})
  /\ dir' = [dir EXCEPT !.open = FALSE]
  /\ Sets(r, Result([req[r] EXCEPT !.ptr = "null"], 0))
  /\ UNCHANGED <<disk, lock, statics>>

\* uv__fs_readlink, uv__fs_realpath and uv__fs_statfs: the answer is in new memory.
Readlink(r) ==
  LET q == req[r] IN
  /\ At(r, {"readlink", "statfs"}, "work")
  /\ \/ Sets(r, Result(q, Error)) /\ UNCHANGED mem
     \/ Sets(r, [q EXCEPT !.st = "eintr"]) /\ UNCHANGED mem
     \/ Sets(r, Result([q EXCEPT !.ptr = "own"], 0)) /\ mem' = Alloc(r, <<"ptr">>)
  /\ UNCHANGED <<dir, disk, lock, statics, hist>>

\* uv__fs_stat: statx, or stat once statx was found missing.
Stat(r) ==
  LET q == req[r] IN
  /\ At(r, {"stat"}, "work")
  /\ \/ Sets(r, Result(q, Error)) /\ UNCHANGED statics
     \/ statics' = statics \cup {"statx"} /\ Sets(r, Result([q EXCEPT !.ptr = "statbuf"], 0))
     \/ Sets(r, Result([q EXCEPT !.ptr = "statbuf"], 0)) /\ UNCHANGED statics
  /\ UNCHANGED <<mem, dir, disk, lock, hist>>

\* uv__fs_read: the list is freed if it is ours, and forgotten.
Read(r) ==
  LET q == req[r] IN
  /\ At(r, {"read"}, "work")
  /\ IF q.cb /\ q.bufs # "small" THEN Frees(r, {<<"bufs">>}) ELSE UNCHANGED <<mem, hist>>
  /\ \E n \in {0, Error} : \/ Sets(r, Result([q EXCEPT !.bufs = "null"], n))
                           \/ n = Error /\ Sets(r, [q EXCEPT !.bufs = "null", !.st = "eintr"])
  /\ UNCHANGED <<dir, disk, lock, statics>>

\* Operations of one system call.
SystemCall(r) ==
  /\ \/ \E n \in {0, Error} : Sets(r, Result(req[r], n))
     \/ Sets(r, [req[r] EXCEPT !.st = "eintr"])
  /\ UNCHANGED <<mem, dir, disk, lock, statics, hist>>

Open(r) == At(r, {"open"}, "work") /\ SystemCall(r)
Sync(r) == At(r, {"fsync"}, "work") /\ SystemCall(r)
SetTimes(r) == At(r, {"utime"}, "work") /\ SystemCall(r)

\* uv__fs_close: a close that was interrupted goes on.
Close(r) ==
  /\ At(r, {"close"}, "work")
  /\ \E n \in {0, Error} : Sets(r, Result(req[r], n))
  /\ UNCHANGED <<mem, dir, disk, lock, statics, hist>>

----------------------------------------------------------------------------
(* uv__fs_write_all *)

RECURSIVE Flat(_)
Flat(bufs) == IF bufs = <<>> THEN <<>> ELSE Head(bufs) \o Flat(Tail(bufs))

RECURSIVE BufOffsetWhole(_, _)
BufOffsetWhole(bufs, n) ==
  IF n > 0 /\ Len(bufs[1]) <= n THEN BufOffsetWhole(Tail(bufs), n - Len(bufs[1])) ELSE bufs

RECURSIVE BufOffset(_, _)
\* uv__fs_buf_offset: the buffers that are left after n bytes.
BufOffset(bufs, n) ==
  IF n > 0 /\ Len(bufs[1]) <= n THEN BufOffset(Tail(bufs), n - Len(bufs[1]))
  ELSE IF n > 0 THEN <<SubSeq(bufs[1], n + 1, Len(bufs[1]))>> \o Tail(bufs)
  ELSE bufs

\* The bytes b go to position p; a hole reads as 0.
Put(file, p, b) ==
  LET old == IF file = Absent THEN <<>> ELSE file
      end == p + Len(b)
  IN [i \in 1 .. (IF Len(old) > end THEN Len(old) ELSE end) |->
        IF i > p /\ i <= end THEN b[i - p] ELSE IF i <= Len(old) THEN old[i] ELSE 0]

WriteEnds(r, q, n) ==
  /\ IF q.bufs = "own" THEN Frees(r, {<<"bufs">>}) ELSE UNCHANGED <<mem, hist>>
  /\ Sets(r, Result([q EXCEPT !.bufs = "null"], n))
  /\ UNCHANGED disk

\* One uv__fs_write, which may write a part.
WriteAll(r) ==
  LET q == req[r]
      io == q.io
      now == Flat(SubSeq(io.left, 1, Smaller(Len(io.left), IovMax)))
      at == IF io.off >= 0 THEN io.off ELSE disk.pos
  IN /\ At(r, {"write"}, "work")
     /\ \/ io.left = <<>> /\ WriteEnds(r, q, io.sent)
        \/ io.left # <<>> /\ \E n \in {0, Error} : WriteEnds(r, q, IF io.sent = 0 THEN n ELSE io.sent)
        \/ \E n \in 1 .. Len(now) :
             /\ io.left # <<>>
             /\ disk' = [disk EXCEPT !.dst = Put(@, at, SubSeq(now, 1, n)), !.pos = IF io.off >= 0 THEN @ ELSE @ + n]
             /\ Sets(r, [q EXCEPT !.io.off = IF @ >= 0 THEN @ + n ELSE @, !.io.left = BufOffset(@, n), !.io.sent = @ + n])
             /\ UNCHANGED <<mem, hist>>
     /\ UNCHANGED <<dir, lock, statics>>

----------------------------------------------------------------------------
(* uv__fs_sendfile and uv__fs_copyfile *)

\* The end of a transfer: of the request, or of a turn of the loop of copyfile.
Sent(q, n) ==
  IF q.type = "sendfile" THEN Result(q, n)
  ELSE IF n < 0 THEN [q EXCEPT !.st = "close", !.io.err = n]
  ELSE [q EXCEPT !.st = "turn", !.io.todo = @ - n]

\* What the kernel can move from offset o.
Moves(o, len) == LET n == Smaller(len, Len(Src) - o) IN IF n <= 0 THEN {0} ELSE 1 .. n

\* copy_file_range first, then sendfile, then read and write.
SendTry(r) ==
  LET q == req[r]
      io == q.io
  IN /\ q.st \in {"try", "send"} \/ At(r, {"sendfile"}, "work")
     /\ \/ \E n \in Moves(io.off, io.len) :
             /\ q.st = "send" \/ "copy_file_range" \notin statics
             /\ disk' = [disk EXCEPT !.dst = Put(@, disk.pos, SubSeq(Src, io.off + 1, io.off + n)), !.pos = @ + n]
             /\ Sets(r, Sent([q EXCEPT !.io.off = @ + n], n)) /\ UNCHANGED statics
        \/ q.st # "send" /\ "copy_file_range" \in statics /\ Sets(r, [q EXCEPT !.st = "send"]) /\ UNCHANGED <<disk, statics>>
        \/ \E ever \in BOOLEAN :   \* ENOSYS, for good or here
             /\ q.st # "send" /\ "copy_file_range" \notin statics
             /\ statics' = IF ever THEN statics \cup {"copy_file_range"} ELSE statics
             /\ Sets(r, [q EXCEPT !.st = "send"]) /\ UNCHANGED disk
        \/ Sets(r, [q EXCEPT !.st = "emul", !.io.pread = TRUE, !.io.sent = 0]) /\ UNCHANGED <<disk, statics>>
        \/ Sets(r, Sent(q, Error)) /\ UNCHANGED <<disk, statics>>
     /\ UNCHANGED <<mem, dir, lock, hist>>

\* One read of uv__fs_sendfile_emul.  A pipe has no positions: its bytes are Src.
EmulRead(r) ==
  LET q == req[r]
      io == q.io
      from == IF io.pread THEN io.off ELSE io.sent
      can == Smaller(Smaller(io.len - io.sent, Chunk), Len(Src) - from)
  IN /\ q.st = "emul"
     /\ \/ (io.sent = io.len \/ can <= 0) /\ Sets(r, Sent(q, io.sent))
        \/ \E n \in 1 .. can : Sets(r, [q EXCEPT !.st = "emulwrite", !.io.buf = SubSeq(Src, from + 1, from + n), !.io.nread = n])
        \/ io.pread /\ io.sent = 0 /\ q.type = "sendfile" /\ Sets(r, [q EXCEPT !.io.pread = FALSE])
        \/ io.sent < io.len /\ Sets(r, Sent(q, IF io.sent = 0 THEN Error ELSE io.sent))
     /\ UNCHANGED <<mem, dir, disk, lock, statics, hist>>

EmulWriteOnce(r) ==
  LET q == req[r]
      io == q.io
  IN /\ q.st = "emulwrite"
     /\ \/ \E n \in 1 .. Len(io.buf) :
             /\ disk' = [disk EXCEPT !.dst = Put(@, disk.pos, SubSeq(io.buf, 1, n)), !.pos = @ + n]
             /\ Sets(r, [q EXCEPT !.io.buf = <<>>, !.st = "emul", !.io.off = @ + io.nread, !.io.sent = @ + io.nread])
        \/ Sets(r, Sent(q, Error)) /\ UNCHANGED disk
     /\ UNCHANGED <<mem, dir, lock, statics, hist>>

\* One write, after poll() if it would block; errors are always told.
EmulWrite(r) ==
  LET q == req[r]
      io == q.io
  IN /\ q.st = "emulwrite"
     /\ \/ \E n \in 1 .. Len(io.buf) :
             /\ disk' = [disk EXCEPT !.dst = Put(@, disk.pos, SubSeq(io.buf, 1, n)), !.pos = @ + n]
             /\ Sets(r, IF n < Len(io.buf) THEN [q EXCEPT !.io.buf = SubSeq(@, n + 1, Len(@))]
                        ELSE [q EXCEPT !.io.buf = <<>>, !.st = "emul", !.io.off = @ + io.nread, !.io.sent = @ + io.nread])
        \/ Sets(r, Sent(q, Error)) /\ UNCHANGED disk
     /\ UNCHANGED <<mem, dir, lock, statics, hist>>

\* uv__fs_copyfile: both files are opened; an exclusive copy needs a new one.
CopyOpen(r) ==
  LET q == req[r]
      fails(fds) == Sets(r, [q EXCEPT !.st = "close", !.io.err = Error]) /\ disk' = [disk EXCEPT !.fds = fds]
  IN /\ At(r, {"copyfile"}, "work")
     /\ \/ Sets(r, Result(q, Error)) /\ UNCHANGED disk
        \/ fails({"src"})
        \/ /\ q.io.excl => disk.dst = Absent
           /\ disk' = [disk EXCEPT !.fds = {"src", "dst"}, !.dst = IF @ = Absent THEN <<>> ELSE @, !.pos = 0]
           /\ Sets(r, [q EXCEPT !.st = "prepare", !.io.opened = TRUE])
     /\ UNCHANGED <<mem, dir, lock, statics, hist>>

\* The destination is looked at, made empty and given the mode, unless it is the source.
CopyPrepare(r) ==
  LET q == req[r]
      goes == [q EXCEPT !.st = "clone", !.io.todo = Len(Src), !.io.off = 0]
  IN /\ At(r, {"copyfile"}, "prepare")
     /\ \/ Sets(r, [q EXCEPT !.st = "close", !.io.err = Error]) /\ UNCHANGED disk
        \/ q.io.excl /\ Sets(r, goes) /\ UNCHANGED disk
        \/ ~q.io.excl /\ disk.same /\ Sets(r, [q EXCEPT !.st = "close"]) /\ UNCHANGED disk
        \/ ~q.io.excl /\ ~disk.same /\ Sets(r, goes) /\ disk' = [disk EXCEPT !.dst = <<>>]
     /\ UNCHANGED <<mem, dir, lock, statics, hist>>

\* FICLONE
CopyClone(r) ==
  LET q == req[r] IN
  /\ At(r, {"copyfile"}, "clone")
  /\ \/ q.io.clone # "force" /\ Sets(r, [q EXCEPT !.st = "turn"]) /\ UNCHANGED disk
     \/ q.io.clone = "force" /\ Sets(r, [q EXCEPT !.st = "close", !.io.err = Error]) /\ UNCHANGED disk
     \/ q.io.clone # "no" /\ Sets(r, [q EXCEPT !.st = "close"]) /\ disk' = [disk EXCEPT !.dst = Src]
  /\ UNCHANGED <<mem, dir, lock, statics, hist>>

\* The loop of sends, from where the last one ended.
CopyTurn(r) ==
  LET q == req[r] IN
  /\ At(r, {"copyfile"}, "turn")
  /\ Sets(r, IF q.io.todo = 0 THEN [q EXCEPT !.st = "close"]
             ELSE [q EXCEPT !.st = "try", !.io.len = q.io.todo, !.io.off = Len(Src) - q.io.todo])
  /\ UNCHANGED <<mem, dir, disk, lock, statics, hist>>

CopyCloseKeeps(r) ==
  LET q == req[r] IN
  /\ At(r, {"copyfile"}, "close")
  /\ \E err \in {q.io.err, Error} : disk' = [disk EXCEPT !.fds = {}] /\ Sets(r, Result(q, err))
  /\ UNCHANGED <<mem, dir, lock, statics, hist>>

\* close() may fail as well; then a destination that was opened is removed.
CopyClose(r) ==
  LET q == req[r] IN
  /\ At(r, {"copyfile"}, "close")
  /\ \E err \in {q.io.err, Error}, kept \in BOOLEAN :
       /\ kept => err # 0 /\ q.io.opened
       /\ disk' = [disk EXCEPT !.fds = {}, !.dst = IF err # 0 /\ q.io.opened /\ ~kept THEN Absent ELSE @]
       /\ hist' = [hist EXCEPT !.kept = @ \/ kept]
       /\ Sets(r, Result(q, err))
  /\ UNCHANGED <<mem, dir, lock, statics>>

----------------------------------------------------------------------------
(* uv__fs_mkstemp *)

MkstempNoLock(r) ==
  LET q == req[r] IN
  /\ At(r, {"mkstemp"}, "work") /\ "cloexec" \in statics /\ ~q.clobbered
  /\ Sets(r, [q EXCEPT !.st = "locked"])
  /\ UNCHANGED <<mem, dir, disk, lock, statics, hist>>

\* The system opens no file with close-on-exec: uv_spawn is kept out.
MkstempLock(r) ==
  LET q == req[r] IN
  /\ At(r, {"mkstemp"}, "work") /\ "cloexec" \in statics /\ ~q.clobbered
  /\ lock' = IF q.cb THEN [lock EXCEPT !.readers = @ \cup {r}] ELSE lock
  /\ Sets(r, [q EXCEPT !.st = "locked"])
  /\ UNCHANGED <<mem, dir, disk, statics, hist>>

\* mkostemp, which may say that it knows no O_CLOEXEC; a failure spoils the template.
MkstempTry(r) ==
  LET q == req[r] IN
  /\ At(r, {"mkstemp"}, "work")
  /\ \/ Sets(r, [Result(q, Error) EXCEPT !.clobbered = TRUE]) /\ UNCHANGED statics
     \/ ~q.clobbered /\ "cloexec" \notin statics /\ statics' = statics \cup {"cloexec"} /\ Sets(r, q)
     \/ ~q.clobbered /\ "cloexec" \notin statics /\ Sets(r, Result(q, 0)) /\ UNCHANGED statics
     \/ ~q.clobbered /\ "cloexec" \notin statics /\ Sets(r, [q EXCEPT !.st = "eintr", !.clobbered = TRUE]) /\ UNCHANGED statics
  /\ UNCHANGED <<mem, dir, disk, lock, hist>>

\* mkstemp, then uv__cloexec, or close.
Mkstemp(r) ==
  LET q == req[r] IN
  /\ At(r, {"mkstemp"}, "locked")
  /\ \/ r \notin lock.raw /\ lock' = [lock EXCEPT !.raw = @ \cup {r}] /\ Sets(r, q)
     \/ r \notin lock.raw /\ lock' = [lock EXCEPT !.readers = @ \ {r}] /\ Sets(r, [Result(q, Error) EXCEPT !.clobbered = TRUE])
     \/ /\ r \in lock.raw
        /\ lock' = [readers |-> lock.readers \ {r}, raw |-> lock.raw \ {r}]
        /\ \E n \in {0, Error} : Sets(r, [Result(q, n) EXCEPT !.clobbered = n # 0])
  /\ UNCHANGED <<mem, dir, disk, statics, hist>>

\* uv_spawn forks with cloexec_lock held for writing.
Spawn ==
  /\ "mkstemp" \in hist.types /\ LoopIsFree /\ lock.readers = {} /\ uses < hist.max
  /\ uses' = uses + 1
  /\ hist' = [hist EXCEPT !.leaked = @ \/ lock.raw # {}]
  /\ UNCHANGED <<req, mem, dir, disk, lock, statics, tick>>

----------------------------------------------------------------------------
(* uv__fs_to_timespec: a double, here a number of nanoseconds, with the    *)
(* division and the remainder of C.                                        *)

Quot(a, b) == IF a >= 0 THEN a \div b ELSE -((-a) \div b)

ToTimespecRaw(t) ==
  LET nsec == t - (Quot(t, Second) * Second) IN [sec |-> Quot(t, Second), nsec |-> Quot(nsec, Micro) * Micro]

ToTimespec(t) ==
  LET sec == Quot(t, Second)
      all == t - (sec * Second)
      nsec == all - (all - (Quot(all, Micro) * Micro))
  IN IF nsec < 0 THEN [sec |-> sec - 1, nsec |-> nsec + Second] ELSE [sec |-> sec, nsec |-> nsec]

----------------------------------------------------------------------------
Step(r) ==
  \/ \E t \in hist.types, cb \in BOOLEAN : Call(r, t, cb)
  \/ Cancel(r) \/ Work(r) \/ Ring(r) \/ Interrupted(r) \/ Done(r) \/ Cleanup(r) \/ ScandirNext(r)
  \/ Scandir(r) \/ Opendir(r) \/ Readdir(r) \/ Closedir(r) \/ Readlink(r) \/ Stat(r) \/ Read(r)
  \/ Open(r) \/ Sync(r) \/ SetTimes(r) \/ Close(r)
  \/ WriteAll(r) \/ SendTry(r) \/ EmulRead(r) \/ EmulWrite(r)
  \/ CopyOpen(r) \/ CopyPrepare(r) \/ CopyClone(r) \/ CopyTurn(r) \/ CopyClose(r)
  \/ MkstempLock(r) \/ MkstempTry(r) \/ Mkstemp(r)

Rest == (\A r \in Reqs : req[r].st \in {"none", "clean"}) /\ UNCHANGED vars

Next == (\E r \in Reqs : Step(r)) \/ Spawn \/ Rest

Spec == Init /\ [][Next]_vars

----------------------------------------------------------------------------
(***************************************************************************)
(* What a request allocated is free after uv_fs_req_cleanup, and nothing   *)
(* is freed twice or is the caller's, whether the request was refused,     *)
(* cancelled, failed, was done by the ring or without a callback, and      *)
(* however far uv_fs_scandir_next went.                                    *)
(***************************************************************************)
UnixRequestsFreeAll ==
  /\ ~hist.bad
  /\ \A r \in Reqs : req[r].st = "clean" => \A m \in mem : m[1] # r

(***************************************************************************)
(* uv__fs_work never tries an operation again whose buffers it has given   *)
(* up; the memory of a directory stream lives while the stream is open,    *)
(* except that cleaning up a cancelled uv_fs_closedir frees it.            *)
(***************************************************************************)
RetriesKeepArguments ==
  /\ \A r \in Reqs : At(r, {"read", "write"}, "work") => req[r].bufs # "null"
  /\ dir.open /\ ~hist.dropped => <<"dir", <<"ptr">>>> \in mem

(***************************************************************************)
(* The names that uv_fs_readdir gave since uv_fs_opendir are the first of  *)
(* the directory, in order, each once, never more than the caller's array  *)
(* holds, and all of them when it gives fewer.                             *)
(***************************************************************************)
UnixEntriesOnce ==
  /\ ~hist.lost => Len(hist.given) <= Len(Listed) /\ hist.given = SubSeq(Listed, 1, Len(hist.given))
  /\ \A r \in Reqs : At(r, {"readdir"}, "over") /\ req[r].result >= 0 =>
       req[r].result <= Batch /\ (~hist.lost /\ req[r].result < Batch => hist.given = Listed)

(***************************************************************************)
(* uv_fs_write: the file holds, from where the write began, the first      *)
(* bytes of the buffers, as many as are told in the end; an error means    *)
(* that nothing was written.                                               *)
(***************************************************************************)
WriteIsExact ==
  \A r \in Reqs : req[r].type = "write" /\ req[r].st \in {"work", "over"} =>
    LET q == req[r]
        n == q.io.sent
        start == IF q.io.start >= 0 THEN q.io.start ELSE disk.pos - n
    IN /\ q.st = "over" => q.result = n \/ (q.result = Error /\ n = 0)
       /\ n > 0 => /\ Len(disk.dst) >= start + n
                   /\ SubSeq(disk.dst, start + 1, start + n) = [i \in 1 .. n |-> i]

(***************************************************************************)
(* uv_fs_sendfile tells the number of bytes that it sent, which are those  *)
(* of the source from the offset on, or, for a source without positions,   *)
(* the next ones, whichever of copy_file_range, sendfile and read moved    *)
(* them; the offset has advanced by as many.                               *)
(***************************************************************************)
SendfileIsExact ==
  \A r \in Reqs : At(r, {"sendfile"}, "over") /\ req[r].result >= 0 =>
    LET q == req[r]
        from == IF q.io.pread THEN q.io.start ELSE 0
        sent == IF disk.dst = Absent THEN <<>> ELSE disk.dst
    IN /\ q.io.off = q.io.start + q.result
       /\ disk.pos >= q.result
       /\ SubSeq(sent, disk.pos - q.result + 1, disk.pos) = SubSeq(Src, from + 1, from + q.result)

(***************************************************************************)
(* uv_fs_copyfile that succeeds leaves a whole copy, also of a file onto   *)
(* itself; one that fails leaves no destination, or the old one if it was  *)
(* not opened; the descriptors are closed.                                 *)
(***************************************************************************)
CopyIsWhole ==
  \A r \in Reqs : At(r, {"copyfile"}, "over") =>
    /\ disk.fds = {}
    /\ req[r].result = 0 => disk.dst = Src
    /\ req[r].result # 0 /\ req[r].io.opened => disk.dst = Absent \/ hist.kept
    /\ req[r].result # 0 /\ ~req[r].io.opened /\ uses = 1 => disk.dst = disk.old

(***************************************************************************)
(* No child of uv_spawn gets a descriptor of uv_fs_mkstemp, although the   *)
(* file is opened before it is marked close-on-exec.                       *)
(***************************************************************************)
ChildInheritsNothing == ~hist.leaked

(***************************************************************************)
(* A time is converted to a whole number of microseconds less than one     *)
(* away, with nanoseconds in range, before 1970 as well.                   *)
(***************************************************************************)
UnixTimesConvert ==
  LET c == ToTimespec(tick)
      away == (c.sec * Second) + c.nsec - tick
  IN c.nsec \in 0 .. (Second - 1) /\ c.nsec % Micro = 0 /\ away \in (1 - Micro) .. (Micro - 1)
=============================================================================
