-------------------------------- MODULE WinFs --------------------------------
(***************************************************************************)
(* File system requests on Windows: the rest of src/win/fs.c.              *)
(*                                                                         *)
(*   o  a request from uv_fs_* over the thread pool to uv_fs_req_cleanup,  *)
(*      with the memory and the system handles that it holds;              *)
(*   o  the operations on a path: unlink, stat, readlink, realpath, utime, *)
(*      fchmod, symlink, mktemp, statfs, scandir, opendir and the rest;    *)
(*   o  the text of links and times, which are functions of their input.   *)
(*                                                                         *)
(* Open, read, write, truncate and close are in WinFile.  One path, one    *)
(* open directory.  A system call may fail at any time.                    *)
(***************************************************************************)
EXTENDS Integers, Sequences, FiniteSets

CONSTANTS
  Reqs,     \* the requests
  Programs, \* operations that a program asks for, and how many; none to look at text and times
  Entries,  \* what the directory lists, "." and ".." among it
  Batch,    \* nentries of uv_dir_t
  Names,    \* the temporary names that may be drawn
  TmpMax,   \* TMP_MAX
  Alphabet, \* characters of paths
  MaxText,  \* bound: length of a path
  Ten, Million, Hundred,   \* Ten * Million intervals in a second, of Hundred ns each
  Half,     \* a long holds -Half .. Half - 1
  Ticks     \* file times, 0 being 1970

VARIABLES
  req,    \* the requests
  mem,    \* memory that is allocated: the request and what it is for
  disk,   \* the file system
  dir,    \* uv_dir_t
  usermode,  \* uv__file_symlink_usermode_flag
  hist,   \* history: memory freed twice, names that readdir gave, errors
  text,   \* a path
  tick,   \* a file time
  uses

vars == <<req, mem, disk, dir, usermode, hist, text, tick, uses>>

(***************************************************************************)
(* req:  st      none, queued, cancelled, the steps of the work, over,     *)
(*               told (the caller has the result), clean                   *)
(*       handles   open system handles;  follow   follow links (not lstat) *)
(*       was     what the operation found at the path                      *)
(*       used, next   entries so far, and the position in the list         *)
(* disk: what the path names and its attributes, the path of a junction,   *)
(*       the temporary names that exist;  origin  what it named at first   *)
(* dir:  the entry at hand, need_find_call, whether FindFirstFileW had a     *)
(*       first entry, and the room that the caller provides                *)
(* hist: memory was freed twice; the names that readdir gave since the     *)
(*       directory was opened, and whether an error lost some; the program *)
(***************************************************************************)
Fresh == [st |-> "none", type |-> "", cb |-> FALSE, flags |-> {}, ptr |-> "", result |-> 0, handles |-> 0,
          follow |-> TRUE, write |-> FALSE, next |-> 0, used |-> 0, tries |-> 0,
          was |-> [kind |-> "none", ro |-> FALSE, archive |-> FALSE]]
NoDir == [open |-> FALSE, at |-> 1, call |-> FALSE, first |-> TRUE, nentries |-> 0]

Init ==
  /\ req = [r \in Reqs |-> Fresh]
  /\ mem = {} /\ dir = NoDir /\ usermode = TRUE
  /\ \E kind \in {"none", "file", "dir", "link", "mount"}, archive \in BOOLEAN :
       /\ disk = [kind |-> kind, ro |-> kind = "file", archive |-> archive, junction |-> "none",
                  temp |-> {}, origin |-> kind]
       /\ kind \in {"file"} \/ ~archive
  /\ \E p \in Programs : hist = [twice |-> FALSE, given |-> <<>>, lost |-> FALSE, types |-> p[1], max |-> p[2]]
  /\ text = <<>> /\ tick \in Ticks /\ uses = 0
  /\ IF hist.types = {} THEN disk.kind = "none" ELSE tick = 0

Error == -2
Cancelled == -3

\* The memory of a request.
Alloc(r, x) == mem \cup {<<r, x>>}
Frees(r, xs) ==
  /\ mem' = mem \ {<<r, x>> : x \in xs}
  /\ hist' = [hist EXCEPT !.twice = @ \/ \E x \in xs : <<r, x>> \notin mem]

\* Without a callback the work is done by the loop's thread, which waits.
LoopIsFree == \A r \in Reqs : req[r].st \in {"none", "told", "clean"} \/ req[r].cb

At(r, types, st) == req[r].type \in types /\ req[r].st = st
Sets(r, q) == req' = [req EXCEPT ![r] = q] /\ UNCHANGED <<uses, text, tick>>
Result(q, n) == [q EXCEPT !.result = n, !.st = "over"]
Closing(q, n) == [q EXCEPT !.result = n, !.st = "close"]
Gives(q) == [q EXCEPT !.ptr = "ptr", !.flags = @ \cup {"PTR"}]

----------------------------------------------------------------------------
(* uv_fs_*: INIT, the arguments, POST *)

Bufs == {"read"}
Dirs == {"opendir", "readdir", "closedir"}
Fds == {"fchmod"}

\* POST: the work goes to the pool, or is done here.
Post(r, q, M) == mem' = M /\ req' = [req EXCEPT ![r] = [q EXCEPT !.st = IF q.cb THEN "queued" ELSE "work"]]

\* The call fails before the work; the callback is not called.
Refuse(r, q) == req' = [req EXCEPT ![r] = [q EXCEPT !.st = "told", !.result = Error]] /\ UNCHANGED mem

\* fs__capture_path: one block for all names, or an error.
CallPath(r, q) ==
  /\ q.type \notin Bufs \cup Fds \cup {"readdir", "closedir"}
  /\ \/ Refuse(r, q)
     \/ Post(r, [q EXCEPT !.flags = {"PATHS"}], Alloc(r, <<"path">>))

\* More than four buffers need memory.
CallBufs(r, q) ==
  /\ q.type \in Bufs
  /\ \/ Refuse(r, q)
     \/ Post(r, q, mem)
     \/ Post(r, [q EXCEPT !.flags = {"BUFS"}], Alloc(r, <<"bufs">>))

CallDir(r, q) == q.type \in {"readdir", "closedir"} /\ Post(r, [q EXCEPT !.ptr = "dir"], mem)

CallFd(r, q) == q.type \in Fds /\ \E w \in BOOLEAN : Post(r, [q EXCEPT !.write = w], mem)

\* The directory has one user at a time; a name list is cleaned up before the next.
Call(r, t, cb) ==
  LET q == [Fresh EXCEPT !.type = t, !.cb = cb, !.follow = t \notin {"lstat", "lutime"}] IN
  /\ LoopIsFree /\ req[r].st \in {"none", "clean"} /\ uses < hist.max
  /\ t \in Dirs => /\ dir.open <=> t # "opendir"
                   /\ \A s \in Reqs : req[s].type \in Dirs => req[s].st \in {"none", "clean"}
  /\ uses' = uses + 1
  /\ CallPath(r, q) \/ CallBufs(r, q) \/ CallDir(r, q) \/ CallFd(r, q)
  /\ UNCHANGED <<disk, dir, usermode, hist, text, tick>>

\* uv_cancel of a request that no thread has.
Cancel(r) ==
  /\ LoopIsFree /\ req[r].st = "queued"
  /\ Sets(r, [req[r] EXCEPT !.st = "cancelled"])
  /\ UNCHANGED <<mem, disk, dir, usermode, hist>>

\* uv__fs_work
Work(r) ==
  /\ req[r].st = "queued"
  /\ Sets(r, [req[r] EXCEPT !.st = "work"])
  /\ UNCHANGED <<mem, disk, dir, usermode, hist>>

\* uv__fs_done, or the return of a call without a callback.
Done(r) ==
  LET q == req[r] IN
  /\ q.st \in {"over", "cancelled"} /\ (q.cb => LoopIsFree)
  /\ Sets(r, [q EXCEPT !.st = "told", !.result = IF q.st = "cancelled" THEN Cancelled ELSE @])
  /\ UNCHANGED <<mem, disk, dir, usermode, hist>>

Dents(i, n) == {<<"dent", k>> : k \in i .. n}

ScandirFreesLate(q) == {<<"ptr">>} \cup (IF q.result >= 0 THEN Dents(q.next + 1, q.result) ELSE {})

\* uv__fs_scandir_cleanup: uv_fs_scandir_next has freed the entries before the last.
ScandirFrees(q) ==
  {<<"ptr">>} \cup (IF q.result >= 0 THEN Dents(IF q.next > 0 THEN q.next ELSE 1, q.result) ELSE {})

\* uv__fs_readdir_cleanup
ReaddirFrees(q) == IF q.ptr = "" \/ q.result < 0 THEN {} ELSE Dents(1, q.result)

\* uv_fs_req_cleanup, which may be called again.
Cleanup(r) ==
  LET q == req[r]
      ptr == IF "PTR" \notin q.flags THEN {}
             ELSE IF q.type = "scandir" /\ q.ptr # "" THEN ScandirFrees(q)
             ELSE IF q.type = "readdir" THEN ReaddirFrees(q)
             ELSE IF q.ptr = "" THEN {} ELSE {<<"ptr">>}
  IN /\ LoopIsFree /\ q.st \in {"told", "clean"}
     /\ IF "CLEANEDUP" \in q.flags THEN UNCHANGED <<mem, hist>>
        ELSE Frees(r, ptr \cup (IF "PATHS" \in q.flags THEN {<<"path">>} ELSE {})
                          \cup (IF "BUFS" \in q.flags THEN {<<"bufs">>} ELSE {}))
     /\ Sets(r, [Fresh EXCEPT !.st = "clean", !.flags = {"CLEANEDUP"}])
     /\ UNCHANGED <<disk, dir, usermode>>

\* uv_fs_scandir_next frees the entry that it gave before, and the list at its end.
ScandirNext(r) ==
  LET q == req[r]
      end == q.next = q.result
  IN /\ LoopIsFree /\ At(r, {"scandir"}, "told") /\ q.result >= 0 /\ q.ptr # ""
     /\ Frees(r, (IF q.next > 0 THEN {<<"dent", q.next>>} ELSE {}) \cup (IF end THEN {<<"ptr">>} ELSE {}))
     /\ Sets(r, IF end THEN [q EXCEPT !.ptr = ""] ELSE [q EXCEPT !.next = @ + 1])
     /\ UNCHANGED <<disk, dir, usermode>>

----------------------------------------------------------------------------
(* Operations that open the path. *)

Opening == {"unlink", "stat", "lstat", "readlink", "realpath", "utime", "lutime", "scandir", "fchmod"}

\* CreateFileW, or ReOpenFile.
OpenPath(r) ==
  /\ At(r, Opening, "work")
  /\ \/ Sets(r, Result(req[r], Error))
     \/ /\ disk.kind # "none"
        /\ Sets(r, [req[r] EXCEPT !.st = "body", !.handles = @ + 1, !.next = 0, !.used = 0,
                                  !.was = [kind |-> disk.kind, ro |-> disk.ro, archive |-> disk.archive]])
  /\ UNCHANGED <<mem, disk, dir, usermode, hist>>

CloseHandle(r) ==
  LET q == req[r] IN
  /\ q.st \in {"close", "again"}
  /\ Sets(r, [q EXCEPT !.handles = @ - 1, !.st = IF q.st = "again" THEN "work" ELSE "over"])
  /\ UNCHANGED <<mem, disk, dir, usermode, hist>>

UnlinkAny(r) ==
  /\ At(r, {"unlink"}, "body")
  /\ \/ Sets(r, Closing(req[r], Error)) /\ UNCHANGED disk
     \/ disk' = [disk EXCEPT !.kind = "none"] /\ Sets(r, Closing(req[r], 0))
  /\ UNCHANGED <<mem, dir, usermode, hist>>

\* Not a directory, unless it is a link.  A read-only file is made writable, and
\* stays so if it cannot be deleted after all.
Unlink(r) ==
  /\ At(r, {"unlink"}, "body")
  /\ \/ Sets(r, Closing(req[r], Error)) /\ UNCHANGED disk
     \/ /\ req[r].was.kind \in {"file", "link"} /\ disk.kind # "none"
        /\ \/ disk.ro /\ disk' = [disk EXCEPT !.ro = FALSE, !.archive = TRUE] /\ Sets(r, Closing(req[r], Error))
           \/ disk' = [disk EXCEPT !.kind = "none"] /\ Sets(r, Closing(req[r], 0))
  /\ UNCHANGED <<mem, dir, usermode, hist>>

\* A reparse point that is not a link is opened again, and followed.
Strange(q) == ~q.follow /\ q.was.kind = "mount"

\* fs__stat_handle: lstat tells a link.
StatHandle(q) == IF q.was.kind = "link" /\ ~q.follow THEN "link" ELSE "statbuf"

Stat(r) ==
  LET q == req[r] IN
  /\ At(r, {"stat", "lstat"}, "body")
  /\ \/ Sets(r, Closing(q, Error))
     \/ Strange(q) /\ Sets(r, [q EXCEPT !.st = "again", !.follow = TRUE])
     \/ ~Strange(q) /\ Sets(r, Closing([q EXCEPT !.ptr = StatHandle(q)], 0))
  /\ UNCHANGED <<mem, disk, dir, usermode, hist>>

\* fs__utime_impl: a system may set the times of the reparse point itself.
Utime(r) ==
  LET q == req[r] IN
  /\ At(r, {"utime", "lutime"}, "body")
  /\ \/ Sets(r, Closing(q, Error))
     \/ Strange(q) /\ Sets(r, [q EXCEPT !.st = "again", !.follow = TRUE])
     \/ Sets(r, Closing(q, 0))
  /\ UNCHANGED <<mem, disk, dir, usermode, hist>>

\* fs__readlink and fs__realpath: the name is converted into new memory.
Readlink(r) ==
  /\ At(r, {"readlink", "realpath"}, "body")
  /\ \/ Sets(r, Closing(req[r], Error)) /\ UNCHANGED mem
     \/ /\ req[r].type = "readlink" => req[r].was.kind = "link"
        /\ Sets(r, Closing(Gives(req[r]), 0)) /\ mem' = Alloc(r, <<"ptr">>)
  /\ UNCHANGED <<disk, dir, usermode, hist>>

\* fs__fchmod works with the attributes that it read, which it writes back: with the
\* archive flag, without which the change has no effect, then with the new
\* read-only flag, then as the archive flag was.
Fchmod(r) ==
  LET q == req[r] IN
  /\ At(r, {"fchmod"}, "body")
  /\ \/ Sets(r, Closing(q, Error)) /\ UNCHANGED disk
     \/ ~q.was.archive /\ q.used = 0 /\ disk' = [disk EXCEPT !.archive = TRUE, !.ro = q.was.ro]
        /\ Sets(r, [q EXCEPT !.used = 1])
     \/ q.was.archive /\ disk' = [disk EXCEPT !.archive = TRUE, !.ro = ~q.write] /\ Sets(r, Closing(q, 0))
     \/ q.used = 1 /\ disk' = [disk EXCEPT !.archive = TRUE, !.ro = ~q.write] /\ Sets(r, [q EXCEPT !.used = 2])
     \/ q.used = 2 /\ disk' = [disk EXCEPT !.archive = FALSE, !.ro = ~q.write] /\ Sets(r, Closing(q, 0))
  /\ UNCHANGED <<mem, dir, usermode, hist>>

----------------------------------------------------------------------------
(* Directories *)

Dots == {"", ".", ".."}
Listed == SelectSeq(Entries, LAMBDA e : e \notin Dots)

\* One entry of fs__scandir: memory for the array first, and for the entry.
ScanEntry(r) ==
  LET q == req[r] IN
  /\ At(r, {"scandir"}, "body") /\ q.was.kind = "dir" /\ q.next < Len(Entries)
  /\ IF Entries[q.next + 1] \in Dots
     THEN Sets(r, [q EXCEPT !.next = @ + 1]) /\ UNCHANGED <<mem, hist>>
     ELSE \/ /\ mem' = mem \cup {<<r, <<"ptr">>>>, <<r, <<"dent", q.used + 1>>>>}
             /\ Sets(r, [q EXCEPT !.next = @ + 1, !.used = @ + 1])
             /\ UNCHANGED hist
          \* no memory for the array, or none for the entry
          \/ \E array \in BOOLEAN :
               /\ mem' = IF array THEN mem \cup {<<r, <<"ptr">>>>} ELSE mem
               /\ Sets(r, [q EXCEPT !.st = "free"])
               /\ UNCHANGED hist
  /\ UNCHANGED <<disk, dir, usermode>>

\* STATUS_NO_MORE_FILES, or another error.
ScanEnds(r) ==
  LET q == req[r] IN
  /\ At(r, {"scandir"}, "body")
  /\ \/ Sets(r, [q EXCEPT !.st = "free"])
     \/ /\ q.was.kind = "dir" /\ q.next = Len(Entries)
        /\ Sets(r, Closing([IF q.used > 0 THEN Gives(q) ELSE q EXCEPT !.next = 0], q.used))
  /\ UNCHANGED <<mem, disk, dir, usermode, hist>>

\* The end of fs__scandir when it fails.
ScanFree(r) ==
  LET q == req[r] IN
  /\ At(r, {"scandir"}, "free")
  /\ Frees(r, Dents(1, q.used) \cup (IF <<r, <<"ptr">>>> \in mem THEN {<<"ptr">>} ELSE {}))
  /\ Sets(r, Closing(q, Error))
  /\ UNCHANGED <<disk, dir, usermode>>

\* fs__opendir.  A directory in which FindFirstFileW finds nothing, not even "." (the
\* empty root of a volume), is opened as well, without a search handle and with
\* find_data as malloc left it.  The caller sets nentries.
Opendir(r) ==
  /\ At(r, {"opendir"}, "work")
  /\ \/ Sets(r, Result(req[r], Error)) /\ UNCHANGED <<mem, dir, hist>>
     \/ /\ disk.kind = "dir"
        /\ \E first \in BOOLEAN, n \in 1 .. Batch :
             dir' = [NoDir EXCEPT !.open = TRUE, !.first = first, !.nentries = n]
        /\ mem' = Alloc("dir", <<"ptr">>)
        /\ hist' = [hist EXCEPT !.given = <<>>, !.lost = FALSE]
        /\ Sets(r, Result([req[r] EXCEPT !.ptr = "dir"], 0))
  /\ UNCHANGED <<disk, usermode>>

NextEntryKept(q) == IF dir.call /\ (q.used > 0 \/ Entries[dir.at] \in Dots) THEN dir.at + 1 ELSE dir.at

\* FindNextFileW is called unless the entry at hand was not given yet.
NextEntry(q) == IF dir.call THEN dir.at + 1 ELSE dir.at

\* The name at hand may be any when nothing was found.
MadeUp == "made up"
AtHand(at) == IF ~dir.first THEN {".", MadeUp} ELSE IF at <= Len(Entries) THEN {Entries[at]} ELSE {}

\* One turn of the loop of fs__readdir.
Readdir(r) ==
  LET q == [req[r] EXCEPT !.flags = {"PTR"}]
      at == NextEntry(q)
      fails == /\ mem' = mem \ {<<r, x>> : x \in Dents(1, q.used)}
               /\ hist' = [hist EXCEPT !.lost = TRUE]
               /\ Sets(r, Result(q, Error))
  IN /\ At(r, {"readdir"}, "work")
     /\ \/ /\ q.used = dir.nentries \/ (dir.first /\ at > Len(Entries))
           /\ Sets(r, Result(q, q.used)) /\ UNCHANGED <<mem, dir, hist>>
        \/ \* FindNextFileW fails, as it always does without a search handle
           q.used < dir.nentries /\ dir.call /\ fails /\ UNCHANGED dir
        \/ /\ q.used < dir.nentries /\ (dir.call => dir.first)
           /\ \E name \in AtHand(at) :
                \/ /\ name \in Dots
                   /\ dir' = [dir EXCEPT !.at = at, !.call = TRUE]
                   /\ Sets(r, q) /\ UNCHANGED <<mem, hist>>
                \/ /\ name \notin Dots
                   /\ dir' = [dir EXCEPT !.at = at, !.call = TRUE]
                   /\ mem' = Alloc(r, <<"dent", q.used + 1>>)
                   /\ hist' = [hist EXCEPT !.given = Append(@, name)]
                   /\ Sets(r, [q EXCEPT !.used = @ + 1])
                \* the name cannot be converted
                \/ name \notin Dots /\ fails /\ dir' = [dir EXCEPT !.at = at]
     /\ UNCHANGED <<disk, usermode>>

Closedir(r) ==
  /\ At(r, {"closedir"}, "work")
  /\ Frees("dir", {<<"ptr">>})
  /\ dir' = NoDir
  /\ Sets(r, Result(req[r], 0))
  /\ UNCHANGED <<disk, usermode>>

----------------------------------------------------------------------------
(* Links, temporary files and the rest *)

\* fs__symlink: a system without user-mode links refuses the flag, once.
Symlink(r) ==
  LET q == req[r] IN
  /\ At(r, {"symlink"}, "work")
  /\ \/ Sets(r, Result(q, 0)) /\ UNCHANGED usermode
     \/ Sets(r, Result(q, Error)) /\ UNCHANGED usermode
     \/ usermode /\ usermode' = FALSE /\ Sets(r, q)
  /\ UNCHANGED <<mem, disk, dir, hist>>

\* fs__create_junction: the directory is made, opened and turned into a junction.
JunctionBegins(r) ==
  /\ At(r, {"junction"}, "work")
  /\ \/ Sets(r, Result(req[r], Error)) /\ UNCHANGED <<disk, mem>>
     \/ /\ disk.junction = "none" /\ disk' = [disk EXCEPT !.junction = "dir"]
        /\ mem' = Alloc(r, <<"buffer">>)
        /\ Sets(r, [req[r] EXCEPT !.st = "made"])
  /\ UNCHANGED <<dir, usermode, hist>>

JunctionEnds(r) ==
  LET q == req[r] IN
  /\ At(r, {"junction"}, "made")
  /\ Frees(r, {<<"buffer">>})
  /\ \/ disk' = [disk EXCEPT !.junction = "junction"] /\ Sets(r, Result(q, 0))
     \/ disk' = [disk EXCEPT !.junction = "none"] /\ Sets(r, Result(q, Error))
  /\ UNCHANGED <<dir, usermode>>

MktempAny(r) ==
  LET q == req[r] IN
  /\ At(r, {"mktemp"}, "work")
  /\ \E n \in Names : Sets(r, Result([q EXCEPT !.ptr = n], 0)) /\ disk' = [disk EXCEPT !.temp = @ \cup {n}]
  /\ UNCHANGED <<mem, dir, usermode, hist>>

\* fs__mktemp: a name is drawn until one does not exist, TMP_MAX times at most.
\* The template may be wrong, or the file or its descriptor not be made.
Mktemp(r) ==
  LET q == req[r] IN
  /\ At(r, {"mktemp"}, "work")
  /\ \/ Sets(r, Result([q EXCEPT !.ptr = ""], Error)) /\ UNCHANGED disk
     \/ \E n \in Names :
          \/ /\ n \in disk.temp
             /\ Sets(r, IF q.tries + 1 = TmpMax THEN Result(q, Error) ELSE [q EXCEPT !.tries = @ + 1])
             /\ UNCHANGED disk
          \/ /\ n \notin disk.temp
             /\ disk' = [disk EXCEPT !.temp = @ \cup {n}]
             /\ Sets(r, Result([q EXCEPT !.ptr = n], 0))
  /\ UNCHANGED <<mem, dir, usermode, hist>>

\* fs__statfs: for a file the directory is asked, whose name needs memory.
Statfs(r) ==
  LET q == req[r] IN
  /\ At(r, {"statfs"}, "work")
  /\ \/ Sets(r, Result(q, Error)) /\ UNCHANGED <<mem, hist>>
     \/ disk.kind = "file" /\ Sets(r, [q EXCEPT !.st = "full"]) /\ mem' = Alloc(r, <<"full">>) /\ UNCHANGED hist
     \/ disk.kind # "file" /\ Sets(r, Result(Gives(q), 0)) /\ mem' = Alloc(r, <<"ptr">>) /\ UNCHANGED hist
  /\ UNCHANGED <<disk, dir, usermode>>

\* GetFullPathNameW, perhaps after uv__reallocf, and the second GetDiskFreeSpaceW.
StatfsAgain(r) ==
  LET q == req[r] IN
  /\ At(r, {"statfs"}, "full")
  /\ \/ Sets(r, Result(q, Error)) /\ Frees(r, {<<"full">>})
     \/ Sets(r, Result(Gives(q), 0)) /\ mem' = (mem \ {<<r, <<"full">>>>}) \cup {<<r, <<"ptr">>>>} /\ UNCHANGED hist
  /\ UNCHANGED <<disk, dir, usermode>>

\* Operations of one system call, reads and writes among them.
Other(r) ==
  /\ At(r, Bufs \cup {"other"}, "work")
  /\ \E n \in {0, Error} : Sets(r, Result(req[r], n))
  /\ UNCHANGED <<mem, disk, dir, usermode, hist>>

----------------------------------------------------------------------------
(* The text of links.  Reparse data hold a name of the NT name space: one  *)
(* that begins with \??\.                                                  *)

BS == "\\"
Nt == <<BS, "?", "?", BS>>
Long == <<BS, BS, "?", BS>>
Unc == <<"U", "N", "C", BS>>
IsSlash(c) == c \in {BS, "/"}
Letters == {"C", "N", "U"}

Begins(s, p) == Len(s) >= Len(p) /\ SubSeq(s, 1, Len(p)) = p
After(s, n) == SubSeq(s, n + 1, Len(s))
Drive(s) == Len(s) >= 2 /\ s[1] \in Letters /\ s[2] = ":" /\ (Len(s) = 2 \/ s[3] = BS)

\* fs__create_junction supports absolute names.
JunctionTakes(p) ==
  \/ Begins(p, Long)
  \/ Len(p) >= 3 /\ p[1] \in Letters /\ p[2] = ":" /\ IsSlash(p[3])

RECURSIVE Joined(_, _)
\* The loop over the name: runs of slashes become one backslash, the last goes.
Joined(p, slash) ==
  IF p = <<>> THEN <<>>
  ELSE IF IsSlash(Head(p)) THEN Joined(Tail(p), TRUE)
  ELSE (IF slash THEN <<BS, Head(p)>> ELSE <<Head(p)>>) \o Joined(Tail(p), FALSE)

JunctionName(p) == Joined(IF Begins(p, Long) THEN After(p, 4) ELSE p, FALSE)

\* The substitute and the print name, each with its end.
JunctionData(p) ==
  LET n == JunctionName(p) IN
  [substitute |-> Nt \o n \o <<BS>>, print |-> IF Len(n) = 2 THEN Append(n, BS) ELSE n]

JunctionUses(p) == Len(JunctionData(p).substitute) + 1 + Len(JunctionData(p).print) + 1
JunctionNeeds(p) == 4 + (2 * (Len(p) + 2))

\* CreateSymbolicLinkW makes an absolute name one of the NT name space.
SymlinkData(p) ==
  IF Drive(p) /\ Len(p) > 2 THEN Nt \o p
  ELSE IF Begins(p, <<BS, BS>>) /\ ~Begins(p, Long) THEN Nt \o Unc \o After(p, 2) ELSE p

ReadSymlinkCut(w) ==
  IF ~Begins(w, Nt) THEN w
  ELSE IF Drive(After(w, 4)) THEN After(w, 4)
  ELSE IF Begins(After(w, 4), Unc) THEN After(w, 7) ELSE w

\* fs__readlink_handle
ReadSymlink(w) ==
  IF ~Begins(w, Nt) THEN w
  ELSE IF Drive(After(w, 4)) THEN After(w, 4)
  ELSE IF Begins(After(w, 4), Unc) THEN <<BS>> \o After(w, 7) ELSE w

ReadJunction(w) == IF Begins(w, Nt) /\ Drive(After(w, 4)) THEN <<"ok", After(w, 4)>> ELSE <<"unsupported">>

\* fs__realpath_handle; the system names a file with the prefix of long paths.
FinalName(p) == IF Begins(p, <<BS, BS>>) THEN Long \o Unc \o After(p, 2) ELSE Long \o p
RealPath(w) ==
  IF Begins(w, Long \o Unc) THEN <<"ok", <<BS>> \o After(w, 7)>>
  ELSE IF Begins(w, Long) THEN <<"ok", After(w, 4)>> ELSE <<"error">>

Type(c) ==
  /\ Len(text) < MaxText /\ hist.types = {} /\ tick = 0
  /\ text' = Append(text, c)
  /\ UNCHANGED <<req, mem, disk, dir, usermode, hist, tick, uses>>

----------------------------------------------------------------------------
(* uv__filetime_to_timespec: the division of C, and long has 32 bits, which *)
(* ts->tv_sec * 10 exceeds.                                                 *)

Quot(a, b) == IF a >= 0 THEN a \div b ELSE -((-a) \div b)
Long32(x) == ((x + Half) % (2 * Half)) - Half

TimespecRaw(t) ==
  LET sec == Long32(Quot(t, Ten * Million)) IN
  [sec |-> sec, nsec |-> Long32((t - (Long32(sec * Ten) * Million)) * Hundred)]

Timespec(t) ==
  LET sec == Long32(Quot(t, Ten * Million))
      nsec == Long32((t - (Long32(sec * Ten) * Million)) * Hundred)
  IN IF nsec < 0 THEN [sec |-> sec - 1, nsec |-> nsec + (Ten * Million * Hundred)] ELSE [sec |-> sec, nsec |-> nsec]

----------------------------------------------------------------------------
Step(r) ==
  \/ \E t \in hist.types, cb \in BOOLEAN : Call(r, t, cb)
  \/ Cancel(r) \/ Work(r) \/ Done(r) \/ Cleanup(r) \/ ScandirNext(r)
  \/ OpenPath(r) \/ CloseHandle(r) \/ Unlink(r) \/ Stat(r) \/ Utime(r) \/ Readlink(r) \/ Fchmod(r)
  \/ ScanEntry(r) \/ ScanEnds(r) \/ ScanFree(r) \/ Opendir(r) \/ Readdir(r) \/ Closedir(r)
  \/ Symlink(r) \/ JunctionBegins(r) \/ JunctionEnds(r) \/ Mktemp(r) \/ Statfs(r) \/ StatfsAgain(r) \/ Other(r)

Rest == (\A r \in Reqs : req[r].st \in {"none", "clean"}) /\ UNCHANGED vars

Next == (\E r \in Reqs : Step(r)) \/ (\E c \in Alphabet : Type(c)) \/ Rest

Spec == Init /\ [][Next]_vars

----------------------------------------------------------------------------
(***************************************************************************)
(* What a request allocated or opened is given back: no handle is open     *)
(* when the work is over, all memory is free after uv_fs_req_cleanup, and  *)
(* nothing is freed twice, however far the work and uv_fs_scandir_next     *)
(* went, and whether the request failed, was cancelled or cleaned up       *)
(* twice.                                                                  *)
(***************************************************************************)
RequestsFreeAll ==
  /\ ~hist.twice
  /\ \A r \in Reqs :
       /\ req[r].st \in {"over", "told", "clean"} => req[r].handles = 0
       /\ req[r].st = "clean" => \A m \in mem : m[1] # r

(***************************************************************************)
(* uv_fs_unlink never removes a directory or a mount point; uv_fs_fchmod   *)
(* that succeeds leaves the archive flag as it found it and the read-only  *)
(* flag as asked; a junction that could not be made leaves no directory.   *)
(***************************************************************************)
PathIsKept ==
  /\ disk.origin \in {"dir", "mount"} => disk.kind = disk.origin
  /\ disk.junction = "dir" => \E r \in Reqs : At(r, {"junction"}, "made")
  /\ \A r \in Reqs :
       /\ At(r, {"fchmod"}, "over") /\ req[r].result = 0 /\ (\A s \in Reqs \ {r} : req[s].st = "none")
       => disk.ro = ~req[r].write /\ disk.archive = req[r].was.archive

(***************************************************************************)
(* The names that uv_fs_readdir gave since uv_fs_opendir are the first     *)
(* ones of the directory, each once and in order, without "." and "..",    *)
(* and all of them when it gives fewer than it has room for; uv_fs_scandir *)
(* gives as many.  Of a directory in which FindFirstFileW found nothing,   *)
(* which uv_fs_opendir does not refuse, at most one name is given, a       *)
(* made-up one and only into room for one; every other uv_fs_readdir       *)
(* fails, where 0 would be the answer, so that none of them tells the end. *)
(***************************************************************************)
EntriesOnce ==
  /\ dir.open /\ dir.first /\ ~hist.lost =>
       /\ Len(hist.given) <= Len(Listed)
       /\ hist.given = SubSeq(Listed, 1, Len(hist.given))
  /\ \A r \in Reqs :
       /\ At(r, {"readdir"}, "over") =>
            IF dir.first
            THEN ~hist.lost /\ req[r].result < dir.nentries => hist.given = Listed
            ELSE \/ req[r].result = Error
                 \/ req[r].result = 1 /\ dir.nentries = 1 /\ hist.given = <<MadeUp>>
       /\ At(r, {"scandir"}, "over") /\ req[r].result >= 0 => req[r].result = Len(Listed)

(***************************************************************************)
(* Two requests for a temporary file or directory never get the same name. *)
(***************************************************************************)
TempNamesDistinct ==
  \A r, s \in Reqs :
    /\ r # s /\ \A x \in {r, s} : req[x].type = "mktemp" /\ req[x].st \in {"over", "told"} /\ req[x].result = 0
    => req[r].ptr # req[s].ptr

(***************************************************************************)
(* uv_fs_readlink gives back what uv_fs_symlink was given, unless the user *)
(* named the NT name space; a junction reads as its target with one        *)
(* backslash between and after the names, and its reparse data fit the     *)
(* buffer; uv_fs_realpath gives the plain name.                            *)
(***************************************************************************)
LinksReadBack ==
  /\ ~Begins(text, Nt) => ReadSymlink(SymlinkData(text)) = text
  /\ JunctionTakes(text) =>
       /\ JunctionUses(text) <= JunctionNeeds(text)
       /\ Drive(JunctionName(text)) =>
            ReadJunction(JunctionData(text).substitute) = <<"ok", Append(JunctionName(text), BS)>>
       /\ ~Begins(text, Long) => Drive(JunctionName(text))
  /\ Drive(text) \/ (Begins(text, <<BS, BS>>) /\ Len(text) > 2) => RealPath(FinalName(text)) = <<"ok", text>>

(***************************************************************************)
(* A file time is converted exactly, to nanoseconds that are not negative, *)
(* before 1970 as well, although an intermediate product overflows.        *)
(***************************************************************************)
TimesConvert ==
  LET c == Timespec(tick)
      second == Ten * Million * Hundred
  IN c.nsec \in 0 .. (second - 1) /\ (c.sec * second) + c.nsec = tick * Hundred
==============================================================================
