-------------------------------- MODULE Demos -------------------------------
(***************************************************************************)
(* Three programs of this repository, one of which, prog, a behaviour is   *)
(* about:                                                                  *)
(*   echo  my_demo/libuv-client.c and libuv-server.c: the client sends a   *)
(*         buffer, and another one a second after each write was done; the *)
(*         server writes as many bytes back as it reads.                   *)
(*   shm   shme/shm_write.c and shm_read.c: two processes on one segment.  *)
(*   sql   sql/sqlite-execute-sql-file.c: a file of statements is read and *)
(*         executed while others may write to the file.                    *)
(* Bytes of the echo programs are counted; libuv is seen from above: a     *)
(* write ends in its callback, also when the handle is closed meanwhile,   *)
(* and uv_write fails at once on a handle that is closing (see StreamWrite *)
(* and StreamRead).                                                        *)
(***************************************************************************)
EXTENDS Integers, Sequences, SequencesExt, FiniteSets

CONSTANTS
  Buffer,       \* BUFFER_SIZE
  MaxSends,     \* bound on the buffers sent
  Capacity,     \* of a socket's buffer
  Message,      \* what shm_write writes, a sequence without 0
  SegmentSize,  \* of the shared segment
  Files,        \* the contents an SQL file may have
  MaxSql        \* MAX_SQL_SIZE

VARIABLE d
vars == <<d>>

Echo ==
  [prog |-> "echo", client |-> "connecting", server |-> "up", writes |-> <<>>, timers |-> 0,
   sends |-> 0, made |-> 0, freed |-> 0, leaked |-> 0, out |-> 0, back |-> 0,
   echoes |-> <<>>, sent |-> 0, received |-> 0]
Shm ==
  [prog |-> "shm", segment |-> <<>>, writer |-> "shmget", written |-> {},
   reader |-> "shmget", text |-> <<>>]
Sql(file) ==
  [prog |-> "sql", pc |-> "open", file |-> file, size |-> 0, sql |-> <<>>, done |-> <<>>,
   db |-> FALSE, fp |-> FALSE, buffer |-> FALSE, loaded |-> 0, badopen |-> FALSE,
   says |-> "nothing", status |-> -1]

Init == d \in {Echo, Shm} \cup {Sql(f) : f \in Files}

-----------------------------------------------------------------------------
(* echo                                                                    *)

IsEcho == d.prog = "echo"
Sum(seq) ==
  LET total[n \in 0..Len(seq)] == IF n = 0 THEN 0 ELSE total[n - 1] + seq[n]
  IN total[Len(seq)]

\* Mutant: the timer that called is not closed, and calls again.
SentAndAgain(s, timer) ==
  [s EXCEPT !.made = @ + 1, !.sends = @ + 1, !.writes = Append(@, Buffer)]

\* send_data: the result of uv_write is not looked at.
send_data(s, timer) ==
  LET t == [s EXCEPT !.made = @ + 1, !.sends = @ + 1,
                     !.timers = IF timer THEN @ - 1 ELSE @]
  IN IF s.client = "up" THEN [t EXCEPT !.writes = Append(@, Buffer)]
     ELSE [t EXCEPT !.leaked = @ + 1]

\* on_connect: with an error nothing is left to do and the loop ends.
on_connect(ok) ==
  /\ IsEcho /\ d.client = "connecting"
  /\ d' = IF ok THEN send_data([d EXCEPT !.client = "up"], FALSE)
          ELSE [d EXCEPT !.client = "ended"]

\* Mutant: a write that failed is not freed.
on_write_kept(s, status) ==
  [s EXCEPT !.freed = IF status = 0 THEN @ + 1 ELSE @, !.timers = @ + 1, !.writes = Tail(@)]

on_write(s, status) == [s EXCEPT !.freed = @ + 1, !.timers = @ + 1, !.writes = Tail(@)]

\* The kernel takes n bytes of the first write; the last one ends it.
ClientWrites(n) ==
  /\ IsEcho /\ d.client = "up" /\ d.server = "up" /\ d.writes # <<>>
  /\ n <= Head(d.writes) /\ d.out + n <= Capacity
  /\ LET t == [d EXCEPT !.out = @ + n, !.sent = @ + n, !.writes[1] = @ - n]
     IN d' = IF t.writes[1] = 0 THEN on_write(t, 0) ELSE t

\* EPIPE or ECONNRESET
ClientWriteFails ==
  /\ IsEcho /\ d.client = "up" /\ d.server # "up" /\ d.writes # <<>>
  /\ d' = on_write(d, -1)

TimerFires ==
  /\ IsEcho /\ d.timers > 0 /\ d.sends < MaxSends
  /\ d' = send_data(d, TRUE)

\* on_read with data, or with an error or the end: "uv_close(stream, NULL)".
ClientReads(n) ==
  /\ IsEcho /\ d.client = "up" /\ n <= d.back
  /\ d' = [d EXCEPT !.back = @ - n, !.received = @ + n]

ClientReadsEnd ==
  /\ IsEcho /\ d.client = "up" /\ d.server # "up" /\ d.back = 0
  /\ d' = [d EXCEPT !.client = "closing"]

\* uv__finish_close: a write that is left ends with UV_ECANCELED.
ClientCloses ==
  /\ IsEcho /\ d.client = "closing"
  /\ d' = [IF d.writes # <<>> THEN on_write(d, -1) ELSE d EXCEPT !.client = "closed"]

\* Mutant: the buffer is echoed as a whole, whatever was read.
echo_all(s, n) == [s EXCEPT !.out = @ - n, !.echoes = Append(@, Buffer)]

\* echo_read of the server with n bytes.
echo_read(s, n) == [s EXCEPT !.out = @ - n, !.echoes = Append(@, n)]

ServerReads(n) ==
  /\ IsEcho /\ d.server = "up" /\ n <= d.out
  /\ d' = echo_read(d, n)

ServerWrites(n) ==
  /\ IsEcho /\ d.server = "up" /\ d.echoes # <<>>
  /\ n <= Head(d.echoes) /\ d.back + n <= Capacity
  /\ LET t == [d EXCEPT !.back = @ + n, !.echoes[1] = @ - n]
     IN d' = IF t.echoes[1] = 0 THEN [t EXCEPT !.echoes = Tail(@)] ELSE t

\* The server's process ends, or it closes the connection after an error.
ServerGone ==
  /\ IsEcho /\ d.server = "up" /\ d.client # "connecting"
  /\ d' = [d EXCEPT !.server = "gone", !.echoes = <<>>, !.out = 0]

-----------------------------------------------------------------------------
(* shm                                                                     *)

IsShm == d.prog = "shm"

\* Mutant: the memory of a new segment is not cleared.
AttachedRaw(segment) ==
  IF segment = <<>> THEN [i \in 1..SegmentSize |-> 7] ELSE segment

\* shmget with IPC_CREAT: the segment, or a new one that is all zeros.
shmget(segment) ==
  IF segment = <<>> THEN [i \in 1..SegmentSize |-> 0] ELSE segment

WriterAttaches ==
  /\ IsShm /\ d.writer = "shmget"
  /\ d' = [d EXCEPT !.segment = shmget(@), !.writer = "strcpy"]

ReaderAttaches ==
  /\ IsShm /\ d.reader = "shmget"
  /\ d' = [d EXCEPT !.segment = shmget(@), !.reader = "printf"]

\* strcpy stores the characters and the final 0 in an order of its own.
Strcpy(i) ==
  /\ IsShm /\ d.writer = "strcpy" /\ i \notin d.written
  /\ d' = [d EXCEPT !.segment[i] = IF i > Len(Message) THEN 0 ELSE Message[i],
                    !.written = @ \cup {i}]

WriterDetaches ==
  /\ IsShm /\ d.writer = "strcpy" /\ d.written = 1..(Len(Message) + 1)
  /\ d' = [d EXCEPT !.writer = "done"]

\* printf reads up to the first 0.
Printf ==
  /\ IsShm /\ d.reader = "printf" /\ Len(d.text) < SegmentSize
  /\ LET c == d.segment[Len(d.text) + 1]
     IN d' = IF c = 0 THEN [d EXCEPT !.reader = "done"] ELSE [d EXCEPT !.text = Append(@, c)]

-----------------------------------------------------------------------------
(* sql                                                                     *)

IsSql(pc) == d.prog = "sql" /\ d.pc = pc

\* Status 0 also after a statement that failed.
Exit(s, says) ==
  [s EXCEPT !.pc = "exit", !.says = says, !.status = IF says = "error" THEN 1 ELSE 0]

\* Another program writes the file.
FileIsWritten ==
  /\ d.prog = "sql" /\ d.pc \notin {"exit", "killed"}
  /\ \E f \in Files \ {d.file} : d' = [d EXCEPT !.file = f]

sqlite3_open(ok) ==
  /\ IsSql("open")
  /\ d' = IF ok THEN [d EXCEPT !.db = TRUE, !.pc = "fopen"]
          ELSE Exit([d EXCEPT !.db = TRUE, !.badopen = TRUE], "error")

Fopen(ok) ==
  /\ IsSql("fopen")
  /\ d' = IF ok THEN [d EXCEPT !.fp = TRUE, !.pc = "ftell"]
          ELSE Exit([d EXCEPT !.db = FALSE], "error")

\* The size, or -1 for a file that has none, such as a pipe; fseek and ftell are not
\* looked at, and -1 is not too large.
Ftell(ok) ==
  /\ IsSql("ftell")
  /\ LET size == IF ok THEN Len(d.file) ELSE -1
     IN d' = IF size > MaxSql THEN Exit([d EXCEPT !.fp = FALSE, !.db = FALSE], "error")
             ELSE [d EXCEPT !.size = size, !.pc = "malloc"]

\* file_size + 1 bytes
Room(s) == s.size + 1

Malloc(ok) ==
  /\ IsSql("malloc")
  /\ d' = IF ok THEN [d EXCEPT !.buffer = TRUE, !.pc = "fread"]
          ELSE Exit([d EXCEPT !.fp = FALSE, !.db = FALSE], "error")

\* Mutant: less than the whole is not an error.
ShortNever(size, n) == FALSE
\* "fread(...) != file_size", where -1 is SIZE_MAX
Short(size, n) == n # size

\* Mutant: the error path forgets the buffer.
ShortExitKeeps(s) == Exit([s EXCEPT !.fp = FALSE, !.db = FALSE], "error")
ShortExit(s) == Exit([s EXCEPT !.buffer = FALSE, !.fp = FALSE, !.db = FALSE], "error")

\* fread is asked for file_size bytes, of SIZE_MAX if that is -1, and stores n of
\* what the file holds: fewer, if the file has shrunk or cannot be read.  Bytes that
\* do not fit the buffer go over other memory: the program is killed, or goes on.
Fread ==
  /\ IsSql("fread")
  /\ \E n \in 0..Len(d.file) :
       LET s == [d EXCEPT !.loaded = n] IN
       /\ d.size = -1 \/ n <= d.size
       /\ IF Short(d.size, n)
          THEN d' = ShortExit(s) \/ (n > Room(d) /\ d' = [s EXCEPT !.pc = "killed"])
          ELSE d' = [s EXCEPT !.sql = SubSeq(d.file, 1, n), !.fp = FALSE, !.pc = "exec"]

\* sqlite3_exec runs statement after statement, each on its own, up to a
\* NUL, and stops at the first that fails.
Exec ==
  /\ IsSql("exec")
  /\ LET n == Len(d.done) + 1
         end == n > Len(d.sql) \/ d.sql[n] = "nul"
         over == [d EXCEPT !.buffer = FALSE, !.db = FALSE]
     IN d' = IF end THEN Exit(over, "success")
             ELSE IF d.sql[n] = "bad" THEN Exit(over, "SQL error")
             ELSE [d EXCEPT !.done = Append(@, d.sql[n])]

Next ==
  \/ \E ok \in BOOLEAN : on_connect(ok) \/ sqlite3_open(ok) \/ Fopen(ok) \/ Ftell(ok) \/ Malloc(ok)
  \/ \E n \in 1..Buffer : \/ ClientWrites(n) \/ ClientReads(n)
                          \/ ServerReads(n) \/ ServerWrites(n)
  \/ ClientWriteFails \/ TimerFires \/ ClientReadsEnd \/ ClientCloses \/ ServerGone
  \/ WriterAttaches \/ ReaderAttaches \/ WriterDetaches \/ Printf
  \/ \E i \in 1..(Len(Message) + 1) : Strcpy(i)
  \/ FileIsWritten \/ Fread \/ Exec

Spec == Init /\ [][Next]_vars

-----------------------------------------------------------------------------
(* Properties.                                                             *)

TypeOK == d.prog \in {"echo", "shm", "sql"}

(***************************************************************************)
(* libuv-server.c: as long as the connection is up, the server sends back  *)
(* as many bytes as it got, however the stream is cut into reads and       *)
(* writes.                                                                 *)
(***************************************************************************)
EchoIsExact ==
  IsEcho /\ d.server = "up" => d.sent = d.out + Sum(d.echoes) + d.back + d.received

(***************************************************************************)
(* libuv-client.c, on_write and send_data: the client has exactly one      *)
(* buffer on its way or one timer for the next, so that it neither falls   *)
(* silent nor sends more and more often; only when uv_write refuses a      *)
(* buffer the chain ends.                                                  *)
(***************************************************************************)
OneSendAtATime ==
  IsEcho /\ d.client \notin {"connecting", "ended"} =>
    Len(d.writes) + d.timers + d.leaked = 1

(***************************************************************************)
(* free_write_req: every write request is freed once its callback is       *)
(* called; the one that uv_write refuses, because on_read has closed the   *)
(* connection, is lost, and it is the last.                                *)
(***************************************************************************)
RequestsAreFreed ==
  IsEcho => /\ d.made = d.freed + Len(d.writes) + d.leaked
            /\ d.leaked > 0 => d.leaked = 1 /\ d.client \in {"closing", "closed"} /\ d.timers = 0

(***************************************************************************)
(* shm_read.c: without any synchronisation the reader prints a beginning   *)
(* of the message, and stays inside the segment, whenever it looks and in  *)
(* whatever order strcpy stores.                                           *)
(***************************************************************************)
BeginningIsRead ==
  IsShm => IsPrefix(d.text, Message) /\ Len(d.text) < SegmentSize

(***************************************************************************)
(* sqlite-execute-sql-file.c: what is executed is a beginning of what was  *)
(* read, and "success" means all of it, up to a NUL; an answer that the    *)
(* file was read means as many statements as its size said.  Status 1      *)
(* means that nothing was executed; status 0 does not mean success.        *)
(***************************************************************************)
SuccessIsWhole ==
  d.prog = "sql" =>
    /\ IsPrefix(d.done, d.sql)
    /\ d.says = "success" =>
         /\ Len(d.sql) = d.size
         /\ d.done = d.sql \/ d.sql[Len(d.done) + 1] = "nul"
    /\ d.says = "SQL error" => d.sql[Len(d.done) + 1] = "bad"
    /\ d.status = 1 => d.done = <<>>

(***************************************************************************)
(* sqlite-execute-sql-file.c: what fread stores fits the buffer, however   *)
(* others change the file meanwhile, except after an ftell that failed:    *)
(* the size is then -1, below the limit, malloc is asked for no byte and   *)
(* fread for SIZE_MAX of them.  In that case no statement is executed and  *)
(* the program does not end as if all were well.  No more than             *)
(* MAX_SQL_SIZE bytes are ever executed.                                   *)
(***************************************************************************)
SizeProtects ==
  d.prog = "sql" =>
    /\ d.loaded > Room(d) => d.size = -1
    /\ d.size = -1 => d.done = <<>> /\ d.status # 0
    /\ Len(d.sql) <= MaxSql

(***************************************************************************)
(* sqlite-execute-sql-file.c: on every way out the file is closed, the     *)
(* buffer freed and the database closed (not after sqlite3_open failed).   *)
(***************************************************************************)
ExitsCleanly ==
  d.prog = "sql" /\ d.pc = "exit" => ~d.fp /\ ~d.buffer /\ (d.db <=> d.badopen)
=============================================================================
