------------------------------- MODULE Files -------------------------------
(***************************************************************************)
(* Opening directories and files (src/src/file.c).  A path is walked one   *)
(* component at a time; the component is put into a static buffer that is  *)
(* shared by all threads and guarded by path_comp_buf_mtx.  A path is the  *)
(* sequence of what stands between its slashes, so "" is an empty          *)
(* component.  The kernel and other processes are external; interrupted    *)
(* system calls are retried and are not modelled.  Descriptors are numbered *)
(* in the order in which a call opens them.                                *)
(***************************************************************************)
EXTENDS Integers, SequencesExt

CONSTANTS
  Openers,       \* threads that open files
  Nobody,        \* holder of a free mutex
  OpenPaths,     \* paths that are opened, without the leading slash
  LongName,      \* a name longer than NAME_MAX
  Others,        \* directories that another process makes or removes
  ContentMax,    \* size of the buffer of gg_file_read_path
  FileSizes      \* sizes a file may have

NoName == ""     \* what stands between two slashes, or after the last one

\* Every path names something below the base; the others are OpenRoot's.
ASSUME OpenPathsAssumption ==
  \A p \in OpenPaths : p \in Seq(STRING) /\ ToSet(p) \ {NoName} # {}
ASSUME NobodyAssumption == Nobody \notin Openers
ASSUME LongNameAssumption == LongName \in STRING /\ LongName # NoName
\* Directories have names; the base stays.
ASSUME OthersAssumption ==
  \A d \in Others : d \in Seq(STRING) \ {<<>>} /\ ToSet(d) \cap {NoName, LongName} = {}

VARIABLES
  comp_mtx,      \* holder of path_comp_buf_mtx
  comp_buf,      \* path_comp_buf
  dirs,          \* directories that exist, as sequences of names
  files,         \* files that exist
  open_pc,       \* [Openers -> where the call is]
  call,          \* [Openers -> the call: op, create, path, todo, at]
  fds,           \* [Openers -> descriptors that the call has opened and not closed]
  local,         \* [Openers -> the variables of its functions that hold descriptors]
  ebadf,         \* history: a system call got a descriptor that was not open
  open_ret,      \* [Openers -> GgError, "none" before the call returns]
  opened,        \* [Openers -> what the returned descriptor refers to]
  troubled       \* history: a system call failed, or another process meddled

descVars == <<fds, local, ebadf>>

fileVars == <<comp_mtx, comp_buf, dirs, files, open_pc, call, descVars, open_ret,
              opened, troubled>>

Ops == {"dir", "file", "read"}   \* gg_dir_open, gg_file_open, gg_file_read_path

NoOpen == [op |-> "dir", create |-> FALSE, path |-> <<>>, todo |-> <<>>, at |-> <<>>]

\* base_fd of gg_dir_open, gg_file_open and gg_file_read_path; cur_fd and
\* cur_fd_cleanup of gg_dir_openat; parent_fd of gg_mkdirat; cur_fd of
\* gg_file_openat; the fd that the call is for.  "issued" counts the opens.
Locals == {"base", "cur", "cleanup", "parent", "dir", "fd", "issued"}

FilesInit ==
  /\ comp_mtx = Nobody
  /\ comp_buf = NoName
  /\ dirs = {<<>>}
  /\ files = {}
  /\ open_pc = [t \in Openers |-> "idle"]
  /\ call = [t \in Openers |-> NoOpen]
  /\ fds = [t \in Openers |-> {}]
  /\ local = [t \in Openers |-> [v \in Locals |-> 0]]
  /\ ebadf = [t \in Openers |-> FALSE]
  /\ open_ret = [t \in Openers |-> "none"]
  /\ opened = [t \in Openers |-> <<>>]
  /\ troubled = [t \in Openers |-> FALSE]

strip_trailing_slashes(path) ==
  SubSeq(path, 1, Max({0} \cup {i \in 1..Len(path) : path[i] # NoName}))

\* The directory part of a path that has one, as gg_dir_openat strips it: if
\* nothing is left, one empty component.
split_path_last_comp(path) ==
  LET dir == strip_trailing_slashes(Front(path))
  IN IF dir = <<>> THEN <<NoName>> ELSE dir

New(t) == local[t].issued + 1    \* the descriptor that the next open returns

\* A step passes the descriptors `used' to system calls, opens `got' and closes
\* `closed'.
SystemCalls(t, used, got, closed) ==
  /\ fds' = [fds EXCEPT ![t] = (@ \cup got) \ closed]
  /\ ebadf' = [ebadf EXCEPT ![t] = @ \/ ~(used \cup closed \subseteq fds[t] \cup got)]

Store(t, vars) ==                \* assign the descriptor that was opened
  local' = [local EXCEPT ![t] =
              [v \in Locals |-> IF v \in vars \cup {"issued"} THEN New(t) ELSE @[v]]]

\* The variables whose GG_CLEANUP is in scope: every return there closes them.
Cleanups(pc) ==
  CASE pc \in {"copydir", "copyfile"} -> {"base"}
    [] pc \in {"lock", "comp", "open", "mkdir", "reopen"} -> {"base", "cleanup"}
    [] pc \in {"mkdirat", "fsync"} -> {"base", "cleanup", "parent"}
    [] pc \in {"file", "openfile"} -> {"base", "dir"}
    [] pc = "read" -> {"base", "fd"}
    [] OTHER -> {}

\* A return, of the descriptor in got if there is one; cleanups close and unlock.
ReturnWith(t, err, used, got, what) ==
  /\ open_pc' = [open_pc EXCEPT ![t] = "done"]
  /\ open_ret' = [open_ret EXCEPT ![t] = err]
  /\ SystemCalls(t, used, got, {local[t][v] : v \in Cleanups(open_pc[t])})
  /\ IF got = {} THEN UNCHANGED local ELSE Store(t, {"fd"})
  /\ opened' = [opened EXCEPT ![t] = what]
  /\ comp_mtx' = IF comp_mtx = t THEN Nobody ELSE comp_mtx

Fail(t, err, used) == ReturnWith(t, err, used, {}, <<>>)

Goto(t, where) ==
  /\ open_pc' = [open_pc EXCEPT ![t] = where]
  /\ UNCHANGED <<open_ret, opened>>

\* gg_dir_open, gg_file_open, gg_file_read_path: open the base, which may fail.
\* split_path_last_comp parts a file from its directory.
OpenBegin(t, op, create, path, opens) ==
  LET todo == IF op = "dir" THEN strip_trailing_slashes(path)
              ELSE IF Len(path) = 1 THEN <<>> ELSE split_path_last_comp(path)
  IN /\ open_pc[t] = "idle"
     /\ op = "read" => ~create
     /\ call' = [call EXCEPT ![t] = [op |-> op, create |-> create, path |-> path,
                                     todo |-> todo, at |-> <<>>]]
     /\ troubled' = [troubled EXCEPT ![t] = ~opens]
     /\ IF opens
          THEN /\ SystemCalls(t, {}, {New(t)}, {})
               /\ Store(t, {"base"})
               /\ Goto(t, IF todo = <<>> THEN "copyfile" ELSE "copydir")
               /\ UNCHANGED comp_mtx
          ELSE Fail(t, "FAILURE", {})
     /\ UNCHANGED <<comp_buf, dirs, files>>

\* The paths "" and "/" are no files, and "" is no directory; the directory "/"
\* is opened at once, and that may fail.
OpenRoot(t, op, root, opens) ==
  /\ open_pc[t] = "idle"
  /\ call' = [call EXCEPT ![t] = [NoOpen EXCEPT !.op = op]]
  /\ troubled' = [troubled EXCEPT ![t] = ~opens]
  /\ IF op # "dir" \/ root = NoName THEN Fail(t, "INVALID", {})
     ELSE IF opens THEN ReturnWith(t, "OK", {}, {New(t)}, <<>>)
     ELSE Fail(t, "FAILURE", {})
  /\ UNCHANGED <<comp_buf, dirs, files>>

\* copy_dir_fd in gg_dir_openat, and in gg_file_openat for a path of one component.
DirCopy(t) ==
  /\ \/ /\ open_pc[t] = "copydir"
        /\ Store(t, {"cur", "cleanup"})
        /\ Goto(t, "lock")
     \/ /\ open_pc[t] = "copyfile"
        /\ Store(t, {"dir"})
        /\ Goto(t, "file")
  /\ SystemCalls(t, {local[t].base}, {New(t)}, {})
  /\ UNCHANGED <<comp_mtx, comp_buf, dirs, files, call, troubled>>

DirLock_None(t) ==                                              \* Mutant.
  /\ open_pc[t] = "lock"
  /\ Goto(t, "comp")
  /\ UNCHANGED <<comp_mtx, comp_buf, dirs, files, call, descVars, troubled>>

DirLock(t) ==
  /\ open_pc[t] = "lock"
  /\ comp_mtx = Nobody
  /\ comp_mtx' = t
  /\ Goto(t, "comp")
  /\ UNCHANGED <<comp_buf, dirs, files, call, descVars, troubled>>

\* split_path_first_comp; an empty component is skipped unless it is the last.
DirComp(t) ==
  LET todo == call[t].todo
  IN /\ open_pc[t] = "comp"
     /\ IF Head(todo) = NoName /\ Len(todo) > 1
          THEN /\ call' = [call EXCEPT ![t].todo = Tail(todo)]
               /\ UNCHANGED <<comp_mtx, comp_buf, open_pc, descVars, open_ret, opened>>
        ELSE IF Head(todo) = LongName
          THEN /\ Fail(t, IF Len(todo) > 1 THEN "RANGE" ELSE "NOMEM", {})
               /\ UNCHANGED <<comp_buf, call>>
        ELSE /\ comp_buf' = Head(todo)
             /\ Goto(t, "open")
             /\ UNCHANGED <<comp_mtx, call, descVars>>
     /\ UNCHANGED <<dirs, files, troubled>>

Named(t) == Append(call[t].at, comp_buf)   \* what openat(cur_fd, path_comp_buf) means

Swapped_OldCleanup == {"cur"}        \* Mutant: the cleanup closes the old cur_fd.

Swapped == {"cur", "cleanup"}        \* what the swap of cur_fd assigns

\* The next directory is open.  It takes the place of cur_fd, which is closed; or
\* gg_dir_openat returns it and closes cur_fd.
DirOpened(t) ==
  LET cur == local[t].cur
  IN IF Len(call[t].todo) > 1
       THEN /\ call' = [call EXCEPT ![t].todo = Tail(@), ![t].at = Named(t)]
            /\ SystemCalls(t, {cur}, {New(t)}, {cur})
            /\ Store(t, Swapped)
            /\ Goto(t, "comp")
            /\ UNCHANGED comp_mtx
     ELSE IF call[t].op = "dir"
       THEN ReturnWith(t, "OK", {cur}, {New(t)}, Named(t)) /\ UNCHANGED call
     ELSE /\ call' = [call EXCEPT ![t].todo = <<>>, ![t].at = Named(t)]
          /\ SystemCalls(t, {cur}, {New(t)}, {local[t].cleanup})
          /\ Store(t, {"dir"})
          /\ comp_mtx' = Nobody
          /\ Goto(t, "file")

DirOpen(t) ==
  /\ open_pc[t] = "open"
  /\ IF Named(t) \in dirs THEN DirOpened(t)
     ELSE IF call[t].create /\ Named(t) \notin files
       THEN /\ SystemCalls(t, {local[t].cur}, {}, {})
            /\ Goto(t, "mkdir")
            /\ UNCHANGED <<comp_mtx, call, local>>
       ELSE Fail(t, "FAILURE", {local[t].cur}) /\ UNCHANGED call
  /\ UNCHANGED <<comp_buf, dirs, files, troubled>>

\* gg_mkdirat: copy the parent's descriptor, make the directory, sync and close.
MkdirCopy(t) ==
  /\ open_pc[t] = "mkdir"
  /\ SystemCalls(t, {local[t].cur}, {New(t)}, {})
  /\ Store(t, {"parent"})
  /\ Goto(t, "mkdirat")
  /\ UNCHANGED <<comp_mtx, comp_buf, dirs, files, call, troubled>>

\* mkdirat(parent_fd, path_comp_buf) can succeed.
Makeable(t) ==
  comp_buf # NoName /\ call[t].at \in dirs /\ Named(t) \notin dirs \cup files

DirMkdir(t) ==
  /\ open_pc[t] = "mkdirat"
  /\ IF Makeable(t)
       THEN /\ dirs' = dirs \cup {Named(t)}
            /\ SystemCalls(t, {local[t].parent}, {}, {})
            /\ Goto(t, "fsync")
            /\ UNCHANGED <<comp_mtx, local>>
       ELSE Fail(t, "FAILURE", {local[t].parent}) /\ UNCHANGED dirs
  /\ UNCHANGED <<comp_buf, files, call, troubled>>

DirSync(t) ==
  /\ open_pc[t] = "fsync"
  /\ SystemCalls(t, {local[t].parent}, {}, {local[t].parent})
  /\ Goto(t, "reopen")
  /\ UNCHANGED <<comp_mtx, comp_buf, dirs, files, call, local, troubled>>

DirReopen(t) ==
  /\ open_pc[t] = "reopen"
  /\ IF Named(t) \in dirs THEN DirOpened(t)
     ELSE Fail(t, "FAILURE", {local[t].cur}) /\ UNCHANGED call
  /\ UNCHANGED <<comp_buf, dirs, files, troubled>>

\* The rest of gg_file_openat, with the directory in its cur_fd.
FileLock(t) ==
  LET file == Last(call[t].path)
  IN /\ open_pc[t] = "file"
     /\ IF file = LongName
          THEN Fail(t, "NOMEM", {}) /\ UNCHANGED comp_buf
          ELSE /\ comp_mtx = Nobody
               /\ comp_mtx' = t
               /\ comp_buf' = file
               /\ Goto(t, "openfile")
               /\ UNCHANGED descVars
     /\ UNCHANGED <<dirs, files, call, troubled>>

\* Without O_CREAT a directory opens as well, and cannot be read.
FileOpen(t) ==
  LET dir == local[t].dir
      exists == Named(t) \in files \/ (Named(t) \in dirs /\ ~call[t].create)
      creates == call[t].create /\ Makeable(t)
  IN /\ open_pc[t] = "openfile"
     /\ files' = IF creates THEN files \cup {Named(t)} ELSE files
     /\ IF ~exists /\ ~creates THEN Fail(t, "FAILURE", {dir})
        ELSE IF call[t].op = "file" THEN ReturnWith(t, "OK", {dir}, {New(t)}, Named(t))
        ELSE /\ comp_mtx' = Nobody
             /\ SystemCalls(t, {dir}, {New(t)}, {dir})
             /\ Store(t, {"fd"})
             /\ open_pc' = [open_pc EXCEPT ![t] = "read"]
             /\ opened' = [opened EXCEPT ![t] = Named(t)]
             /\ UNCHANGED open_ret
     /\ UNCHANGED <<comp_buf, dirs, call, troubled>>

\* fstat and gg_file_read_exact: the file may have been cut in between.
FileRead(t, size, left) ==
  /\ open_pc[t] = "read"
  /\ ReturnWith(t, IF size > ContentMax THEN "NOMEM"
                   ELSE IF opened[t] \notin files THEN "FAILURE"
                   ELSE IF left < size THEN "NODATA" ELSE "OK",
                {local[t].fd}, {}, opened[t])
  /\ UNCHANGED <<comp_buf, dirs, files, call, troubled>>

\* open, copy_dir_fd, mkdirat, fsync, fstat or read fails for its own reasons.
SystemFails(t) ==
  /\ open_pc[t] \in {"copydir", "copyfile", "open", "mkdir", "mkdirat", "fsync",
                     "reopen", "openfile", "read"}
  /\ Fail(t, "FAILURE", {})
  /\ troubled' = [troubled EXCEPT ![t] = TRUE]
  /\ UNCHANGED <<comp_buf, dirs, files, call>>

\* A call that has returned a descriptor.
Returns(t) == open_pc[t] = "done" /\ open_ret[t] = "OK" /\ call[t].op # "read"

OpenReturn(t) ==       \* the caller uses the descriptor and closes it
  /\ open_pc[t] = "done"
  /\ open_pc' = [open_pc EXCEPT ![t] = "idle"]
  /\ open_ret' = [open_ret EXCEPT ![t] = "none"]
  /\ SystemCalls(t, {}, {}, IF Returns(t) THEN {local[t].fd} ELSE {})
  /\ local' = [local EXCEPT ![t] = [v \in Locals |-> 0]]
  /\ opened' = [opened EXCEPT ![t] = <<>>]
  /\ call' = [call EXCEPT ![t] = NoOpen]
  /\ troubled' = [troubled EXCEPT ![t] = FALSE]
  /\ UNCHANGED <<comp_mtx, comp_buf, dirs, files>>

Removed == <<LongName>>   \* where a call stands whose directory was removed

\* Another process makes a directory or removes one that is empty.
OtherProcess(d) ==
  /\ IF d \in dirs
       THEN /\ \A x \in dirs \cup files : x # d => ~IsPrefix(d, x)
            /\ dirs' = dirs \ {d}
            /\ call' = [t \in Openers |->
                          IF call[t].at = d THEN [call[t] EXCEPT !.at = Removed]
                          ELSE call[t]]
       ELSE /\ Front(d) \in dirs /\ d \notin files
            /\ dirs' = dirs \cup {d}
            /\ UNCHANGED call
  /\ troubled' = [t \in Openers |-> open_pc[t] # "idle"]
  /\ UNCHANGED <<comp_mtx, comp_buf, files, open_pc, descVars, open_ret, opened>>

FilesNext ==
  \/ \E t \in Openers :
       \/ \E op \in Ops, create, opens \in BOOLEAN, path \in OpenPaths :
            OpenBegin(t, op, create, path, opens)
       \/ \E op \in Ops, root \in {NoName, "/"}, opens \in BOOLEAN :
            OpenRoot(t, op, root, opens)
       \/ DirCopy(t) \/ DirLock(t) \/ DirComp(t) \/ DirOpen(t)
       \/ MkdirCopy(t) \/ DirMkdir(t) \/ DirSync(t) \/ DirReopen(t)
       \/ FileLock(t) \/ FileOpen(t)
       \/ \E size, left \in FileSizes : FileRead(t, size, left)
       \/ SystemFails(t)
       \/ OpenReturn(t)
  \/ \E d \in Others : OtherProcess(d)

FilesSpec == FilesInit /\ [][FilesNext]_fileVars

-----------------------------------------------------------------------------
\* A name stands for the first n components of a path: for those that are not
\* empty, in their order.
Names(name, path, n) ==
  \E place \in [1..Len(name) -> 1..n] :
    /\ \A i, j \in 1..Len(name) : i < j => place[i] < place[j]
    /\ \A i \in 1..Len(name) : name[i] = path[place[i]]
    /\ {place[i] : i \in 1..Len(name)} = {k \in 1..n : path[k] # NoName}

\* A descriptor that is returned refers to the path that was asked for, with
\* empty components ignored, although the components of all threads go through
\* one buffer (path_comp_buf).
OpensNamedPath ==
  \A t \in Openers :
    open_ret[t] = "OK" => Names(opened[t], call[t].path, Len(call[t].path))

\* No call of gg_dir_open, gg_file_open or gg_file_read_path passes a descriptor
\* that is not open to a system call, nor closes one twice (which may by then be
\* another thread's), and one that has returned has closed all that it opened, in
\* whatever component and function it failed, except exactly its result.
NoDescriptorLeak ==
  \A t \in Openers :
    /\ ~ebadf[t]
    /\ open_pc[t] \in {"idle", "done"} =>
         fds[t] = IF Returns(t) THEN {local[t].fd} ELSE {}

\* What may make an open fail: an error of the system or a change by another
\* process, a name that is too long, a file where a directory has to be, an empty
\* file name, a lone empty directory name, or a directory where the file has to be.
Excused(t) ==
  LET op == call[t].op
      path == call[t].path
  IN \/ troubled[t]
     \/ LongName \in ToSet(path)
     \/ \E x \in files, n \in 1..Len(path) :
          /\ Names(x, path, n)
          /\ op = "dir" \/ \E i \in (n + 1)..Len(path) : path[i] # NoName
     \/ /\ op = "file"
        /\ \/ Last(path) = NoName
           \/ Len(path) > 1 /\ strip_trailing_slashes(Front(path)) = <<>>
           \/ \E x \in dirs : Names(x, path, Len(path))

\* Threads that create the same missing directories do not fail each other: an
\* open that creates (gg_dir_openat_mkdir) fails only for a reason of its own.
CreateSucceeds ==
  \A t \in Openers :
    call[t].create /\ open_ret[t] \notin {"none", "OK"} => Excused(t)
=============================================================================
