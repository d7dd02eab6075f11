------------------------------ MODULE Syscalls ------------------------------
(***************************************************************************)
(* The system calls of a program, with their arguments and the set of the  *)
(* results that the program accepts.                                       *)
(***************************************************************************)
EXTENDS Integers

LAST == -2            \* the descriptor the last open() returned

ok == 0..9
fails == {-1}
any == ok \cup fails
O_RDONLY == {}
O_WRONLY == {"O_WRONLY"}
O_RDWR == {"O_RDWR"}
O_CREATE == {"O_CREATE"}
O_CREATE_RDWR == {"O_CREATE", "O_RDWR"}

open(path, mode, want) == [call |-> "open", path |-> path, mode |-> mode, want |-> want]
close(fd, want) == [call |-> "close", fd |-> fd, want |-> want]
dup(fd, want) == [call |-> "dup", fd |-> fd, want |-> want]
write(fd, data, want) == [call |-> "write", fd |-> fd, data |-> data, want |-> want]
\* A read that must deliver exactly this data, or these numbers of data in any order; reads of n cells
\* until there are none.
read(fd, n, data) == [call |-> "read", fd |-> fd, n |-> n, order |-> TRUE, until_eof |-> FALSE, want |-> {data}]
count(fd, n, bag) == [read(fd, n, bag) EXCEPT !.order = FALSE]
reads(fd, n, data) == [read(fd, n, data) EXCEPT !.until_eof = TRUE]
fstat(fd, type, size) == [call |-> "fstat", fd |-> fd, want |-> {[type |-> type, size |-> size]}]
pipe(want) == [call |-> "pipe", want |-> want]
mkdir(path, want) == [call |-> "mkdir", path |-> path, want |-> want]
mknod(path, want) == [call |-> "mknod", path |-> path, want |-> want]
chdir(path, want) == [call |-> "chdir", path |-> path, want |-> want]
unlink(path, want) == [call |-> "unlink", path |-> path, want |-> want]
link(old, new, want) == [call |-> "link", path |-> old, new |-> new, want |-> want]
exec(path, fits, want) == [call |-> "exec", path |-> path, fits |-> fits, want |-> want]
fork(child) == [call |-> "fork", child |-> child, want |-> ok]
wait == [call |-> "wait", want |-> ok]
waitFails == [wait EXCEPT !.want = fails]
\* kill the child of the nth call of this program, and run until killed.
kill(nth, want) == [call |-> "kill", nth |-> nth, want |-> want]
spin == [call |-> "spin", want |-> any]

=============================================================================
