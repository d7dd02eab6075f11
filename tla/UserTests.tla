----------------------------- MODULE UserTests -----------------------------
(***************************************************************************)
(* The file system tests of usertests.c, init.c and the small commands, as *)
(* sequences of calls for the processes of FileSys.  Every call carries    *)
(* the results its test accepts.  The loops of the tests run two or three  *)
(* times, and a cell stands for the bytes of one write.                    *)
(***************************************************************************)
EXTENDS FileSys

\* The files of the image: three of those that the Makefile passes to mkfs.
UPROGS == << "README", "cat", "echo" >>

Times(n, s) == [k \in 1..n |-> s]
\* Descriptor 0 is the first one free, the console of init is not opened.
fd == 0
fd1 == 1

(***************************************************************************)
(* One process                                                             *)
(***************************************************************************)
\* does chdir() call iput(p->cwd) in a transaction?
iputtest ==
  << mkdir(<<"iputdir">>, ok), chdir(<<"iputdir">>, ok), unlink(<<"..", "iputdir">>, ok), chdir(<<"/">>, ok) >>

opentest == << open(<<"echo">>, O_RDONLY, ok), close(fd, ok), open(<<"doesnotexist">>, O_RDONLY, fails) >>

\* Small writes in turn, read back at once.
writetest ==
  << open(<<"small">>, O_CREATE_RDWR, ok) >>
  \o FlattenSeq([i \in 1..2 |-> << write(fd, Times(3, "a"), {3}), write(fd, Times(3, "b"), {3}) >>])
  \o << close(fd, ok), open(<<"small">>, O_RDONLY, ok),
        read(fd, 20, FlattenSeq([i \in 1..2 |-> Times(3, "a") \o Times(3, "b")])), close(fd, ok), unlink(<<"small">>, ok) >>

\* A file of the largest size, block by block; reading it ends after the last block.
Number == << "0", "1", "2", "3", "4", "5", "6" >>
writetest1 ==
  << open(<<"big">>, O_CREATE_RDWR, ok) >>
  \o FlattenSeq([i \in 1..MAXFILE |-> << write(fd, Times(BSIZE, Number[i]), {BSIZE}) >>])
  \o << close(fd, ok), open(<<"big">>, O_RDONLY, ok) >>
  \o FlattenSeq([i \in 1..MAXFILE |-> << read(fd, BSIZE, Times(BSIZE, Number[i])) >>])
  \o << read(fd, BSIZE, <<>>), close(fd, ok), unlink(<<"big">>, ok) >>

createtest ==
  LET name == << "a0", "a1", "a2" >>
  IN FlattenSeq([i \in 1..3 |-> << open(<<name[i]>>, O_CREATE_RDWR, any), close(LAST, any) >>])
     \o FlattenSeq([i \in 1..3 |-> << unlink(<<name[i]>>, any) >>])

dirtest == << mkdir(<<"dir0">>, ok), chdir(<<"dir0">>, ok), chdir(<<"..">>, ok), unlink(<<"dir0">>, ok) >>

exectest == << exec(<<"echo">>, TRUE, ok) >>

\* can I unlink a file and still read it?
unlinkread ==
  << open(<<"unlinkread">>, O_CREATE_RDWR, ok), write(fd, Times(3, "h"), any), close(fd, ok),
     open(<<"unlinkread">>, O_RDWR, ok), unlink(<<"unlinkread">>, ok),
     open(<<"unlinkread">>, O_CREATE_RDWR, ok), write(fd1, Times(2, "y"), any), close(fd1, ok),
     read(fd, 20, Times(3, "h")), write(fd, Times(5, "h"), {5}), close(fd, ok), unlink(<<"unlinkread">>, any) >>

linktest ==
  << unlink(<<"lf1">>, any), unlink(<<"lf2">>, any),
     open(<<"lf1">>, O_CREATE_RDWR, ok), write(fd, Times(3, "h"), {3}), close(fd, ok),
     link(<<"lf1">>, <<"lf2">>, ok), unlink(<<"lf1">>, any), open(<<"lf1">>, O_RDONLY, fails),
     open(<<"lf2">>, O_RDONLY, ok), read(fd, 20, Times(3, "h")), close(fd, ok),
     link(<<"lf2">>, <<"lf2">>, fails), unlink(<<"lf2">>, any),
     link(<<"lf2">>, <<"lf1">>, fails), link(<<".">>, <<"lf1">>, fails) >>

\* directory that uses indirect blocks
bigdir ==
  LET name == << "x00", "x01", "x02", "x03" >>
  IN << unlink(<<"bd">>, any), open(<<"bd">>, O_CREATE, ok), close(fd, ok) >>
     \o FlattenSeq([i \in 1..4 |-> << link(<<"bd">>, <<name[i]>>, ok) >>])
     \o << unlink(<<"bd">>, any) >>
     \o FlattenSeq([i \in 1..4 |-> << unlink(<<name[i]>>, ok) >>])

subdir ==
  LET dd == "dd"  ff == "ff"  ffff == "ffff"  xx == "xx" IN
  << unlink(<<ff>>, any), mkdir(<<dd>>, ok),
     open(<<dd, ff>>, O_CREATE_RDWR, ok), write(fd, <<"f">>, any), close(fd, ok), unlink(<<dd>>, fails),
     mkdir(<<"/", dd, dd>>, ok), open(<<dd, dd, ff>>, O_CREATE_RDWR, ok), write(fd, <<"F">>, any), close(fd, ok),
     open(<<dd, dd, "..", ff>>, O_RDONLY, ok), read(fd, 20, <<"f">>), close(fd, ok),
     link(<<dd, dd, ff>>, <<dd, dd, ffff>>, ok), unlink(<<dd, dd, ff>>, ok), open(<<dd, dd, ff>>, O_RDONLY, fails),
     chdir(<<dd>>, ok), chdir(<<dd, "..", "..", dd>>, ok), chdir(<<dd, "..", "..", "..", dd>>, ok),
     chdir(<<".", "..">>, ok),
     open(<<dd, dd, ffff>>, O_RDONLY, ok), read(fd, 20, <<"F">>), close(fd, ok),
     open(<<dd, dd, ff>>, O_RDONLY, fails), open(<<dd, ff, ff>>, O_CREATE_RDWR, fails),
     open(<<dd, xx, ff>>, O_CREATE_RDWR, fails), open(<<dd>>, O_CREATE, fails), open(<<dd>>, O_RDWR, fails),
     open(<<dd>>, O_WRONLY, fails),
     link(<<dd, ff, ff>>, <<dd, dd, xx>>, fails), link(<<dd, xx, ff>>, <<dd, dd, xx>>, fails),
     link(<<dd, ff>>, <<dd, dd, ffff>>, fails),
     mkdir(<<dd, ff, ff>>, fails), mkdir(<<dd, xx, ff>>, fails), mkdir(<<dd, dd, ffff>>, fails),
     unlink(<<dd, xx, ff>>, fails), unlink(<<dd, ff, ff>>, fails), chdir(<<dd, ff>>, fails), chdir(<<dd, xx>>, fails),
     unlink(<<dd, dd, ffff>>, ok), unlink(<<dd, ff>>, ok), unlink(<<dd>>, fails),
     unlink(<<dd, dd>>, ok), unlink(<<dd>>, ok) >>

\* test writes that are larger than the log.
bigwrite ==
  << unlink(<<"bigwrite">>, any) >>
  \o FlattenSeq([i \in 1..3 |->
       << open(<<"bigwrite">>, O_CREATE_RDWR, ok), write(fd, Times(4 * i - 1, "w"), {4 * i - 1}),
          write(fd, Times(4 * i - 1, "w"), {4 * i - 1}), close(fd, ok), unlink(<<"bigwrite">>, any) >>])

\* Reads of half the size of the writes.
bigfile ==
  << unlink(<<"bigfile">>, any), open(<<"bigfile">>, O_CREATE_RDWR, ok) >>
  \o FlattenSeq([i \in 1..3 |-> << write(fd, Times(4, Number[i]), {4}) >>])
  \o << close(fd, ok), open(<<"bigfile">>, O_RDONLY, ok) >>
  \o FlattenSeq([i \in 1..6 |-> << read(fd, 2, Times(2, Number[(i + 1) \div 2])) >>])
  \o << read(fd, 2, <<>>), close(fd, ok), unlink(<<"bigfile">>, any) >>

\* Names are cut to DIRSIZ characters, so the test has but one name.
fourteen ==
  LET n == "12345678901234" IN
  << mkdir(<<n>>, ok), mkdir(<<n, n>>, ok), open(<<n, n, n>>, O_CREATE, ok), close(fd, ok),
     open(<<n, n, n>>, O_RDONLY, ok), close(fd, ok), mkdir(<<n, n>>, fails), mkdir(<<n, n>>, fails) >>

rmdot ==
  << mkdir(<<"dots">>, ok), chdir(<<"dots">>, ok), unlink(<<".">>, fails), unlink(<<"..">>, fails),
     chdir(<<"/">>, ok), unlink(<<"dots", ".">>, fails), unlink(<<"dots", "..">>, fails), unlink(<<"dots">>, ok) >>

dirfile ==
  << open(<<"dirfile">>, O_CREATE, ok), close(fd, ok), chdir(<<"dirfile">>, fails),
     open(<<"dirfile", "xx">>, O_RDONLY, fails), open(<<"dirfile", "xx">>, O_CREATE, fails),
     mkdir(<<"dirfile", "xx">>, fails), unlink(<<"dirfile", "xx">>, fails),
     link(<<"README">>, <<"dirfile", "xx">>, fails), unlink(<<"dirfile">>, ok),
     open(<<".">>, O_RDWR, fails), open(<<".">>, O_RDONLY, ok), write(fd, <<"x">>, any \ {1}), close(fd, ok) >>

\* test that iput() is called at the end of _namei(): more rounds than the cache has entries
iref ==
  FlattenSeq([i \in 1..3 |->
    << mkdir(<<"irefd">>, ok), chdir(<<"irefd">>, ok), mkdir(<<>>, any), link(<<"README">>, <<>>, any),
       open(<<>>, O_CREATE, any), open(<<"xx">>, O_CREATE, any), close(LAST, any), unlink(<<"xx">>, any) >>])
  \o << chdir(<<"/">>, any) >>

\* The argument of the read is out of range; only the file matters here.
argptest == << open(<<"echo">>, O_RDONLY, ok), close(fd, any) >>

\* init.c opens the console, which it creates the first time.
init ==
  << open(<<"console">>, O_RDWR, fails), mknod(<<"console">>, any), open(<<"console">>, O_RDWR, any),
     dup(0, any), dup(0, any), fork(<<exec(<<"echo">>, TRUE, ok)>>), wait >>

(***************************************************************************)
(* Several processes                                                       *)
(***************************************************************************)
\* does exit() call iput(p->cwd) in a transaction?
exitiputtest ==
  << fork(<< mkdir(<<"iputdir">>, ok), chdir(<<"iputdir">>, ok), unlink(<<"..", "iputdir">>, ok) >>), wait >>

\* does the error path in open() for attempt to write a directory call iput() in a transaction?
openiputtest ==
  << mkdir(<<"oidir">>, ok), fork(<< open(<<"oidir">>, O_RDWR, fails) >>), unlink(<<"oidir">>, ok), wait >>

\* two processes write to the same file descriptor: is the offset shared? does inode locking work?
sharedfd ==
  LET writes(c) == << write(fd, Times(2, c), {2}), write(fd, Times(2, c), {2}) >> IN
  << unlink(<<"sharedfd">>, any), open(<<"sharedfd">>, O_CREATE_RDWR, ok), fork(writes("c")) >> \o writes("p")
  \o << wait, close(fd, ok), open(<<"sharedfd">>, O_RDONLY, ok),
        count(fd, 20, [s \in {"c", "p"} |-> 4]), close(fd, ok), unlink(<<"sharedfd">>, any) >>

\* processes write different files at the same time, to test block allocation.
fourfiles ==
  LET name == << "f0", "f1" >> IN
  FlattenSeq([i \in 1..2 |-> << unlink(<<name[i]>>, any),
                        fork(<< open(<<name[i]>>, O_CREATE_RDWR, ok), write(fd, Times(3, name[i]), {3}),
                                write(fd, Times(3, name[i]), {3}) >>) >>])
  \o << wait, wait >>
  \o FlattenSeq([i \in 1..2 |-> << open(<<name[i]>>, O_RDONLY, ok), read(fd, 20, Times(6, name[i])), close(fd, ok),
                           unlink(<<name[i]>>, any) >>])

\* processes create and delete different files in same directory
createdelete ==
  LET p == << "p0", "p1" >>
      q == << "q0", "q1" >>
      child(name) == FlattenSeq([i \in 1..2 |-> << open(<<name[i]>>, O_CREATE_RDWR, ok), close(fd, ok) >>])
                     \o << unlink(<<name[2]>>, ok) >>
      look(name, i) == << open(<<name[i]>>, O_RDONLY, IF i = 2 THEN fails ELSE ok), close(LAST, any) >>
  IN << fork(child(p)), fork(child(q)), wait, wait >>
     \o FlattenSeq([i \in 1..2 |-> look(p, i) \o look(q, i)])
     \o FlattenSeq([i \in 1..2 |-> << unlink(<<p[i]>>, any), unlink(<<q[i]>>, any) >>])

\* test concurrent create/link/unlink of the same file
concreate ==
  LET C == << "C0", "C1", "C2" >>
      create(i) == << open(<<C[i]>>, O_CREATE_RDWR, ok), close(LAST, any) >>
      linkC0(i) == << link(<<C[1]>>, <<C[i]>>, any) >>
      closes(i) == << open(<<C[i]>>, O_RDONLY, any), close(LAST, any), open(<<C[i]>>, O_RDONLY, any), close(LAST, any) >>
      unlinks(i) == << unlink(<<C[i]>>, any), unlink(<<C[i]>>, any) >>
  IN FlattenSeq([i \in 1..3 |->
       << unlink(<<C[i]>>, any), fork(IF i = 2 THEN linkC0(i) ELSE create(i)) >>
       \o (IF i = 2 THEN linkC0(i) ELSE create(i)) \o << wait >>])
     \o << open(<<".">>, O_RDONLY, ok),
           count(fd, 20, [s \in {C[1], C[2], C[3], ".", ".."} \cup ToSet(UPROGS) |-> 1]), close(fd, ok) >>
     \o FlattenSeq([i \in 1..3 |->
          << fork(IF i = 1 THEN closes(i) ELSE unlinks(i)) >>
          \o (IF i = 2 THEN closes(i) ELSE unlinks(i)) \o << wait >>])

\* another concurrent link/unlink/create test, to look for deadlocks.
linkunlink ==
  LET creates == << open(<<"x">>, O_CREATE_RDWR, any), close(LAST, any) >>
      links == << link(<<"cat">>, <<"x">>, any) >>
      unlinks == << unlink(<<"x">>, any) >>
  IN << unlink(<<"x">>, any), fork(links \o creates \o unlinks) >> \o unlinks \o creates \o links \o << wait >>

\* exec fails when the arguments are larger than a page.
bigargtest ==
  << unlink(<<"bigarg-ok">>, any),
     fork(<< exec(<<"echo">>, FALSE, fails), open(<<"bigarg-ok">>, O_CREATE, any), close(LAST, any) >>),
     wait, open(<<"bigarg-ok">>, O_RDONLY, ok), close(fd, any), unlink(<<"bigarg-ok">>, any) >>

(***************************************************************************)
(* Pipes                                                                   *)
(***************************************************************************)
\* simple fork and pipe read/write: writes larger than the pipe, reads of growing size.
pipe1 ==
  << pipe(ok),
     fork(<< close(fd, ok), write(fd1, <<"0", "1", "2">>, {3}), write(fd1, <<"3", "4", "5">>, {3}) >>),
     close(fd1, ok), read(fd, 1, <<"0">>), reads(fd, 2, <<"1", "2", "3", "4", "5">>), close(fd, ok), wait >>

\* Children that run for ever are killed.
preempt ==
  << fork(<< spin >>), pipe(ok), fork(<< close(fd, ok), write(fd1, <<"x">>, {1}), close(fd1, ok), spin >>),
     close(fd1, ok), read(fd, 20, <<"x">>), close(fd, ok), kill(1, ok), kill(3, ok), wait, wait >>

\* try to find any races between exit and wait
exitwait == FlattenSeq([i \in 1..3 |-> << fork(<<>>), wait >>])

\* test that fork fails gracefully: the table is full, then wait() gets every child and no more.
forktest == Times(3, fork(<<>>)) \o << [fork(<<>>) EXCEPT !.want = fails] >> \o Times(3, wait) \o << waitFails >>

\* zombie.c: the parent does not wait.
zombie == << fork(<<>>) >>

\* stressfs.c: each process but the last forks the next.
stressfs ==
  LET file(i) == << open(<<i>>, O_CREATE_RDWR, ok), write(fd, <<"a", "a">>, {2}), close(fd, ok),
                    open(<<i>>, O_RDONLY, ok), reads(fd, 1, <<"a", "a">>), close(fd, ok) >>
  IN << fork(file("stressfs1") \o << waitFails >>) >> \o file("stressfs0") \o << wait >>

(***************************************************************************)
(* The shell and the programs it runs                                      *)
(***************************************************************************)
\* What follows exec() in a program is the main() of the program that was loaded.
echo(words) == << exec(<<"echo">>, TRUE, ok), write(1, words, {Len(words)}) >>
wc(words) == << exec(<<"cat">>, TRUE, ok), reads(0, 2, words) >>
cat(file, words) ==
  << exec(<<"cat">>, TRUE, ok), open(<<file>>, O_RDONLY, ok), reads(LAST, 2, words), write(1, words, {Len(words)}),
     close(LAST, ok) >>
ls ==
  << open(<<".">>, O_RDONLY, ok), fstat(fd, "T_DIR", 8), read(fd, 1, <<".">>), read(fd, 1, <<"..">>) >>
  \o FlattenSeq([i \in 1..3 |-> << read(fd, 1, <<UPROGS[i]>>), open(<<UPROGS[i]>>, O_RDONLY, ok), fstat(fd1, "T_FILE", 1),
                           close(fd1, ok) >>])
  \o << close(fd, ok) >>
mkdirs == << mkdir(<<"d">>, ok), mkdir(<<"d">>, fails) >>
rm == << unlink(<<"d">>, ok), unlink(<<"d">>, fails) >>
ln == << link(<<"cat">>, <<"dog">>, ok), link(<<"cat">>, <<"dog">>, fails), unlink(<<"dog">>, ok) >>

\* runcmd() of the kinds of commands.
EXEC(program) == program
REDIR(c, slot, file, mode) == << close(slot, ok), open(<<file>>, mode, ok) >> \o c
LIST(left, right) == << fork(left), wait >> \o right
PIPE(left, right) ==
  << pipe(ok), fork(<< close(1, ok), dup(4, ok), close(3, ok), close(4, ok) >> \o left),
     fork(<< close(0, ok), dup(3, ok), close(3, ok), close(4, ok) >> \o right),
     close(3, ok), close(4, ok), wait, wait >>
BACK(c) == << fork(c) >>

\* sh.c makes sure that three descriptors are open and runs each command in a child.
sh(commands) ==
  << mknod(<<"console">>, any) >> \o Times(4, open(<<"console">>, O_RDWR, ok)) \o << close(3, ok) >>
  \o FlattenSeq([i \in 1..Len(commands) |-> << fork(commands[i]), wait >>])

\* echo a b | wc
shPipe == sh(<< PIPE(echo(<<"a", "b", "c">>), wc(<<"a", "b", "c">>)) >>)
\* echo a > x ; cat x, and: echo b > x &
shList == sh(<< LIST(REDIR(echo(<<"a">>), 1, "x", O_CREATE \cup O_WRONLY), cat("x", <<"a">>)),
                BACK(REDIR(echo(<<"b">>), 1, "x", O_CREATE \cup O_WRONLY)) >>)
\* ls ; mkdir d d ; rm d d ; ln cat dog
shFiles == ls \o mkdirs \o rm \o ln

UserPrograms ==
  [iputtest |-> iputtest, opentest |-> opentest, writetest |-> writetest, writetest1 |-> writetest1,
   createtest |-> createtest, dirtest |-> dirtest, exectest |-> exectest, unlinkread |-> unlinkread,
   linktest |-> linktest, bigdir |-> bigdir, subdir |-> subdir, bigwrite |-> bigwrite, bigfile |-> bigfile,
   fourteen |-> fourteen, rmdot |-> rmdot, dirfile |-> dirfile, iref |-> iref, argptest |-> argptest,
   init |-> init, exitiputtest |-> exitiputtest, openiputtest |-> openiputtest, sharedfd |-> sharedfd,
   fourfiles |-> fourfiles, createdelete |-> createdelete, concreate |-> concreate, linkunlink |-> linkunlink,
   bigargtest |-> bigargtest,
   pipe1 |-> pipe1, preempt |-> preempt, exitwait |-> exitwait, forktest |-> forktest, zombie |-> zombie,
   stressfs |-> stressfs, shPipe |-> shPipe, shList |-> shList, shFiles |-> shFiles]

=============================================================================
