------------------------------- MODULE Inode -------------------------------
(***************************************************************************)
(* The disk layout and the content of inodes: block allocation, the block  *)
(* map, reading, writing, truncation and directories of fs.c, as functions *)
(* of the disk (seen through the buffer cache) and one locked inode.       *)
(*                                                                         *)
(* A block holds BSIZE cells.  A cell is a pair <<name, number>>: a        *)
(* directory entry <<name, inum>>, a piece of data <<datum, 0>> or a block *)
(* address <<"", addr>>; Zero is a cleared cell.  Sizes and offsets count  *)
(* cells.                                                                  *)
(***************************************************************************)
EXTENDS Integers, Sequences, FiniteSets, SequencesExt

CONSTANTS NINODES,      \* inodes on disk (superblock.ninodes)
          NBLOCKS,      \* data blocks on disk (superblock.nblocks)
          BSIZE,        \* cells per block
          NDIRECT, NINDIRECT,
          IPB           \* inodes per block

ASSUME GeometryAssumption ==
  /\ NINODES \in Nat \ {0} /\ NBLOCKS \in Nat \ {0} /\ IPB \in Nat \ {0}
  /\ NDIRECT \in Nat \ {0} /\ BSIZE \in Nat \ {0} /\ NINDIRECT \in 1..BSIZE

ROOTINO == 1
Inums == 1..NINODES
Blocks == 1..NBLOCKS
MAXFILE == NDIRECT + NINDIRECT
Zero == <<"", 0>>
ZeroBlock == [k \in 1..BSIZE |-> Zero]

Dinode == [type : {"free", "T_DIR", "T_FILE", "T_DEV"}, nlink : Int,
           size : Nat, addrs : [1..NDIRECT + 1 -> 0..NBLOCKS]]
FreeDinode == [type |-> "free", nlink |-> 0, size |-> 0, addrs |-> [n \in 1..NDIRECT + 1 |-> 0]]

\* What an operation on one inode works on: the disk d, the copy ip of the inode, the blocks it
\* has logged, and the message of the panic it ran into.
Work(d, ip, logged) == [d |-> d, ip |-> ip, log |-> logged, bad |-> ""]

(***************************************************************************)
(* Blocks                                                                  *)
(***************************************************************************)
\* The first free block of the bitmap becomes used and zeroed.
balloc(w) ==
  LET free == Blocks \ w.d.bitmap
      b == IF free = {} THEN 1 ELSE CHOOSE x \in free : \A y \in free : x <= y
  IN [addr |-> b,
      w |-> [w EXCEPT !.d.bitmap = @ \cup {b}, !.d.block[b] = ZeroBlock,
                      !.log = @ \cup {<<"bitmap", 0>>, <<"data", b>>},
                      !.bad = IF free = {} THEN "balloc: out of blocks" ELSE @]]

bfree(w, bs) ==
  [w EXCEPT !.d.bitmap = @ \ bs, !.log = IF bs = {} THEN @ ELSE @ \cup {<<"bitmap", 0>>},
            !.bad = IF bs \subseteq w.d.bitmap THEN @ ELSE "freeing free block"]

(***************************************************************************)
(* Inodes                                                                  *)
(***************************************************************************)
MutIupdate(w, inum) ==
  [w EXCEPT !.d.dinode[inum] = [w.ip EXCEPT !.nlink = w.d.dinode[inum].nlink], !.log = @ \cup {<<"inode", inum \div IPB>>}]

iupdate(w, inum) ==
  [w EXCEPT !.d.dinode[inum] = w.ip, !.log = @ \cup {<<"inode", inum \div IPB>>}]

\* The address of block bn of the inode, 0 if it has none.
AddrOf(d, ip, bn) ==
  IF bn < NDIRECT THEN ip.addrs[bn + 1]
  ELSE IF ip.addrs[NDIRECT + 1] = 0 THEN 0
  ELSE d.block[ip.addrs[NDIRECT + 1]][bn - NDIRECT + 1][2]

\* Entry n of addrs[] points to a block: an old one, or a, a new one from balloc.
Direct(a, n) == [a.w EXCEPT !.ip.addrs[n] = a.addr]
Attach(w, n) == IF w.ip.addrs[n] # 0 THEN w ELSE Direct(balloc(w), n)

\* The same for entry n of the indirect block ind.
Indirect(a, ind, n) ==
  [a.w EXCEPT !.d.block[ind][n] = <<"", a.addr>>, !.log = @ \cup {<<"data", ind>>}]
AttachIndirect(w, bn) ==
  IF AddrOf(w.d, w.ip, bn) # 0 THEN w
  ELSE Indirect(balloc(w), w.ip.addrs[NDIRECT + 1], bn - NDIRECT + 1)

\* Make sure that block bn exists.
bmap(w, bn) ==
  IF bn >= MAXFILE THEN [w EXCEPT !.bad = "bmap: out of range"]
  ELSE IF bn < NDIRECT THEN Attach(w, bn + 1)
  ELSE AttachIndirect(Attach(w, NDIRECT + 1), bn)

\* The addresses an indirect block holds.
Pointers(d, ind) == {d.block[ind][k][2] : k \in 1..NINDIRECT} \ {0}
BlocksOf(d, ip) ==
  LET ind == ip.addrs[NDIRECT + 1]
  IN ({ip.addrs[n] : n \in DOMAIN ip.addrs} \ {0}) \cup (IF ind = 0 THEN {} ELSE Pointers(d, ind))

MutItrunc(w, inum) ==
  LET direct == {w.ip.addrs[n] : n \in 1..NDIRECT} \ {0}
  IN iupdate([bfree(w, direct) EXCEPT !.ip.addrs = FreeDinode.addrs, !.ip.size = 0], inum)

itrunc(w, inum) ==
  iupdate([bfree(w, BlocksOf(w.d, w.ip)) EXCEPT !.ip.addrs = FreeDinode.addrs, !.ip.size = 0], inum)

CellAt(d, ip, off) == d.block[AddrOf(d, ip, off \div BSIZE)][(off % BSIZE) + 1]

\* The cells read at off: none past the end of the file.  No call lets off exceed the size.
readi(d, ip, off, n) ==
  [k \in 1..(IF off + n > ip.size THEN ip.size - off ELSE n) |-> CellAt(d, ip, off + k - 1)]

CanWrite(ip, off, n) == off <= ip.size /\ off + n <= MAXFILE * BSIZE
PutCell(w, b, k, cell) == [w EXCEPT !.d.block[b][k] = cell, !.log = @ \cup {<<"data", b>>}]
WriteMapped(w, off, cell) == PutCell(w, AddrOf(w.d, w.ip, off \div BSIZE), (off % BSIZE) + 1, cell)
WriteCell(w, off, cell) == WriteMapped(bmap(w, off \div BSIZE), off, cell)

\* Write cells at off; the inode goes to disk when it grew.
Grow(w, inum, end) == IF end > w.ip.size THEN iupdate([w EXCEPT !.ip.size = end], inum) ELSE w
writei(w, inum, off, cells) ==
  IF cells = <<>> THEN w
  ELSE Grow(FoldLeftDomain(LAMBDA u, k : WriteCell(u, off + k - 1, cells[k]), w, cells), inum, off + Len(cells))

(***************************************************************************)
(* Directories                                                             *)
(***************************************************************************)
First(S) == CHOOSE x \in S : \A y \in S : x <= y

\* The offsets of the entries called name, and the inode of the first, 0 if there is none.
Offsets(d, dp, name) == {off \in 0..dp.size - 1 : LET e == CellAt(d, dp, off) IN e[2] # 0 /\ e[1] = name}
dirlookup(d, dp, name) ==
  LET found == Offsets(d, dp, name) IN IF found = {} THEN 0 ELSE CellAt(d, dp, First(found))[2]

\* The entry (name, inum) goes to the first empty place, or to the end.
dirlink(w, dnum, name, inum) ==
  LET empty == {off \in 0..w.ip.size - 1 : CellAt(w.d, w.ip, off)[2] = 0}
      off == IF empty = {} THEN w.ip.size ELSE First(empty)
  IN IF CanWrite(w.ip, off, 1) THEN writei(w, dnum, off, <<<<name, inum>>>>)
     ELSE [w EXCEPT !.bad = "dirlink"]

MutIsdirempty(d, dp) == \A off \in 3..dp.size - 1 : CellAt(d, dp, off)[2] = 0

isdirempty(d, dp) == \A off \in 2..dp.size - 1 : CellAt(d, dp, off)[2] = 0

=============================================================================
