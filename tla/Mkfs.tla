-------------------------------- MODULE Mkfs --------------------------------
(***************************************************************************)
(* The image mkfs.c builds: a root directory and empty or short files.     *)
(* mkfs hands out inodes and blocks by counting and marks the used blocks  *)
(* in the bitmap only at the end, so an image under construction is        *)
(* [d, freeinode, freeblock].                                              *)
(***************************************************************************)
EXTENDS Inode

Blank == [d |-> [dinode |-> [i \in Inums |-> FreeDinode],
                 block  |-> [b \in Blocks |-> ZeroBlock],
                 bitmap |-> {}],
          freeinode |-> 1, freeblock |-> 1]

\* mkfs.c's ialloc: the next inode, with one link.
NewInode(img, type) ==
  [img EXCEPT !.d.dinode[img.freeinode] = [FreeDinode EXCEPT !.type = type, !.nlink = 1],
              !.freeinode = @ + 1]

\* The address field n of inode inum gets a block from the counter unless it has one.
NewBlock(img, inum, n) ==
  IF img.d.dinode[inum].addrs[n] # 0 THEN img
  ELSE [img EXCEPT !.d.dinode[inum].addrs[n] = img.freeblock, !.freeblock = @ + 1]

WithBlock(img, inum, fbn) ==
  IF fbn < NDIRECT THEN NewBlock(img, inum, fbn + 1)
  ELSE LET i == NewBlock(img, inum, NDIRECT + 1)
           ind == i.d.dinode[inum].addrs[NDIRECT + 1]
       IN IF AddrOf(i.d, i.d.dinode[inum], fbn) # 0 THEN i
          ELSE [i EXCEPT !.d.block[ind][fbn - NDIRECT + 1] = <<"", i.freeblock>>, !.freeblock = @ + 1]

\* One cell goes to the end of the inode.
iappend(img, inum, cell) ==
  LET off == img.d.dinode[inum].size
      i == WithBlock(img, inum, off \div BSIZE)
      b == AddrOf(i.d, i.d.dinode[inum], off \div BSIZE)
  IN [i EXCEPT !.d.block[b][(off % BSIZE) + 1] = cell, !.d.dinode[inum].size = off + 1]

RootDir == iappend(iappend(NewInode(Blank, "T_DIR"), ROOTINO, <<".", ROOTINO>>), ROOTINO, <<"..", ROOTINO>>)

\* A file of the command line: an inode, an entry in the root directory, the content.
AddFile(img, name) ==
  LET i == NewInode(img, "T_FILE") IN
  iappend(iappend(i, ROOTINO, <<name, img.freeinode>>), img.freeinode, <<name, 0>>)

\* The root directory is filled up to a whole block, and the used blocks are marked.
mkfs(names) ==
  LET img == FoldLeft(AddFile, RootDir, names)
      off == img.d.dinode[ROOTINO].size
  IN [img.d EXCEPT !.dinode[ROOTINO].size = ((off \div BSIZE) + 1) * BSIZE,
                   !.bitmap = 1..img.freeblock - 1]

=============================================================================
