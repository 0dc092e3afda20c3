-------------------------------- MODULE Mkfs --------------------------------
(***************************************************************************)
(* mkfs.c: building the file system image.  A block of data is a function  *)
(* from its byte offsets to data units, the inodes are kept unpacked and   *)
(* an indirect block is a block of block numbers.  readi and the macros of *)
(* fs.h, through which the kernel reads the image, are at the end.         *)
(***************************************************************************)
EXTENDS Naturals, Sequences, FiniteSets

CONSTANTS BSIZE, NDIRECT, NINDIRECT, IPB, BPB, DIRENT,
          size, nblocks, nlog, ninodes,     \* the shape of the disk
          CHUNK,        \* bytes that main reads at a time, 512
          Files         \* bound: the sequences of file lengths given to mkfs

ROOTINO == 1

VARIABLES todo, din, blk, freeblock, usedblocks, freeinode, bitmap, rest,
          app,          \* the iappend that is running: inum, bytes left
          data          \* history: the bytes each inode was given

vars == <<todo, din, blk, freeblock, usedblocks, freeinode, bitmap, rest, app, data>>

bitblocks == size \div BPB + 1
FirstBlock == ninodes \div IPB + 3 + bitblocks
Zeroes == [i \in 0 .. BSIZE - 1 |-> 0]
Blank == [type |-> "none", size |-> 0, addrs |-> [i \in 0 .. NDIRECT |-> 0]]

\* The lengths fit: mkfs itself only asserts that the bitmap does.
Init ==
  /\ nblocks + FirstBlock + nlog = size
  /\ todo \in Files /\ din = [i \in 1 .. ninodes |-> Blank]
  /\ blk = [b \in 0 .. size - 1 |-> Zeroes]
  /\ freeblock = FirstBlock /\ usedblocks = FirstBlock /\ freeinode = 1
  /\ bitmap = {} /\ rest = 0 /\ app = <<>> /\ data = [i \in 1 .. ninodes |-> <<>>]

\* A queue of appends, each <<inum, bytes>>.  ialloc, then its directory entry.
ialloc(type) ==
  /\ din' = [din EXCEPT ![freeinode] = [Blank EXCEPT !.type = type]]
  /\ freeinode' = freeinode + 1
Entry(inum) == <<ROOTINO, [k \in 1 .. DIRENT |-> 100 + inum]>>
main_root ==
  /\ freeinode = ROOTINO /\ ialloc("T_DIR")
  /\ app' = <<Entry(ROOTINO), Entry(ROOTINO)>>
  /\ UNCHANGED <<todo, blk, freeblock, usedblocks, bitmap, rest, data>>
main_file ==
  /\ app = <<>> /\ rest = 0 /\ freeinode > ROOTINO /\ todo # <<>> /\ bitmap = {}
  /\ ialloc("T_FILE") /\ app' = <<Entry(freeinode)>>
  /\ todo' = Tail(todo) /\ rest' = Head(todo)
  /\ UNCHANGED <<blk, freeblock, usedblocks, bitmap, data>>
\* read(fd, buf, sizeof(buf)).
Least(a, b) == IF a < b THEN a ELSE b
main_read ==
  /\ app = <<>> /\ rest > 0 /\ rest' = rest - Least(rest, CHUNK)
  /\ app' = <<<<freeinode - 1, [k \in 1 .. Least(rest, CHUNK) |-> rest - k + 1]>>>>
  /\ UNCHANGED <<todo, din, blk, freeblock, usedblocks, freeinode, bitmap, data>>

\* One turn of iappend's loop: the block of fbn, allocated if need be, and as
\* much of it as there is to write.  ad, ind are addrs and the indirect block.
Turn(p, off, fbn, n1, d, from) ==
  LET direct == fbn < NDIRECT
      newind == ~direct /\ d.addrs[NDIRECT] = 0
      ib == IF newind THEN freeblock ELSE d.addrs[NDIRECT]
      old == IF direct THEN d.addrs[fbn] ELSE IF newind THEN 0 ELSE blk[ib][fbn - NDIRECT]
      new == old = 0
      x == IF new THEN IF newind THEN freeblock + 1 ELSE freeblock ELSE old
      took == (IF newind THEN 1 ELSE 0) + (IF new THEN 1 ELSE 0)
      b1 == IF direct \/ ~new THEN blk ELSE [blk EXCEPT ![ib][fbn - NDIRECT] = x] IN
  /\ fbn < NDIRECT + NINDIRECT
  /\ freeblock' = freeblock + took /\ usedblocks' = usedblocks + took
  /\ blk' = [b1 EXCEPT ![x] = [i \in 0 .. BSIZE - 1 |->
               IF i >= off - from /\ i < off - from + n1 THEN p[i - (off - from) + 1] ELSE @[i]]]
  /\ din' = [din EXCEPT ![app[1][1]] =
       [d EXCEPT !.addrs[IF direct THEN fbn ELSE NDIRECT] = IF direct THEN x ELSE ib,
                 !.size = off + n1]]
iappend_loop(room(_, _)) ==
  LET inum == app[1][1]  p == app[1][2]  d == din[inum]
      off == d.size  fbn == off \div BSIZE  n1 == Least(Len(p), room(off, fbn)) IN
  /\ app # <<>> /\ Turn(p, off, fbn, n1, d, fbn * BSIZE)
  /\ data' = [data EXCEPT ![inum] = @ \o SubSeq(p, 1, n1)]
  /\ app' = IF n1 = Len(p) THEN Tail(app) ELSE <<<<inum, SubSeq(p, n1 + 1, Len(p))>>>> \o Tail(app)
  /\ UNCHANGED <<todo, freeinode, bitmap, rest>>
\* Mutant: a chunk that is not aligned may run over the end of its block.
iappend_aligned == iappend_loop(LAMBDA off, fbn : BSIZE)
iappend == iappend_loop(LAMBDA off, fbn : (fbn + 1) * BSIZE - off)

\* Fix the size of the root directory, and balloc.
Finish(used) ==
  /\ app = <<>> /\ rest = 0 /\ todo = <<>> /\ freeinode > ROOTINO /\ bitmap = {}
  /\ din' = [din EXCEPT ![ROOTINO].size = (@ \div BSIZE + 1) * BSIZE]
  /\ used < BPB /\ bitmap' = 0 .. used - 1
  /\ UNCHANGED <<todo, blk, freeblock, usedblocks, freeinode, rest, app, data>>
\* Mutant: an off-by-one in the count.
main_end_short == Finish(usedblocks - 1)
main_end == Finish(usedblocks)

Next == main_root \/ main_file \/ main_read \/ iappend \/ main_end
Spec == Init /\ [][Next]_vars
-----------------------------------------------------------------------------
IBLOCK(i) == i \div IPB + 2
BBLOCK(b) == b \div BPB + ninodes \div IPB + 3

\* The block the kernel's bmap finds for fbn of inum, 0 if none.
bmap(inum, fbn) ==
  IF fbn < NDIRECT THEN din[inum].addrs[fbn]
  ELSE IF din[inum].addrs[NDIRECT] = 0 THEN 0 ELSE blk[din[inum].addrs[NDIRECT]][fbn - NDIRECT]

Inodes == {i \in 1 .. ninodes : din[i].type # "none"}
Places == {<<i, f>> \in Inodes \X (0 .. NDIRECT + NINDIRECT - 1) : bmap(i, f) # 0}
Indirects == {i \in Inodes : din[i].addrs[NDIRECT] # 0}
Used == {bmap(x[1], x[2]) : x \in Places} \cup {din[i].addrs[NDIRECT] : i \in Indirects}

\* When mkfs is done the bitmap marks exactly the blocks before the data and
\* the blocks in use; no block has two uses, none lies in the log, and the
\* inodes and the bitmap are where the kernel's macros look for them.
ImageSound ==
  bitmap # {} =>
    /\ bitmap = (0 .. FirstBlock - 1) \cup Used
    /\ Cardinality(Used) = Cardinality(Places) + Cardinality(Indirects)
    /\ \A b \in Used : b >= FirstBlock /\ b < size - nlog
    /\ \A i \in Inodes : IBLOCK(i) > 1 /\ IBLOCK(i) < BBLOCK(0)
    /\ BBLOCK(size - 1) < FirstBlock

\* Read through the kernel's bmap, every inode holds what was appended to it,
\* whatever the chunks; past it, up to the rounded size of the root, are holes
\* and zeroes, which are free directory entries.
ImageReadsBack ==
  app = <<>> =>
    \A i \in Inodes : /\ din[i].size >= Len(data[i]) /\ (i # ROOTINO \/ bitmap = {} => din[i].size = Len(data[i]))
                      /\ \A o \in 0 .. din[i].size - 1 :
                           LET b == bmap(i, o \div BSIZE) IN
                           IF o < Len(data[i]) THEN b # 0 /\ blk[b][o % BSIZE] = data[i][o + 1]
                           ELSE b = 0 \/ blk[b][o % BSIZE] = 0
=============================================================================
