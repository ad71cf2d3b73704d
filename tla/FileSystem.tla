----------------------------- MODULE FileSystem -----------------------------
(***************************************************************************)
(* The read-only file system: the image GRUB loads, the two directory      *)
(* lookups and read_data.  A byte is known by its data block and its place *)
(* there; the bytes themselves do not matter but for the magic number of a *)
(* program, which is a property of the inode here.                         *)
(***************************************************************************)
EXTENDS Integers, Sequences, SequencesExt, FiniteSetsExt

CONSTANTS
  BlockSize,   \* BLOCK_SIZE, 4096
  Image        \* the image, a record:
               \*   dentries         a sequence of [name, type, inode]
               \*   inodes           a function from 0 of [length, blocks, exe];
               \*                    blocks from 0, with what the image has
               \*                    behind the last block of the file
               \*   num_data_blocks

\* The counts are read as one byte each (fileSystem.c:28-30), and so is the inode
\* of an entry (fileSystem.c:64).
ASSUME FileSystemAssumption ==
  /\ BlockSize \in Nat \ {0}
  /\ Len(Image.dentries) \in 0 .. 255
  /\ DOMAIN Image.inodes \subseteq 0 .. 254
  /\ Image.num_data_blocks \in 0 .. 255
  /\ \A i \in 1 .. Len(Image.dentries) : Image.dentries[i].inode \in 0 .. 255

num_dentries == Len(Image.dentries)

RTC_TYPE  == 0
DIR_TYPE  == 1
FILE_TYPE == 2
NoFile    == 0       \* dentries are counted from 1 here

\* read_dentry_by_name: the first entry with this name.
Named(name) == {i \in 1 .. num_dentries : Image.dentries[i].name = name}
read_dentry_by_name(name) == IF Named(name) = {} THEN NoFile ELSE Min(Named(name))

\* What a read returns, and what it puts in buf.
Answer(ret, data) == [ret |-> ret, data |-> data]
Failed == Answer(-1, <<>>)

Byte(file, k) == [block |-> file.blocks[k \div BlockSize], at |-> k % BlockSize]

\* read_data.  The number of every block the copying comes to is checked, also
\* of the one it would go on with when it ends at the end of a block; a bad
\* number makes it fail with what it has copied in buf.
read_data(inode, offset, length) ==
  IF inode \notin DOMAIN Image.inodes THEN Failed
  ELSE LET file  == Image.inodes[inode]
           end   == Min({offset + length, file.length})
           met   == offset \div BlockSize .. end \div BlockSize
           bad   == {b \in met : file.blocks[b] >= Image.num_data_blocks}
           UpTo(last) == [k \in 1 .. last - offset |-> Byte(file, offset + k - 1)]
       IN IF offset >= file.length THEN Answer(0, <<>>)
          ELSE IF bad = {} THEN Answer(end - offset, UpTo(end))
          ELSE Answer(-1, UpTo(Max({offset, Min(bad) * BlockSize})))

\* dir_read: one name a call, whatever nbytes is, and its length.
dir_read(index) ==
  IF index >= num_dentries THEN Answer(0, <<>>)
  ELSE LET name == Image.dentries[index + 1].name IN Answer(Len(name), <<[name |-> name]>>)
=============================================================================
