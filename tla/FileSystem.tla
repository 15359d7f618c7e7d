----------------------------- MODULE FileSystem -----------------------------
(***************************************************************************)
(* assign2: a reader of Unix version 6 disk images, from sectors to inodes,*)
(* blocks of files, directories and path names, and diskimageaccess, which *)
(* prints the checksum of every inode and of every path.                   *)
(*                                                                         *)
(* A disk is given by what is stored on it: Layout lays files out as       *)
(* unixfilesystem.h, ino.h and direntv6.h describe, and the program has to *)
(* find them again.  A hash is the list of what was hashed.                *)
(***************************************************************************)
EXTENDS Integers, SequencesExt

CONSTANTS
    Images,             \* disks: sequences of files, in order of inumber:
                        \*   [alloc, dir, size, content : block -> data]
    SectorSize, EntrySize, AddressesPerBlock, InodesPerSector, NumAddresses,
    MaxEntries,         \* 10000: the entries GetDirEntries() has room for
    LongNames,          \* names of D_NAME_MAX_SIZE characters
    Slash               \* the inumber whose low byte is '/'

VARIABLES
    image,              \* the files on the disk
    disk,               \* its sectors
    phase,              \* where main() stands
    flags,              \* -i, -p
    inumber,            \* the loop of DumpInodeChecksum()
    calls,              \* rounds of the loops of DumpPathAndChildren() that are due
    inodeLines, pathLines   \* what was printed

vars == <<image, disk, phase, flags, inumber, calls, inodeLines, pathLines>>

Failed == -1
RootInumber == 1
InodeStartSector == 2

files == Images[image]
\* Directory entries are [inumber, name], inumber 0 if the entry is free.

-----------------------------------------------------------------------------
(* The disk.  Inode i has its own sectors: one for a doubly indirect block,*)
(* then its blocks of addresses, then its data.                            *)

Blocks(size) == (size + SectorSize - 1) \div SectorSize
MaxFileSize == ((NumAddresses - 1) * AddressesPerBlock + AddressesPerBlock * AddressesPerBlock) * SectorSize

EntriesPerBlock == SectorSize \div EntrySize
\* Entry k of a directory, from 0.
Entry(f, k) == f.content[k \div EntriesPerBlock][1 + (k % EntriesPerBlock)]
Places(f) == 0..(f.size \div EntrySize)-1

\* A disk has whole sectors of inodes, and all the bytes of its files; no size of
\* 24 bits is more than the addresses reach.  A directory has whole entries, and a
\* name once.
DirectoryAssumption(f) ==
    /\ f.size % EntrySize = 0
    /\ \A k \in Places(f) : Entry(f, k).inumber \in Nat
    /\ \A k, l \in Places(f) : 0 \notin {Entry(f, k).inumber, Entry(f, l).inumber} =>
         k = l \/ Entry(f, k).name # Entry(f, l).name

FileSystemAssumption ==
    /\ \A k \in {SectorSize, EntrySize, AddressesPerBlock, InodesPerSector, NumAddresses, MaxEntries} :
         k \in Nat \ {0}
    /\ SectorSize % EntrySize = 0
    /\ \A k \in DOMAIN Images :
         /\ Images[k] \in Seq(ToSet(Images[k])) /\ Len(Images[k]) % InodesPerSector = 0
         /\ \A i \in DOMAIN Images[k] :
              /\ Images[k][i].size \in 0..MaxFileSize
              /\ 0..Blocks(Images[k][i].size)-1 \subseteq DOMAIN Images[k][i].content
              /\ Images[k][i].dir => DirectoryAssumption(Images[k][i])

s_isize == Len(files) \div InodesPerSector
NumTables == NumAddresses - 1 + AddressesPerBlock
Room == 1 + NumTables + NumTables * AddressesPerBlock
Spot(i, k) == InodeStartSector + s_isize + (i - 1) * Room + k
Data(i, b) == IF b < Blocks(files[i].size) THEN Spot(i, 1 + NumTables + b) ELSE 0
Table(i, t) == IF t * AddressesPerBlock < Blocks(files[i].size) THEN Spot(i, 1 + t) ELSE 0
Double(i) ==
    IF (NumAddresses - 1) * AddressesPerBlock < Blocks(files[i].size) THEN Spot(i, 0) ELSE 0

Inode(i) ==
    LET f == files[i]
        large == Blocks(f.size) > NumAddresses
    IN  [alloc |-> f.alloc, dir |-> f.dir, large |-> large, size |-> f.size,
         addr |-> [a \in 0..NumAddresses-1 |->
                     IF ~large THEN Data(i, a)
                     ELSE IF a = NumAddresses - 1 THEN Double(i) ELSE Table(i, a)]]

\* What is stored in sector s.
Sector(s) ==
    IF s < InodeStartSector THEN <<"boot block or superblock">>
    ELSE IF s < InodeStartSector + s_isize
    THEN [k \in 0..InodesPerSector-1 |-> Inode((s - InodeStartSector) * InodesPerSector + k + 1)]
    ELSE LET i == 1 + (s - Spot(1, 0)) \div Room
             k == (s - Spot(1, 0)) % Room
         IN  IF k = 0 THEN [a \in 0..AddressesPerBlock-1 |-> Table(i, NumAddresses - 1 + a)]
             ELSE IF k <= NumTables
             THEN [a \in 0..AddressesPerBlock-1 |-> Data(i, (k - 1) * AddressesPerBlock + a)]
             ELSE IF k - 1 - NumTables \in DOMAIN files[i].content
             THEN files[i].content[k - 1 - NumTables] ELSE <<"unused">>

Init ==
    /\ image \in DOMAIN Images
    /\ disk = [s \in 0..InodeStartSector+s_isize+Len(files)*Room-1 |-> Sector(s)]
    /\ phase = "start" /\ flags = {} /\ inumber = 1
    /\ calls = <<>> /\ inodeLines = <<>> /\ pathLines = <<>>

-----------------------------------------------------------------------------
(* inode.c, file.c                                                         *)

diskimg_readsector(s) == disk[s]

InRange(i) == i # 0 /\ i - 1 < s_isize * InodesPerSector
inode_iget(i) ==
    diskimg_readsector((i - 1) \div InodesPerSector + InodeStartSector)[(i - 1) % InodesPerSector]

\* Mutation: the first doubly indirect block is looked up as a singly indirect one.
inode_indexlookup_Boundary(in, b) ==
    LET singly == (NumAddresses - 1) * AddressesPerBlock IN
    IF ~in.large THEN IF b >= NumAddresses THEN Failed ELSE in.addr[b]
    ELSE IF b <= singly THEN diskimg_readsector(in.addr[b \div AddressesPerBlock])[b % AddressesPerBlock]
    ELSE diskimg_readsector(diskimg_readsector(in.addr[NumAddresses - 1])[(b - singly) \div AddressesPerBlock])
           [(b - singly) % AddressesPerBlock]

inode_indexlookup(in, b) ==
    LET singly == (NumAddresses - 1) * AddressesPerBlock
        doubly == b - singly
    IN  CASE ~in.large /\ b >= NumAddresses -> Failed
          [] ~in.large /\ b < NumAddresses -> in.addr[b]
          [] in.large /\ (in.size > MaxFileSize \/ doubly >= AddressesPerBlock * AddressesPerBlock) -> Failed
          [] in.large /\ doubly < 0 ->
               diskimg_readsector(in.addr[b \div AddressesPerBlock])[b % AddressesPerBlock]
          [] OTHER ->
               diskimg_readsector(diskimg_readsector(in.addr[NumAddresses - 1])[doubly \div AddressesPerBlock])
                 [doubly % AddressesPerBlock]

\* The block, and how many of its bytes belong to the file.
file_getblock(i, b) ==
    LET in == inode_iget(i)
        sector == inode_indexlookup(in, b)
        blocks == in.size \div SectorSize + IF in.size % SectorSize = 0 THEN 0 ELSE 1
    IN  IF ~InRange(i) \/ sector = Failed \/ b >= blocks THEN [bytes |-> Failed]
        ELSE [bytes |-> IF b = blocks - 1 /\ in.size % SectorSize # 0
                        THEN in.size % SectorSize ELSE SectorSize,
              data |-> diskimg_readsector(sector)]

-----------------------------------------------------------------------------
(* directory.c, pathname.c.  What may be found is a set: the scan of a     *)
(* block does not stop at its end, but goes on through the stack, where the*)
(* entries of directories that were read earlier may still lie.            *)

Entries(i) == UNION {ToSet(files[i].content[b]) : b \in DOMAIN files[i].content}
Elsewhere(name) ==
    {e \in UNION {Entries(i) : i \in {j \in DOMAIN files : files[j].dir}} : e.name = name}

directory_findname(d, name) ==
    LET in == inode_iget(d)
        block(b) == file_getblock(d, b)
        stops(b) == block(b).bytes < 0 \/ \E k \in DOMAIN block(b).data : block(b).data[k].name = name
        before == {b \in 0..Blocks(in.size)-1 : \A a \in 0..b : ~stops(a)}
        last == Cardinality(before)
        found == {k \in DOMAIN block(last).data : block(last).data[k].name = name}
    IN  IF ~InRange(d) \/ ~in.dir THEN {}
        ELSE (IF before # {} THEN Elsewhere(name) ELSE {}) \union
             (IF last = Blocks(in.size) \/ block(last).bytes < 0 THEN {}
              ELSE {block(last).data[CHOOSE k \in found : \A l \in found : k <= l]})

\* One step of pathname_lookup_helper(): the inumbers the name may lead to.
Follow(d, name) ==
    IF d = Failed \/ directory_findname(d, name) = {} THEN {Failed}
    ELSE {IF InRange(e.inumber) THEN e.inumber ELSE Failed : e \in directory_findname(d, name)}

\* A path is a sequence of parts, each a name and what follows it in memory
\* if it is a long one.  strncmp() stops before that; strsep() finds one name
\* more, the empty one, where it is a slash.
\* Mutation: every name is looked up in the root.
pathname_lookup_Root(path) ==
    FoldLeft(LAMBDA at, part : UNION {Follow(RootInumber, part.name) : d \in at}, {RootInumber}, path)
pathname_lookup(path) ==
    LET helper(at, part) ==
            LET there == UNION {Follow(d, part.name) : d \in at}
            IN  IF part.tail = Slash THEN UNION {Follow(d, "") : d \in there} ELSE there
    IN  FoldLeft(helper, {RootInumber}, path)

chksumfile_byinumber(i) ==
    LET blocks == 0..Blocks(inode_iget(i).size)-1 IN
    IF ~InRange(i) \/ ~inode_iget(i).alloc \/ \E b \in blocks : file_getblock(i, b).bytes < 0
    THEN <<Failed>>
    ELSE [b \in blocks |-> file_getblock(i, b)]

chksumfile_bypathname(path) ==
    {IF i = Failed THEN <<Failed>> ELSE chksumfile_byinumber(i) : i \in pathname_lookup(path)}

\* Different bytes have different checksums.
chksumfile_compare(chksum1, chksum2) == chksum1 = chksum2

-----------------------------------------------------------------------------
(* diskimageaccess.c                                                       *)

\* main(): the usage, the image, the boot block, the superblock or, without
\* -q, the size of the disk may be at fault.
Start ==
    /\ phase = "start"
    /\ phase' \in {"failed", "inodes"}
    /\ flags' \in SUBSET {"i", "p"}
    /\ UNCHANGED <<image, disk, inumber, calls, inodeLines, pathLines>>

Line(path, i, chksum) == [path |-> path, inumber |-> i, size |-> inode_iget(i).size, chksum |-> chksum]

\* DumpInodeChecksum(): the loop ends before the last inode.
DumpInode ==
    /\ phase = "inodes" /\ "i" \in flags /\ inumber < s_isize * InodesPerSector
    /\ inumber' = inumber + 1
    /\ inodeLines' =
         IF inode_iget(inumber).alloc /\ chksumfile_byinumber(inumber) # <<Failed>>
         THEN Append(inodeLines, Line(<<>>, inumber, chksumfile_byinumber(inumber)))
         ELSE inodeLines
    /\ UNCHANGED <<image, disk, phase, flags, calls, pathLines>>

DumpPaths ==
    /\ phase = "inodes" /\ ("i" \notin flags \/ inumber >= s_isize * InodesPerSector)
    /\ phase' = "paths"
    /\ calls' = IF "p" \in flags THEN <<[path |-> <<>>, inumber |-> RootInumber]>> ELSE <<>>
    /\ UNCHANGED <<image, disk, flags, inumber, inodeLines, pathLines>>

\* Free entries too.
GetDirEntries(i) ==
    LET count == inode_iget(i).size \div EntrySize
    IN  [k \in 1..IF count < MaxEntries THEN count ELSE MaxEntries |->
           file_getblock(i, (k - 1) \div EntriesPerBlock).data[1 + ((k - 1) % EntriesPerBlock)]]

\* The part that sprintf("%s/%s") adds for entry k: a long name is not
\* terminated, and what follows it is the inumber of the next entry.
Part(entries, k, stale) ==
    [name |-> entries[k].name,
     tail |-> IF entries[k].name \notin LongNames THEN 0
              ELSE IF k < Len(entries) THEN entries[k + 1].inumber ELSE stale]

Children(call, stale) ==
    LET entries == GetDirEntries(call.inumber)
    IN  [k \in 1..Len(entries) |->
           [path |-> Append(call.path, Part(entries, k, stale)), inumber |-> entries[k].inumber]]

\* The loop skips "." and "..".
Skip ==
    /\ phase = "paths" /\ calls # <<>>
    /\ Head(calls).path # <<>> /\ Last(Head(calls).path).name \in {".", ".."}
    /\ calls' = Tail(calls)
    /\ UNCHANGED <<image, disk, phase, flags, inumber, inodeLines, pathLines>>

\* One call of DumpPathAndChildren(); the calls it makes come next.
DumpPathAndChildren ==
    /\ phase = "paths" /\ calls # <<>>
    /\ Head(calls).path # <<>> => Last(Head(calls).path).name \notin {".", ".."}
    /\ LET call == Head(calls)
           chksum == chksumfile_byinumber(call.inumber)
       IN  IF ~InRange(call.inumber) THEN calls' = Tail(calls) /\ UNCHANGED pathLines
           ELSE \E chksum2 \in chksumfile_bypathname(call.path), stale \in {0, 1, Slash} :
             IF <<Failed>> \in {chksum, chksum2} \/ ~chksumfile_compare(chksum, chksum2)
             THEN calls' = Tail(calls) /\ UNCHANGED pathLines
             ELSE /\ pathLines' = Append(pathLines, Line(call.path, call.inumber, chksum))
                  /\ calls' = (IF inode_iget(call.inumber).dir THEN Children(call, stale) ELSE <<>>)
                              \o Tail(calls)
    /\ UNCHANGED <<image, disk, phase, flags, inumber, inodeLines>>

Exit ==
    /\ phase = "paths" /\ calls = <<>> /\ phase' = "done"
    /\ UNCHANGED <<image, disk, flags, inumber, calls, inodeLines, pathLines>>

Next == Start \/ DumpInode \/ DumpPaths \/ Skip \/ DumpPathAndChildren \/ Exit

Spec == Init /\ [][Next]_vars

-----------------------------------------------------------------------------
(* Properties.                                                             *)

Chksum(i) ==
    [b \in 0..Blocks(files[i].size)-1 |->
       [bytes |-> IF b * SectorSize + SectorSize <= files[i].size THEN SectorSize
                  ELSE files[i].size - b * SectorSize,
        data |-> files[i].content[b]]]

\* A line tells the size and the checksum of what is stored under its inumber.
True_(line) == line.size = files[line.inumber].size /\ line.chksum = Chksum(line.inumber)

\* diskimageaccess -i prints the inodes in use in their order, all but the
\* last one of the disk, each with the checksum of the bytes its file was
\* laid out with, through direct, singly and doubly indirect addresses
\* (DumpInodeChecksum, inode_indexlookup, file_getblock).
InodesDumped ==
    phase = "done" /\ "i" \in flags =>
        /\ \A k \in DOMAIN inodeLines : True_(inodeLines[k])
        /\ \A k, l \in DOMAIN inodeLines : k < l => inodeLines[k].inumber < inodeLines[l].inumber
        /\ {inodeLines[k].inumber : k \in DOMAIN inodeLines} = {i \in 1..Len(files)-1 : files[i].alloc}

\* The entries of a directory but "." and "..", each with its place, from 0.
Listed(f) == {l \in {<<k, Entry(f, k)>> : k \in Places(f)} : l[2].name \notin {".", ".."}}

\* The path of a line is that of an earlier one and the name of an entry of
\* the directory printed there.
Leads(k) ==
    IF pathLines[k].path = <<>> THEN pathLines[k].inumber = RootInumber
    ELSE \E j \in 1..k-1 :
           /\ pathLines[j].path = Front(pathLines[k].path)
           /\ files[pathLines[j].inumber].dir
           /\ \E l \in Listed(files[pathLines[j].inumber]) :
                l[2].name = Last(pathLines[k].path).name /\ l[2].inumber = pathLines[k].inumber

\* The names that lead from the root to inumber i, with the positions of
\* the entries they are found in.
Reach[n \in Nat] ==
    IF n = 0 THEN {[at |-> RootInumber, names |-> <<>>, places |-> <<>>]}
    ELSE UNION {{[at |-> e[2].inumber, names |-> Append(p.names, e[2].name),
                  places |-> Append(p.places, <<p.at, e[1]>>)] :
                    e \in {l \in Listed(files[p.at]) : l[2].inumber # 0}} :
                p \in {q \in Reach[n - 1] : files[q.at].dir}}
Tree == UNION {Reach[n] : n \in 0..Len(files)}

\* The lookup of an entry does not leave the first block of its directory,
\* and its name is not split by the inumber that follows it in memory.
Plain(place) ==
    LET here == {l \in Listed(files[place[1]]) : l[1] = place[2]}
        next == {l \in Listed(files[place[1]]) : l[1] = place[2] + 1}
    IN  /\ place[2] < EntriesPerBlock
        /\ \A l \in here : l[2].name \in LongNames =>
             next # {} /\ \A m \in next : m[2].inumber # Slash

Names(path) == [k \in DOMAIN path |-> path[k].name]

\* diskimageaccess -p prints a path at most once, always with the inode it
\* leads to and the checksum of its bytes, even where the lookup of a name
\* reads past its buffer (DumpPathAndChildren, "Pathname checksum of %s
\* differs from inode").
PathsTrue ==
    \A k \in DOMAIN pathLines :
        /\ True_(pathLines[k]) /\ Leads(k)
        /\ \A j \in 1..k-1 : Names(pathLines[j].path) # Names(pathLines[k].path)

\* And it prints every path all of whose names are looked up in the first block
\* of their directory (directory_findname, pathname_lookup).
PathsDumped ==
    /\ PathsTrue
    /\ phase = "done" /\ "p" \in flags =>
         \A p \in Tree : (\A k \in DOMAIN p.places : Plain(p.places[k])) =>
            \E k \in DOMAIN pathLines : Names(pathLines[k].path) = p.names /\ pathLines[k].inumber = p.at
=============================================================================
