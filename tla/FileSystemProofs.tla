-------------------------- MODULE FileSystemProofs --------------------------
(***************************************************************************)
(* TLAPS proofs about FileSystem, for every disk: any sizes of a sector,   *)
(* an inode and a table of addresses, and any files.  The addresses of an  *)
(* inode, direct or through one table or two, lead to the blocks its file  *)
(* was laid out with; the loop of diskimageaccess -i then has printed, at  *)
(* any time, exactly the inodes in use that it has passed.                 *)
(***************************************************************************)
EXTENDS FileSystem, TLAPS

\* The disk is the one its files were laid out on.
LaidOut ==
    /\ image \in DOMAIN Images
    /\ disk = [s \in 0..InodeStartSector+s_isize+Len(files)*Room-1 |-> Sector(s)]

-----------------------------------------------------------------------------
(* Arithmetic.                                                             *)

LEMMA Division ==
    ASSUME NEW n \in Nat, NEW d \in Nat \ {0}
    PROVE  n \div d \in Nat /\ n % d \in 0..d-1 /\ n = d * (n \div d) + (n % d)
<1>1. n \div d \in Nat  OBVIOUS
<1>2. n % d \in 0..d-1  OBVIOUS
<1>3. n = d * (n \div d) + (n % d)  OBVIOUS
<1> QED BY <1>1, <1>2, <1>3

LEMMA Quotient ==
    ASSUME NEW q \in Nat, NEW d \in Nat \ {0}, NEW r \in 0..d-1, NEW x \in Nat, x = d * q + r
    PROVE  x \div d = q /\ x % d = r
OBVIOUS

LEMMA Product ==
    ASSUME NEW p \in Nat, NEW q \in Nat, NEW d \in Nat \ {0}, p < q
    PROVE  d * p \in Nat /\ d * q \in Nat /\ d * p + d <= d * q
OBVIOUS

\* The blocks of a file: their number, and which bytes the last one holds.
LEMMA BlockBytes ==
    ASSUME NEW b \in Nat, NEW s \in Nat, NEW d \in Nat \ {0}
    PROVE  /\ (s + d - 1) \div d \in Nat
           /\ b < (s + d - 1) \div d <=> b * d < s
           /\ (s + d - 1) \div d = s \div d + IF s % d = 0 THEN 0 ELSE 1
<1>1. (s + d - 1) \div d \in Nat  OBVIOUS
<1>2. b < (s + d - 1) \div d <=> b * d < s  OBVIOUS
<1>3. (s + d - 1) \div d = s \div d + IF s % d = 0 THEN 0 ELSE 1  OBVIOUS
<1> QED BY <1>1, <1>2, <1>3

LEMMA LastBlock ==
    ASSUME NEW b \in Nat, NEW s \in Nat, NEW d \in Nat \ {0},
           b < (s + d - 1) \div d
    PROVE  (IF b = (s + d - 1) \div d - 1 /\ s % d # 0 THEN s % d ELSE d) =
           (IF b * d + d <= s THEN d ELSE s - b * d)
<1> DEFINE q == s \div d
           r == s % d
<1>1. q \in Nat /\ r \in 0..d-1 /\ s = d * q + r  BY Division
<1>2. (s + d - 1) \div d = q + IF r = 0 THEN 0 ELSE 1  BY BlockBytes
<1> HIDE DEF q, r
<1>3. CASE b < q
  <2>1. d * b + d <= d * q  BY <1>1, <1>3, Product
  <2>2. b * d = d * b  OBVIOUS
  <2>3. b * d + d <= s  BY <1>1, <2>1, <2>2, d * b \in Nat, d * q \in Nat
  <2>4. ~ (b = (s + d - 1) \div d - 1 /\ r # 0)  BY <1>1, <1>2, <1>3
  <2> QED BY <2>3, <2>4 DEF r
<1>4. CASE b >= q
  <2>1. b = q /\ r # 0  BY <1>1, <1>2, <1>4
  <2>2. b * d = d * q  BY <2>1, <1>1
  <2>3. ~ (b * d + d <= s) /\ s - b * d = r  BY <1>1, <2>2, d * q \in Nat
  <2>4. b = (s + d - 1) \div d - 1  BY <1>1, <1>2, <2>1
  <2> QED BY <2>1, <2>3, <2>4 DEF r
<1> QED BY <1>3, <1>4, <1>1

-----------------------------------------------------------------------------
(* The layout of the disk.                                                 *)

LEMMA Sizes ==
    ASSUME FileSystemAssumption
    PROVE  /\ SectorSize \in Nat \ {0} /\ AddressesPerBlock \in Nat \ {0}
           /\ InodesPerSector \in Nat \ {0} /\ NumAddresses \in Nat \ {0}
           /\ NumTables \in Nat \ {0} /\ NumTables * AddressesPerBlock \in Nat
           /\ Room \in Nat \ {0} /\ Room = 1 + NumTables + NumTables * AddressesPerBlock
           /\ (NumAddresses - 1) * AddressesPerBlock \in Nat
           /\ NumTables * AddressesPerBlock =
                (NumAddresses - 1) * AddressesPerBlock + AddressesPerBlock * AddressesPerBlock
<1>1. /\ SectorSize \in Nat \ {0} /\ AddressesPerBlock \in Nat \ {0}
      /\ InodesPerSector \in Nat \ {0} /\ NumAddresses \in Nat \ {0}
  BY DEF FileSystemAssumption
<1>2. NumAddresses - 1 \in Nat /\ (NumAddresses - 1) * AddressesPerBlock \in Nat
  <2>1. NumAddresses - 1 \in Nat  BY <1>1
  <2>2. \A p, q \in Nat : p * q \in Nat  OBVIOUS
  <2> QED BY <1>1, <2>1, <2>2
<1>3. NumTables \in Nat \ {0}  BY <1>1 DEF NumTables
<1>4. NumTables * AddressesPerBlock \in Nat  BY <1>1, <1>3
<1>5. Room = 1 + NumTables + NumTables * AddressesPerBlock  BY DEF Room
<1>6. Room \in Nat \ {0}  BY <1>3, <1>4, <1>5
<1>7. \A p \in Nat, d \in Nat : (p + d) * d = p * d + d * d  OBVIOUS
<1>8. NumTables * AddressesPerBlock =
        (NumAddresses - 1) * AddressesPerBlock + AddressesPerBlock * AddressesPerBlock
  BY <1>1, <1>2, <1>7 DEF NumTables
<1> QED BY <1>1, <1>2, <1>3, <1>4, <1>5, <1>6, <1>8

\* The files of the disk, and its sectors of inodes.
LEMMA Files ==
    ASSUME FileSystemAssumption, image \in DOMAIN Images
    PROVE  /\ Len(files) \in Nat /\ DOMAIN files = 1..Len(files)
           /\ s_isize \in Nat /\ InodesPerSector * s_isize = Len(files)
           /\ s_isize * InodesPerSector = Len(files)
           /\ \A i \in 1..Len(files) :
                /\ files[i].size \in Nat /\ files[i].size <= MaxFileSize
                /\ 0..Blocks(files[i].size)-1 \subseteq DOMAIN files[i].content
<1>1. files \in Seq(ToSet(files)) /\ Len(files) % InodesPerSector = 0
  BY DEF FileSystemAssumption, files
<1>2. Len(files) \in Nat /\ DOMAIN files = 1..Len(files)  BY <1>1
<1>3. s_isize \in Nat /\ Len(files) = InodesPerSector * s_isize + (Len(files) % InodesPerSector)
  BY <1>2, Sizes, Division DEF s_isize
<1>4. InodesPerSector * s_isize = Len(files) /\ s_isize * InodesPerSector = Len(files)
  <2>1. InodesPerSector * s_isize \in Nat /\ s_isize * InodesPerSector = InodesPerSector * s_isize
    <3>1. \A p, q \in Nat : p * q \in Nat /\ q * p = p * q  OBVIOUS
    <3> QED BY <1>3, <3>1, Sizes
  <2> QED BY <1>1, <1>3, <2>1
<1>5. ASSUME NEW i \in 1..Len(files)
      PROVE  /\ files[i].size \in 0..MaxFileSize
             /\ 0..Blocks(files[i].size)-1 \subseteq DOMAIN files[i].content
  BY <1>2 DEF FileSystemAssumption, files
<1>6. MaxFileSize \in Int
  <2>1. \A p, q \in Nat : p * q \in Nat  OBVIOUS
  <2>2. AddressesPerBlock * AddressesPerBlock \in Nat  BY <2>1, Sizes
  <2>3. (NumAddresses - 1) * AddressesPerBlock + AddressesPerBlock * AddressesPerBlock \in Nat
    BY <2>2, Sizes
  <2> QED BY <2>1, <2>3, Sizes DEF MaxFileSize
<1>7. \A i \in 1..Len(files) : files[i].size \in Nat /\ files[i].size <= MaxFileSize
  BY <1>5, <1>6
<1> QED BY <1>2, <1>3, <1>4, <1>5, <1>7

\* No file has more blocks than its addresses reach.
LEMMA FileBlocks ==
    ASSUME FileSystemAssumption, image \in DOMAIN Images, NEW i \in 1..Len(files)
    PROVE  /\ Blocks(files[i].size) \in Nat
           /\ Blocks(files[i].size) <= NumTables * AddressesPerBlock
<1> DEFINE size == files[i].size
           most == NumTables * AddressesPerBlock
<1>1. size \in Nat /\ size <= MaxFileSize  BY Files
<1>2. most \in Nat /\ SectorSize \in Nat \ {0}  BY Sizes
<1>3. MaxFileSize = most * SectorSize  BY Sizes DEF MaxFileSize
<1>4. Blocks(size) \in Nat  BY <1>1, <1>2, BlockBytes DEF Blocks
<1>5. most < Blocks(size) <=> most * SectorSize < size  BY <1>1, <1>2, BlockBytes DEF Blocks
<1> HIDE DEF most, size
<1>6. most * SectorSize \in Nat  BY <1>2
<1>7. Blocks(size) <= most  BY <1>1, <1>2, <1>3, <1>4, <1>5, <1>6
<1> QED BY <1>4, <1>7 DEF size, most

LEMMA InodeStored ==
    ASSUME FileSystemAssumption, LaidOut, NEW i \in 1..Len(files)
    PROVE  inode_iget(i) = Inode(i)
<1> DEFINE q == (i - 1) \div InodesPerSector
           r == (i - 1) % InodesPerSector
           s == q + InodeStartSector
<1>1. image \in DOMAIN Images  BY DEF LaidOut
<1>2. Len(files) \in Nat /\ s_isize \in Nat /\ InodesPerSector * s_isize = Len(files)
  BY <1>1, Files
<1>3. InodesPerSector \in Nat \ {0} /\ Room \in Nat \ {0}  BY Sizes
<1>4. q \in Nat /\ r \in 0..InodesPerSector-1 /\ i - 1 = InodesPerSector * q + r
  <2>1. i - 1 \in Nat  BY <1>2
  <2> QED BY <2>1, <1>3, Division
<1> HIDE DEF q, r
<1>5. q < s_isize
  <2> SUFFICES ASSUME q >= s_isize PROVE FALSE  BY <1>2, <1>4
  <2>1. InodesPerSector * s_isize <= InodesPerSector * q
    BY <1>2, <1>3, <1>4, Product
  <2> QED BY <1>2, <1>3, <1>4, <2>1, InodesPerSector * q \in Nat
<1>6. s \in 0..InodeStartSector+s_isize+Len(files)*Room-1
  <2>1. Len(files) * Room \in Nat  BY <1>2, <1>3
  <2> QED BY <2>1, <1>2, <1>4, <1>5 DEF InodeStartSector
<1>7. disk[s] = [k \in 0..InodesPerSector-1 |-> Inode((s - InodeStartSector) * InodesPerSector + k + 1)]
  <2>1. disk[s] = Sector(s)  BY <1>6 DEF LaidOut
  <2>2. ~ (s < InodeStartSector) /\ s < InodeStartSector + s_isize
    BY <1>2, <1>4, <1>5 DEF InodeStartSector
  <2> QED BY <2>1, <2>2 DEF Sector
<1>8. disk[s][r] = Inode((s - InodeStartSector) * InodesPerSector + r + 1)  BY <1>4, <1>7
<1>9. (s - InodeStartSector) * InodesPerSector + r + 1 = i
  <2>1. s - InodeStartSector = q  BY <1>4 DEF InodeStartSector
  <2>2. q * InodesPerSector = InodesPerSector * q  BY <1>3, <1>4
  <2> HIDE DEF s
  <2> QED BY <1>2, <1>3, <1>4, <2>1, <2>2, InodesPerSector * q \in Nat
<1> QED BY <1>8, <1>9 DEF inode_iget, diskimg_readsector, q, r

\* What the sectors of inode i hold: the doubly indirect table, the tables, the data.
Stored(i, k) ==
    IF k = 0 THEN [a \in 0..AddressesPerBlock-1 |-> Table(i, NumAddresses - 1 + a)]
    ELSE IF k <= NumTables
    THEN [a \in 0..AddressesPerBlock-1 |-> Data(i, (k - 1) * AddressesPerBlock + a)]
    ELSE IF k - 1 - NumTables \in DOMAIN files[i].content
    THEN files[i].content[k - 1 - NumTables] ELSE <<"unused">>

LEMMA SectorStored ==
    ASSUME FileSystemAssumption, LaidOut, NEW i \in 1..Len(files), NEW k \in 0..Room-1
    PROVE  Spot(i, k) \in Nat /\ diskimg_readsector(Spot(i, k)) = Stored(i, k)
<1> DEFINE s == Spot(i, k)
           n == Len(files)
           base == InodeStartSector + s_isize
           p == (i - 1) * Room
<1>1. image \in DOMAIN Images  BY DEF LaidOut
<1>2. n \in Nat /\ s_isize \in Nat  BY <1>1, Files
<1>3. Room \in Nat \ {0}  BY Sizes
<1>4. i - 1 \in Nat /\ i - 1 < n  BY <1>2
<1>5. base \in Nat /\ base >= InodeStartSector /\ InodeStartSector \in Nat
  BY <1>2 DEF InodeStartSector
<1>6. p \in Nat /\ Room * (i - 1) = p /\ n * Room \in Nat /\ p + Room <= n * Room
  <2>1. \A x, y \in Nat : x * y \in Nat /\ y * x = x * y  OBVIOUS
  <2>2. Room * (i - 1) + Room <= Room * n  BY <1>2, <1>3, <1>4, Product
  <2>3. Room * (i - 1) = p /\ Room * n = n * Room /\ p \in Nat /\ n * Room \in Nat
    BY <2>1, <1>2, <1>3, <1>4
  <2> QED BY <2>2, <2>3
<1>7. s = base + p + k  BY DEF Spot
<1>8. Spot(1, 0) = base
  <2>1. Spot(1, 0) = base + (1 - 1) * Room + 0  BY DEF Spot
  <2>2. (1 - 1) * Room = 0  BY <1>3
  <2> HIDE DEF base
  <2> QED BY <2>1, <2>2, <1>5
<1> HIDE DEF s, p, n, base
<1>9. s \in Nat /\ s \in 0..base+n*Room-1 /\ s >= base /\ s - base = p + k
  BY <1>2, <1>3, <1>5, <1>6, <1>7
<1>10. (s - base) \div Room = i - 1 /\ (s - base) % Room = k
  <2>1. p + k \in Nat /\ p + k = Room * (i - 1) + k  BY <1>3, <1>6
  <2>2. \A q \in Nat, x \in Nat : x = Room * q + k => x \div Room = q /\ x % Room = k
    BY <1>3, Quotient
  <2>3. (p + k) \div Room = i - 1 /\ (p + k) % Room = k  BY <2>1, <2>2, <1>4
  <2> QED BY <2>3, <1>9
<1>11. disk[s] = Sector(s)  BY <1>9 DEF LaidOut, base, n
<1>12. ~ (s < InodeStartSector) /\ ~ (s < InodeStartSector + s_isize)
  BY <1>5, <1>9 DEF base
<1>13. 1 + (s - base) \div Room = i  BY <1>4, <1>10
<1>14. Sector(s) = Stored(i, k)
  BY <1>8, <1>10, <1>12, <1>13 DEF Sector, Stored
<1> QED BY <1>9, <1>11, <1>14 DEF s, diskimg_readsector

\* The block at address Data(i, b) is block b of the file.
LEMMA DataStored ==
    ASSUME FileSystemAssumption, LaidOut, NEW i \in 1..Len(files),
           NEW b \in Nat, b < Blocks(files[i].size)
    PROVE  /\ Data(i, b) \in Nat
           /\ diskimg_readsector(Data(i, b)) = files[i].content[b]
<1> DEFINE k == 1 + NumTables + b
<1>1. image \in DOMAIN Images  BY DEF LaidOut
<1>2. Blocks(files[i].size) \in Nat /\ Blocks(files[i].size) <= NumTables * AddressesPerBlock
  BY <1>1, FileBlocks
<1>3. NumTables \in Nat \ {0} /\ NumTables * AddressesPerBlock \in Nat
      /\ Room = 1 + NumTables + NumTables * AddressesPerBlock
  BY Sizes
<1>4. k \in 0..Room-1 /\ k # 0 /\ ~ (k <= NumTables) /\ k - 1 - NumTables = b
  BY <1>2, <1>3
<1>5. b \in DOMAIN files[i].content
  <2>1. 0..Blocks(files[i].size)-1 \subseteq DOMAIN files[i].content  BY <1>1, Files
  <2> QED BY <2>1, <1>2
<1>6. Data(i, b) = Spot(i, k)  BY DEF Data
<1> HIDE DEF k
<1>7. Spot(i, k) \in Nat /\ diskimg_readsector(Spot(i, k)) = Stored(i, k)  BY <1>4, SectorStored
<1>8. Stored(i, k) = files[i].content[b]  BY <1>4, <1>5 DEF Stored
<1> QED BY <1>6, <1>7, <1>8

\* Table t of inode i holds the addresses of its blocks.
LEMMA TableStored ==
    ASSUME FileSystemAssumption, LaidOut, NEW i \in 1..Len(files),
           NEW b \in Nat, b < Blocks(files[i].size)
    PROVE  /\ b \div AddressesPerBlock \in 0..NumTables-1
           /\ b % AddressesPerBlock \in 0..AddressesPerBlock-1
           /\ diskimg_readsector(Table(i, b \div AddressesPerBlock))[b % AddressesPerBlock] = Data(i, b)
<1> DEFINE t == b \div AddressesPerBlock
           a == b % AddressesPerBlock
           k == 1 + t
<1>1. image \in DOMAIN Images  BY DEF LaidOut
<1>2. Blocks(files[i].size) \in Nat /\ Blocks(files[i].size) <= NumTables * AddressesPerBlock
  BY <1>1, FileBlocks
<1>3. NumTables \in Nat \ {0} /\ NumTables * AddressesPerBlock \in Nat
      /\ Room = 1 + NumTables + NumTables * AddressesPerBlock /\ AddressesPerBlock \in Nat \ {0}
  BY Sizes
<1>4. t \in Nat /\ a \in 0..AddressesPerBlock-1 /\ b = AddressesPerBlock * t + a
  BY <1>3, Division
<1> HIDE DEF t, a
<1>5. t * AddressesPerBlock \in Nat /\ AddressesPerBlock * t = t * AddressesPerBlock
      /\ AddressesPerBlock * NumTables = NumTables * AddressesPerBlock
  <2>1. \A x, y \in Nat : x * y \in Nat /\ y * x = x * y  OBVIOUS
  <2> QED BY <2>1, <1>3, <1>4
<1>6. t < NumTables
  <2> SUFFICES ASSUME NumTables <= t PROVE FALSE  BY <1>3, <1>4
  <2>1. CASE NumTables = t  BY <2>1, <1>2, <1>3, <1>4, <1>5
  <2>2. CASE NumTables < t
    <3>1. AddressesPerBlock * NumTables + AddressesPerBlock <= AddressesPerBlock * t
      BY <2>2, <1>3, <1>4, Product
    <3> QED BY <3>1, <1>2, <1>3, <1>4, <1>5
  <2> QED BY <2>1, <2>2, <1>3, <1>4
<1>7. Table(i, t) = Spot(i, k)
  <2>1. t * AddressesPerBlock < Blocks(files[i].size)  BY <1>2, <1>3, <1>4, <1>5
  <2> QED BY <2>1 DEF Table
<1>8. k \in 0..Room-1 /\ k # 0 /\ k <= NumTables /\ k - 1 = t  BY <1>3, <1>4, <1>6
<1>9. diskimg_readsector(Spot(i, k)) = Stored(i, k)  BY <1>8, SectorStored
<1>10. Stored(i, k) = [c \in 0..AddressesPerBlock-1 |-> Data(i, t * AddressesPerBlock + c)]
  BY <1>8 DEF Stored
<1>11. Stored(i, k)[a] = Data(i, t * AddressesPerBlock + a)  BY <1>4, <1>10
<1>12. t * AddressesPerBlock + a = b  BY <1>4, <1>5
<1>13. t \in 0..NumTables-1  BY <1>3, <1>4, <1>6
<1> QED BY <1>4, <1>7, <1>9, <1>11, <1>12, <1>13 DEF t, a

\* The doubly indirect table holds the addresses of the tables from NumAddresses - 1 on.
LEMMA DoubleStored ==
    ASSUME FileSystemAssumption, LaidOut, NEW i \in 1..Len(files),
           NEW a \in 0..AddressesPerBlock-1,
           (NumAddresses - 1) * AddressesPerBlock < Blocks(files[i].size)
    PROVE  diskimg_readsector(Double(i))[a] = Table(i, NumAddresses - 1 + a)
<1>1. Double(i) = Spot(i, 0)  BY DEF Double
<1>2. 0 \in 0..Room-1
  <2>1. Room \in Nat \ {0}  BY Sizes
  <2> QED BY <2>1
<1>3. diskimg_readsector(Spot(i, 0)) = Stored(i, 0)  BY <1>2, SectorStored
<1>4. Stored(i, 0) = [c \in 0..AddressesPerBlock-1 |-> Table(i, NumAddresses - 1 + c)]
  BY DEF Stored
<1> QED BY <1>1, <1>3, <1>4

-----------------------------------------------------------------------------
(* What the program finds.                                                 *)

\* Every way through the addresses of an inode leads to the block's address.
LEMMA BlockFound ==
    ASSUME FileSystemAssumption, LaidOut, NEW i \in 1..Len(files),
           NEW b \in Nat, b < Blocks(files[i].size)
    PROVE  inode_indexlookup(Inode(i), b) = Data(i, b)
<1> DEFINE in == Inode(i)
           singly == (NumAddresses - 1) * AddressesPerBlock
           doubly == b - singly
           square == AddressesPerBlock * AddressesPerBlock
           t == b \div AddressesPerBlock
           a == b % AddressesPerBlock
           blocks == Blocks(files[i].size)
<1>1. image \in DOMAIN Images  BY DEF LaidOut
<1>2. blocks \in Nat /\ blocks <= NumTables * AddressesPerBlock  BY <1>1, FileBlocks
<1>3. /\ NumTables * AddressesPerBlock \in Nat /\ singly \in Nat
      /\ NumTables * AddressesPerBlock = singly + square
      /\ AddressesPerBlock \in Nat \ {0} /\ NumAddresses \in Nat \ {0}
      /\ NumTables \in Nat /\ NumTables = NumAddresses - 1 + AddressesPerBlock
  BY Sizes DEF NumTables
<1>4. square \in Nat
  <2>1. \A x \in Nat : x * x \in Nat  OBVIOUS
  <2> QED BY <2>1, <1>3
<1>5. ~ (in.size > MaxFileSize)
  <2>1. MaxFileSize \in Int
    <3>1. \A x, y \in Nat : x * y \in Nat  OBVIOUS
    <3>2. singly + square \in Nat  BY <1>3, <1>4
    <3> HIDE DEF singly, square
    <3>3. (singly + square) * SectorSize \in Nat  BY <3>1, <3>2, Sizes
    <3> QED BY <3>3 DEF MaxFileSize, singly, square
  <2>2. files[i].size \in Nat /\ files[i].size <= MaxFileSize  BY <1>1, Files
  <2>3. in.size = files[i].size  BY DEF Inode
  <2> HIDE DEF in
  <2> QED BY <2>1, <2>2, <2>3
<1>6. in.large = (blocks > NumAddresses)  BY DEF Inode
<1>7. CASE ~ in.large
  <2>1. b < NumAddresses
    <3>1. b < blocks  OBVIOUS
    <3> HIDE DEF in, blocks
    <3>2. ~ (blocks > NumAddresses)  BY <1>6, <1>7
    <3>3. NumAddresses \in Nat  BY <1>3
    <3> QED BY <3>1, <3>2, <3>3, <1>2
  <2>2. in.addr[b] = Data(i, b)
    <3>1. b \in 0..NumAddresses-1  BY <1>3, <2>1
    <3>2. in.addr = [c \in 0..NumAddresses-1 |-> Data(i, c)]  BY <1>6, <1>7 DEF Inode
    <3> HIDE DEF in
    <3> QED BY <3>1, <3>2
  <2>3. ~ (b >= NumAddresses)  BY <1>3, <2>1
  <2> HIDE DEF in
  <2> QED BY <1>7, <2>1, <2>2, <2>3 DEF inode_indexlookup, in
<1>8. CASE in.large /\ b < singly
  <2>1. /\ t \in 0..NumTables-1 /\ a \in 0..AddressesPerBlock-1
        /\ diskimg_readsector(Table(i, t))[a] = Data(i, b)
    BY TableStored
  <2>2. b = AddressesPerBlock * t + a  BY <1>3, Division
  <2> HIDE DEF t, a
  <2>3. t < NumAddresses - 1
    <3> SUFFICES ASSUME NumAddresses - 1 <= t PROVE FALSE  BY <1>3, <2>1
    <3> DEFINE m == NumAddresses - 1
    <3>1. m \in Nat /\ m <= t /\ t \in Nat  BY <1>3, <2>1
    <3>2. \A x \in Nat : AddressesPerBlock * x \in Nat /\ AddressesPerBlock * x = x * AddressesPerBlock
      BY <1>3
    <3>3. singly = m * AddressesPerBlock  OBVIOUS
    <3> HIDE DEF m, singly
    <3>4. AddressesPerBlock * m <= AddressesPerBlock * t
      <4>1. CASE m = t  BY <4>1, <3>2, <3>1
      <4>2. CASE m < t
        <5>1. AddressesPerBlock * m + AddressesPerBlock <= AddressesPerBlock * t
          BY <4>2, <3>1, <1>3, Product
        <5> QED BY <5>1, <3>1, <3>2, <1>3
      <4> QED BY <4>1, <4>2, <3>1
    <3> QED BY <3>1, <3>2, <3>3, <3>4, <1>8, <2>1, <2>2, <1>3
  <2>4. in.addr[t] = Table(i, t)
    <3>1. t \in 0..NumAddresses-1 /\ t # NumAddresses - 1  BY <1>3, <2>1, <2>3
    <3> QED BY <3>1, <1>6, <1>8 DEF Inode
  <2>5. ~ (doubly >= square) /\ doubly < 0
    <3> HIDE DEF singly, square
    <3> QED BY <1>3, <1>4, <1>8
  <2>6. inode_indexlookup(in, b) = diskimg_readsector(in.addr[t])[a]
    <3> HIDE DEF in
    <3> QED BY <1>5, <1>8, <2>5 DEF inode_indexlookup, t, a
  <2> QED BY <2>1, <2>4, <2>6
<1>9. CASE in.large /\ b >= singly
  <2> DEFINE u == doubly \div AddressesPerBlock
             c == doubly % AddressesPerBlock
  <2>1. doubly \in Nat /\ doubly < square /\ singly < blocks
    <3> HIDE DEF singly, square, blocks
    <3> QED BY <1>2, <1>3, <1>4, <1>9 DEF blocks
  <2>2. u \in Nat /\ c \in 0..AddressesPerBlock-1 /\ doubly = AddressesPerBlock * u + c
    BY <1>3, <2>1, Division
  <2>3. t = NumAddresses - 1 + u /\ a = c
    <3> DEFINE m == NumAddresses - 1
    <3>1. m \in Nat  BY <1>3
    <3>2. \A x, y \in Nat : AddressesPerBlock * (x + y) = x * AddressesPerBlock + AddressesPerBlock * y
      BY <1>3
    <3>3. singly = m * AddressesPerBlock  OBVIOUS
    <3>4. b = singly + doubly
      <4> HIDE DEF singly
      <4> QED BY <1>3
    <3> HIDE DEF u, c, m, doubly, singly
    <3>5. AddressesPerBlock * (m + u) = singly + AddressesPerBlock * u  BY <3>1, <3>2, <3>3, <2>2
    <3>6. m + u \in Nat /\ AddressesPerBlock * u \in Nat  BY <3>1, <2>2, <1>3
    <3>7. b = AddressesPerBlock * (m + u) + c  BY <3>4, <3>5, <3>6, <2>2, <1>3
    <3>8. \A q \in Nat : b = AddressesPerBlock * q + c =>
            b \div AddressesPerBlock = q /\ b % AddressesPerBlock = c
      <4>1. c \in 0..AddressesPerBlock-1  BY <2>2
      <4>2. AddressesPerBlock \in Nat \ {0}  BY <1>3
      <4> QED BY <4>1, <4>2, Quotient
    <3> QED BY <3>6, <3>7, <3>8 DEF m
  <2>4. diskimg_readsector(Table(i, t))[a] = Data(i, b)  BY TableStored
  <2>5. in.addr[NumAddresses - 1] = Double(i)
    <3>1. NumAddresses - 1 \in 0..NumAddresses-1  BY <1>3
    <3> QED BY <3>1, <1>6, <1>9 DEF Inode
  <2>6. \A x \in 0..AddressesPerBlock-1 : diskimg_readsector(Double(i))[x] = Table(i, NumAddresses - 1 + x)
    BY <2>1, DoubleStored DEF singly, blocks
  <2>7. u < AddressesPerBlock
    <3> HIDE DEF u, c, doubly
    <3> SUFFICES ASSUME AddressesPerBlock <= u PROVE FALSE  BY <1>3, <2>2
    <3>1. square <= AddressesPerBlock * u
      <4>1. CASE AddressesPerBlock = u  BY <4>1, <1>4, <2>2
      <4>2. CASE AddressesPerBlock < u
        <5>1. AddressesPerBlock * AddressesPerBlock + AddressesPerBlock <= AddressesPerBlock * u
          BY <4>2, <2>2, <1>3, Product
        <5>2. AddressesPerBlock * u \in Nat  BY <1>3, <2>2
        <5> HIDE DEF square
        <5> QED BY <5>1, <5>2, <1>3, <1>4 DEF square
      <4> QED BY <4>1, <4>2, <1>3, <2>2
    <3>2. AddressesPerBlock * u \in Nat  BY <1>3, <2>2
    <3> HIDE DEF square
    <3> QED BY <3>1, <3>2, <2>1, <2>2, <1>3, <1>4
  <2>8. diskimg_readsector(Double(i))[u] = Table(i, t)
    <3> HIDE DEF u, c, doubly, t, a
    <3>1. u \in 0..AddressesPerBlock-1  BY <1>3, <2>2, <2>7
    <3> QED BY <3>1, <2>3, <2>6
  <2>9. inode_indexlookup(in, b) =
          diskimg_readsector(diskimg_readsector(in.addr[NumAddresses - 1])[u])[c]
    <3>1. ~ (doubly >= square) /\ ~ (doubly < 0)
      <4> HIDE DEF doubly, square
      <4> QED BY <2>1, <1>4
    <3> HIDE DEF in
    <3> QED BY <1>5, <1>9, <3>1 DEF inode_indexlookup
  <2> HIDE DEF in, t, a, u, c, doubly
  <2> QED BY <2>3, <2>4, <2>5, <2>8, <2>9 DEF in
<1>10. in.large \in BOOLEAN  BY <1>6
<1> QED
  <2> HIDE DEF in, singly
  <2> QED BY <1>7, <1>8, <1>9, <1>3, <1>10 DEF in

LEMMA InodeFound ==
    ASSUME FileSystemAssumption, LaidOut, NEW i \in 1..Len(files)
    PROVE  /\ InRange(i) /\ inode_iget(i).size = files[i].size
           /\ inode_iget(i).alloc = files[i].alloc
<1>1. image \in DOMAIN Images  BY DEF LaidOut
<1>2. Len(files) \in Nat /\ s_isize * InodesPerSector = Len(files)  BY <1>1, Files
<1>3. InRange(i)  BY <1>2 DEF InRange
<1>4. inode_iget(i) = Inode(i)  BY InodeStored
<1> QED BY <1>3, <1>4 DEF Inode

\* A block is read with the bytes of it that belong to the file.
LEMMA BlockRead ==
    ASSUME FileSystemAssumption, LaidOut, NEW i \in 1..Len(files),
           NEW b \in 0..Blocks(files[i].size)-1
    PROVE  file_getblock(i, b) = Chksum(i)[b] /\ file_getblock(i, b).bytes \in Nat
<1> DEFINE size == files[i].size
           sector == inode_indexlookup(Inode(i), b)
           blocks == size \div SectorSize + IF size % SectorSize = 0 THEN 0 ELSE 1
           bytes == IF b * SectorSize + SectorSize <= size THEN SectorSize
                    ELSE size - b * SectorSize
<1>1. image \in DOMAIN Images  BY DEF LaidOut
<1>2. size \in Nat  BY <1>1, Files
<1>3. SectorSize \in Nat \ {0}  BY Sizes
<1>4. b \in Nat /\ b < Blocks(size) /\ Blocks(size) \in Nat
  <2>1. Blocks(size) \in Nat  BY <1>1, FileBlocks
  <2> HIDE DEF size
  <2> QED BY <2>1 DEF size
<1>5. sector = Data(i, b) /\ Data(i, b) \in Nat /\ diskimg_readsector(Data(i, b)) = files[i].content[b]
  <2>1. b < Blocks(files[i].size)  BY <1>4
  <2> QED BY <2>1, <1>4, BlockFound, DataStored
<1>6. sector # Failed
  <2> HIDE DEF sector
  <2> QED BY <1>5 DEF Failed
<1>7. blocks = Blocks(size)  BY <1>2, <1>3, BlockBytes DEF Blocks
<1>8. bytes = IF b = blocks - 1 /\ size % SectorSize # 0 THEN size % SectorSize ELSE SectorSize
  <2>1. b < (size + SectorSize - 1) \div SectorSize  BY <1>4 DEF Blocks
  <2>2. blocks = (size + SectorSize - 1) \div SectorSize  BY <1>7 DEF Blocks
  <2> HIDE DEF size, blocks
  <2> QED BY <2>1, <2>2, <1>2, <1>3, <1>4, LastBlock
<1>9. bytes \in Nat
  <2>1. b * SectorSize < size  BY <1>2, <1>3, <1>4, BlockBytes DEF Blocks
  <2>2. b * SectorSize \in Nat  BY <1>3, <1>4
  <2> HIDE DEF size
  <2> QED BY <2>1, <2>2, <1>2, <1>3
<1>10. file_getblock(i, b) = [bytes |-> bytes, data |-> files[i].content[b]]
  <2>1. inode_iget(i) = Inode(i) /\ InRange(i) /\ Inode(i).size = size
    BY InodeStored, InodeFound DEF Inode
  <2>2. ~ (b >= blocks)
    <3> HIDE DEF blocks, size
    <3> QED BY <1>4, <1>7
  <2>3. file_getblock(i, b) =
          [bytes |-> IF b = blocks - 1 /\ size % SectorSize # 0 THEN size % SectorSize ELSE SectorSize,
           data |-> diskimg_readsector(sector)]
    <3> HIDE DEF size
    <3> QED BY <2>1, <2>2, <1>6 DEF file_getblock
  <2> HIDE DEF bytes, blocks, size, sector
  <2> QED BY <2>3, <1>5, <1>8
<1>11. Chksum(i)[b] = [bytes |-> bytes, data |-> files[i].content[b]]  BY DEF Chksum
<1> HIDE DEF bytes
<1>12. file_getblock(i, b).bytes = bytes  BY <1>10
<1> QED BY <1>9, <1>10, <1>11, <1>12

\* The checksum of an inode in use is that of the bytes of its file.
LEMMA ChecksumRead ==
    ASSUME FileSystemAssumption, LaidOut, NEW i \in 1..Len(files), files[i].alloc
    PROVE  chksumfile_byinumber(i) = Chksum(i) /\ Chksum(i) # <<Failed>>
<1> DEFINE n == Blocks(files[i].size)
           blocks == 0..Blocks(inode_iget(i).size)-1
<1>1. n \in Nat  BY FileBlocks DEF LaidOut
<1>2. InRange(i) /\ inode_iget(i).alloc /\ blocks = 0..n-1  BY InodeFound
<1> HIDE DEF n, blocks
<1>3. \A b \in blocks : file_getblock(i, b) = Chksum(i)[b] /\ file_getblock(i, b).bytes \in Nat
  BY <1>2, BlockRead DEF n
<1>4. \A b \in blocks : ~ (file_getblock(i, b).bytes < 0)
  <2> SUFFICES ASSUME NEW b \in blocks, file_getblock(i, b).bytes < 0 PROVE FALSE
    OBVIOUS
  <2> DEFINE x == file_getblock(i, b).bytes
  <2>1. x \in Nat /\ x < 0  BY <1>3
  <2> QED BY <2>1
<1>5. chksumfile_byinumber(i) = [b \in blocks |-> file_getblock(i, b)]
  BY <1>2, <1>4 DEF chksumfile_byinumber, blocks
<1>6. Chksum(i) = [b \in blocks |-> Chksum(i)[b]]  BY <1>2 DEF Chksum, n
<1>7. chksumfile_byinumber(i) = Chksum(i)  BY <1>3, <1>5, <1>6
<1>8. Chksum(i) # <<Failed>>
  <2> SUFFICES ASSUME Chksum(i) = <<Failed>> PROVE FALSE  OBVIOUS
  <2>1. DOMAIN Chksum(i) = 0..n-1  BY DEF Chksum, n
  <2>2. DOMAIN <<Failed>> = 1..1  OBVIOUS
  <2>3. 1 \in 0..n-1 /\ 0 \notin 0..n-1
    <3>1. 0..n-1 = 1..1  BY <2>1, <2>2
    <3>2. 1 \in 1..1 /\ 0 \notin 1..1  OBVIOUS
    <3> QED BY <3>1, <3>2
  <2> QED BY <2>3, <1>1
<1> QED BY <1>7, <1>8

-----------------------------------------------------------------------------
(* The loop of DumpInodeChecksum().                                        *)

\* The line that tells the truth about inode i.
TrueLine(i) == [path |-> <<>>, inumber |-> i, size |-> files[i].size, chksum |-> Chksum(i)]
TrueLines == {TrueLine(i) : i \in 1..Len(files)}

\* The lines are those of the inodes in use that the loop has passed.
DumpInv ==
    /\ LaidOut
    /\ inumber \in Nat \ {0} /\ (inumber = 1 \/ inumber <= Len(files))
    /\ phase \in {"start", "failed", "inodes", "paths", "done"}
    /\ phase \in {"paths", "done"} /\ "i" \in flags => inumber >= Len(files)
    /\ inodeLines \in Seq(TrueLines)
    /\ \A k, l \in DOMAIN inodeLines : k < l => inodeLines[k].inumber < inodeLines[l].inumber
    /\ {inodeLines[k].inumber : k \in DOMAIN inodeLines} = {i \in 1..inumber-1 : files[i].alloc}

LEMMA LayoutStays ==
    ASSUME LaidOut, UNCHANGED <<image, disk>>
    PROVE  LaidOut' /\ files' = files /\ TrueLines' = TrueLines
<1>1. files' = files  BY DEF files
<1>2. \A i : Chksum(i)' = Chksum(i)  BY <1>1 DEF Chksum
<1>3. TrueLines' = TrueLines  BY <1>1, <1>2 DEF TrueLines, TrueLine
<1>4. s_isize' = s_isize  BY <1>1 DEF s_isize
<1>5. \A i, k : Spot(i, k)' = Spot(i, k)  BY <1>4 DEF Spot
<1>6. \A i, b : Data(i, b)' = Data(i, b) /\ Table(i, b)' = Table(i, b)
  BY <1>1, <1>5 DEF Data, Table
<1>7. \A i : Double(i)' = Double(i)  BY <1>1, <1>5 DEF Double
<1>8. \A i : Inode(i)' = Inode(i)  BY <1>1, <1>6, <1>7 DEF Inode
<1>9. \A s : Sector(s)' = Sector(s)  BY <1>1, <1>4, <1>5, <1>6, <1>8 DEF Sector
<1>10. LaidOut'  BY <1>1, <1>4, <1>9 DEF LaidOut
<1> QED BY <1>1, <1>3, <1>10

LEMMA InitDump == ASSUME FileSystemAssumption, Init PROVE DumpInv
<1>1. LaidOut  BY DEF Init, LaidOut
<1>2. inodeLines = <<>> /\ inumber = 1 /\ phase = "start"  BY DEF Init
<1>3. inodeLines \in Seq(TrueLines) /\ DOMAIN inodeLines = {}  BY <1>2
<1>4. {i \in 1..inumber-1 : files[i].alloc} = {}  BY <1>2
<1> QED BY <1>1, <1>2, <1>3, <1>4 DEF DumpInv

\* One inode: its line is printed if it is in use, and tells the truth.
LEMMA DumpInodeStep ==
    ASSUME FileSystemAssumption, DumpInv, DumpInode
    PROVE  DumpInv'
<1> USE FileSystemAssumption
<1> DEFINE here == files[inumber].alloc
           line == TrueLine(inumber)
<1>1. LaidOut /\ image \in DOMAIN Images  BY DEF DumpInv, LaidOut
<1>2. Len(files) \in Nat /\ s_isize * InodesPerSector = Len(files)  BY <1>1, Files
<1>3. inumber \in 1..Len(files) /\ inumber < Len(files)
  BY <1>2 DEF DumpInv, DumpInode
<1>4. UNCHANGED <<image, disk, phase, flags>> /\ phase = "inodes" /\ inumber' = inumber + 1
  BY DEF DumpInode
<1>5. LaidOut' /\ files' = files /\ TrueLines' = TrueLines  BY <1>1, <1>4, LayoutStays
<1>6. inodeLines' = IF here THEN Append(inodeLines, line) ELSE inodeLines
  <2>1. inode_iget(inumber).alloc = here /\ inode_iget(inumber).size = files[inumber].size
    BY <1>1, <1>3, InodeFound
  <2>2. CASE here
    <3>1. chksumfile_byinumber(inumber) = Chksum(inumber) /\ Chksum(inumber) # <<Failed>>
      BY <1>1, <1>3, <2>2, ChecksumRead
    <3>2. Line(<<>>, inumber, Chksum(inumber)) = line  BY <2>1 DEF Line, TrueLine
    <3> HIDE DEF here, line
    <3> QED BY <2>1, <2>2, <3>1, <3>2 DEF DumpInode
  <2>3. CASE ~ here  BY <2>1, <2>3 DEF DumpInode
  <2> QED BY <2>2, <2>3
<1>7. \A i \in 1..inumber : i = inumber \/ i \in 1..inumber-1  BY <1>3
<1>8. CASE ~ here
  <2>1. {i \in 1..inumber'-1 : files[i].alloc} = {i \in 1..inumber-1 : files[i].alloc}
    BY <1>3, <1>4, <1>7, <1>8
  <2>2. inodeLines' = inodeLines  BY <1>6, <1>8
  <2> QED BY <1>2, <1>3, <1>4, <1>5, <2>1, <2>2 DEF DumpInv
<1>9. CASE here
  <2> DEFINE n == Len(inodeLines)
  <2>1. inodeLines \in Seq(TrueLines) /\ n \in Nat /\ DOMAIN inodeLines = 1..n  BY DEF DumpInv
  <2>2. inodeLines' = Append(inodeLines, line)  BY <1>6, <1>9
  <2>3. line \in TrueLines /\ line.inumber = inumber  BY <1>3 DEF TrueLines, TrueLine
  <2> HIDE DEF line, here
  <2>4. /\ inodeLines' \in Seq(TrueLines) /\ DOMAIN inodeLines' = 1..n+1
        /\ inodeLines'[n + 1] = line /\ \A k \in 1..n : inodeLines'[k] = inodeLines[k]
    BY <2>1, <2>2, <2>3
  <2> HIDE DEF n
  <2>5. \A k \in 1..n : inodeLines[k].inumber \in 1..inumber-1
    BY <2>1 DEF DumpInv
  <2>6. \A k, l \in 1..n+1 : k < l => inodeLines'[k].inumber < inodeLines'[l].inumber
    <3> SUFFICES ASSUME NEW k \in 1..n+1, NEW l \in 1..n+1, k < l
                 PROVE  inodeLines'[k].inumber < inodeLines'[l].inumber
      OBVIOUS
    <3>1. k \in 1..n  BY <2>1
    <3>2. CASE l = n + 1  BY <3>1, <3>2, <2>3, <2>4, <2>5, <1>3
    <3>3. CASE l \in 1..n  BY <3>1, <3>3, <2>1, <2>4 DEF DumpInv
    <3> QED BY <3>2, <3>3, <2>1
  <2>7. {inodeLines'[k].inumber : k \in 1..n+1} = {i \in 1..inumber'-1 : files[i].alloc}
    <3>1. {inodeLines'[k].inumber : k \in 1..n+1} =
          {inodeLines[k].inumber : k \in 1..n} \union {inumber}
      <4>1. 1..n+1 = (1..n) \union {n + 1}  BY <2>1
      <4> QED BY <4>1, <2>3, <2>4
    <3>2. {inodeLines[k].inumber : k \in 1..n} = {i \in 1..inumber-1 : files[i].alloc}
      BY <2>1 DEF DumpInv
    <3>3. {i \in 1..inumber'-1 : files[i].alloc} =
          {i \in 1..inumber-1 : files[i].alloc} \union {inumber}
      <4>1. inumber'-1 = inumber  BY <1>3, <1>4
      <4>2. 1..inumber = (1..inumber-1) \union {inumber}  BY <1>3
      <4> QED BY <4>1, <4>2, <1>9 DEF here
    <3> QED BY <3>1, <3>2, <3>3
  <2> QED BY <1>2, <1>3, <1>4, <1>5, <2>4, <2>6, <2>7 DEF DumpInv
<1> QED BY <1>8, <1>9

\* The other steps leave the lines alone, and pass on only after the last inode.
LEMMA OtherSteps ==
    ASSUME FileSystemAssumption, DumpInv,
           Start \/ DumpPaths \/ Skip \/ DumpPathAndChildren \/ Exit \/ UNCHANGED vars
    PROVE  DumpInv'
<1> USE FileSystemAssumption
<1>1. LaidOut /\ image \in DOMAIN Images  BY DEF DumpInv, LaidOut
<1>2. Len(files) \in Nat /\ s_isize * InodesPerSector = Len(files)  BY <1>1, Files
<1>3. UNCHANGED <<image, disk, inumber, inodeLines>>
  BY DEF Start, DumpPaths, Skip, DumpPathAndChildren, Exit, vars
<1>4. LaidOut' /\ files' = files /\ TrueLines' = TrueLines  BY <1>1, <1>3, LayoutStays
<1>5. /\ phase' \in {"start", "failed", "inodes", "paths", "done"}
      /\ phase' \in {"paths", "done"} /\ "i" \in flags' => inumber >= Len(files)
  <2>1. CASE Start  BY <2>1 DEF Start
  <2>2. CASE DumpPaths  BY <2>2, <1>2 DEF DumpPaths
  <2>3. CASE DumpPathAndChildren  BY <2>3 DEF DumpPathAndChildren, DumpInv
  <2>4. CASE Exit  BY <2>4 DEF Exit, DumpInv
  <2>5. CASE UNCHANGED vars  BY <2>5 DEF vars, DumpInv
  <2>6. CASE Skip  BY <2>6 DEF Skip, DumpInv
  <2> QED BY <2>1, <2>2, <2>3, <2>4, <2>5, <2>6
<1> QED BY <1>3, <1>4, <1>5 DEF DumpInv

LEMMA DumpEnds ==
    ASSUME FileSystemAssumption, DumpInv
    PROVE  InodesDumped
<1>1. LaidOut /\ image \in DOMAIN Images  BY DEF DumpInv, LaidOut
<1>2. Len(files) \in Nat  BY <1>1, Files
<1>3. ASSUME NEW k \in DOMAIN inodeLines
      PROVE  True_(inodeLines[k])
  <2>1. inodeLines[k] \in TrueLines  BY DEF DumpInv
  <2>2. PICK i \in 1..Len(files) : inodeLines[k] = TrueLine(i)  BY <2>1 DEF TrueLines
  <2> QED BY <2>2 DEF TrueLine, True_
<1>4. ASSUME phase = "done", "i" \in flags
      PROVE  {inodeLines[k].inumber : k \in DOMAIN inodeLines} = {i \in 1..Len(files)-1 : files[i].alloc}
  <2>1. inumber = Len(files) \/ (inumber = 1 /\ Len(files) = 0)
    BY <1>2, <1>4 DEF DumpInv
  <2>2. 1..inumber-1 = 1..Len(files)-1  BY <2>1, <1>2
  <2> QED BY <2>2 DEF DumpInv
<1> QED BY <1>3, <1>4 DEF InodesDumped, DumpInv

\* On any disk, diskimageaccess -i prints the inodes in use in their order, all but
\* the last one of the disk, each with its size and the bytes its file was laid out
\* with, through direct, singly and doubly indirect addresses (DumpInodeChecksum,
\* inode_iget, inode_indexlookup, file_getblock).
THEOREM InodesCorrect == ASSUME FileSystemAssumption PROVE Spec => []InodesDumped
<1> USE FileSystemAssumption
<1>1. Init => DumpInv  BY InitDump
<1>2. DumpInv /\ [Next]_vars => DumpInv'
  BY DumpInodeStep, OtherSteps DEF Next
<1>3. DumpInv => InodesDumped  BY DumpEnds
<1> QED BY <1>1, <1>2, <1>3, PTL DEF Spec

-----------------------------------------------------------------------------
(* The paths.  What is due or was printed is a path of the tree, and no two*)
(* of them have the same names, because a directory has a name once.       *)

LEMMA EntryBlocks ==
    ASSUME FileSystemAssumption, NEW size \in Nat, NEW e \in 0..(size \div EntrySize)-1
    PROVE  e \div EntriesPerBlock \in 0..Blocks(size)-1
<1> DEFINE b == e \div EntriesPerBlock
           count == size \div EntrySize
<1>1. EntrySize \in Nat \ {0} /\ SectorSize \in Nat \ {0} /\ SectorSize % EntrySize = 0
  BY DEF FileSystemAssumption
<1>2. EntriesPerBlock \in Nat \ {0} /\ SectorSize = EntrySize * EntriesPerBlock
  <2>1. EntriesPerBlock \in Nat /\ SectorSize = EntrySize * EntriesPerBlock + (SectorSize % EntrySize)
    BY <1>1, Division DEF EntriesPerBlock
  <2>2. EntrySize * EntriesPerBlock \in Nat  BY <1>1, <2>1
  <2>3. SectorSize = EntrySize * EntriesPerBlock  BY <1>1, <2>1, <2>2
  <2>4. EntriesPerBlock # 0
    <3> SUFFICES ASSUME EntriesPerBlock = 0 PROVE FALSE  OBVIOUS
    <3>1. EntrySize * 0 = 0  BY <1>1
    <3> QED BY <3>1, <2>3, <1>1
  <2> QED BY <2>1, <2>3, <2>4
<1>3. count \in Nat /\ (size % EntrySize) \in Nat /\ size = EntrySize * count + (size % EntrySize)
  <2>1. /\ count \in Nat /\ size % EntrySize \in 0..EntrySize-1
        /\ size = EntrySize * count + (size % EntrySize)
    BY <1>1, Division
  <2> QED BY <2>1, <1>1
<1> HIDE DEF count
<1>4. e \in Nat /\ e < count  BY <1>3 DEF count
<1>5. b \in Nat /\ EntriesPerBlock * b \in Nat /\ EntriesPerBlock * b <= e
  <2>1. /\ b \in Nat /\ e % EntriesPerBlock \in 0..EntriesPerBlock-1
        /\ e = EntriesPerBlock * b + (e % EntriesPerBlock)
    BY <1>2, <1>4, Division
  <2>2. \A x, y \in Nat : x * y \in Nat  OBVIOUS
  <2> QED BY <1>2, <1>4, <2>1, <2>2
<1> HIDE DEF b
<1>6. b * SectorSize < size
  <2> DEFINE p == EntriesPerBlock * b
  <2>1. \A x, y, z \in Nat : z * (x * y) = x * (y * z)  OBVIOUS
  <2>2. b * SectorSize = EntrySize * p  BY <1>1, <1>2, <1>5, <2>1
  <2> HIDE DEF p
  <2>3. p \in Nat /\ p < count  BY <1>3, <1>4, <1>5 DEF p
  <2>4. EntrySize * p \in Nat /\ EntrySize * count \in Nat /\ EntrySize * p + EntrySize <= EntrySize * count
    BY <1>1, <1>3, <2>3, Product
  <2> QED BY <1>1, <1>3, <2>2, <2>4
<1>7. b < Blocks(size) /\ Blocks(size) \in Nat  BY <1>1, <1>5, <1>6, BlockBytes DEF Blocks
<1> QED BY <1>5, <1>7 DEF b

\* GetDirEntries() returns the first entries of the directory.
LEMMA EntriesRead ==
    ASSUME FileSystemAssumption, LaidOut, NEW i \in 1..Len(files)
    PROVE  /\ Len(GetDirEntries(i)) \in Nat
           /\ \A k \in 1..Len(GetDirEntries(i)) :
                /\ k - 1 \in Places(files[i])
                /\ GetDirEntries(i)[k] = Entry(files[i], k - 1)
<1> DEFINE size == files[i].size
           count == size \div EntrySize
           m == IF count < MaxEntries THEN count ELSE MaxEntries
           entry(k) == file_getblock(i, (k - 1) \div EntriesPerBlock).data[1 + ((k - 1) % EntriesPerBlock)]
<1>1. size \in Nat  BY Files DEF LaidOut
<1>2. EntrySize \in Nat \ {0} /\ MaxEntries \in Nat \ {0}  BY DEF FileSystemAssumption
<1>3. count \in Nat  BY <1>1, <1>2, Division
<1>4. GetDirEntries(i) = [k \in 1..m |-> entry(k)]  BY InodeFound DEF GetDirEntries
<1> HIDE DEF count
<1>5. m \in Nat /\ m <= count  BY <1>2, <1>3
<1> HIDE DEF m, entry
<1>6. Len(GetDirEntries(i)) = m  BY <1>4, <1>5
<1>7. ASSUME NEW k \in 1..m
      PROVE  k - 1 \in Places(files[i]) /\ GetDirEntries(i)[k] = Entry(files[i], k - 1)
  <2>1. k - 1 \in 0..count-1  BY <1>3, <1>5
  <2>2. (k - 1) \div EntriesPerBlock \in 0..Blocks(size)-1
    BY <1>1, <2>1, EntryBlocks DEF count
  <2>3. file_getblock(i, (k - 1) \div EntriesPerBlock) = Chksum(i)[(k - 1) \div EntriesPerBlock]
    BY <2>2, BlockRead
  <2>4. Chksum(i)[(k - 1) \div EntriesPerBlock].data = files[i].content[(k - 1) \div EntriesPerBlock]
    BY <2>2 DEF Chksum
  <2>5. GetDirEntries(i)[k] = entry(k)  BY <1>4
  <2> QED BY <2>1, <2>3, <2>4, <2>5 DEF entry, Entry, Places, count
<1> QED BY <1>5, <1>6, <1>7

PathParts == [name : {Entry(files[i], k).name : i \in 1..Len(files), k \in Nat}, tail : Nat \union {Slash}]
Calls == [path : Seq(PathParts), inumber : Nat]

\* The calls for the entries of a directory extend its path by their names.
LEMMA ChildrenRead ==
    ASSUME FileSystemAssumption, LaidOut, NEW call \in Calls, call.inumber \in 1..Len(files),
           files[call.inumber].dir, NEW stale \in {0, 1, Slash}
    PROVE  /\ Children(call, stale) \in Seq(Calls)
           /\ \A k \in DOMAIN Children(call, stale) :
                LET kid == Children(call, stale)[k]
                    entry == Entry(files[call.inumber], k - 1)
                IN  /\ k - 1 \in Places(files[call.inumber]) /\ kid.inumber = entry.inumber
                    /\ \E part \in PathParts : part.name = entry.name /\ kid.path = Append(call.path, part)
<1> DEFINE i == call.inumber
           f == files[i]
           entries == GetDirEntries(i)
           n == Len(entries)
           kid(k) == [path |-> Append(call.path, Part(entries, k, stale)), inumber |-> entries[k].inumber]
<1>1. n \in Nat /\ \A k \in 1..n : k - 1 \in Places(f) /\ entries[k] = Entry(f, k - 1)
  BY EntriesRead
<1>2. \A e \in Places(f) : Entry(f, e).inumber \in Nat /\ e \in Nat
  <2>1. DirectoryAssumption(f)
    <3>1. i \in DOMAIN files /\ image \in DOMAIN Images  BY Files DEF LaidOut
    <3> QED BY <3>1 DEF FileSystemAssumption, files
  <2>2. f.size \in Nat /\ EntrySize \in Nat \ {0}  BY Files DEF LaidOut, FileSystemAssumption
  <2>3. f.size \div EntrySize \in Nat  BY <2>2, Division
  <2> HIDE DEF f
  <2> QED BY <2>1, <2>3 DEF DirectoryAssumption, Places
<1>3. Children(call, stale) = [k \in 1..n |-> kid(k)]  BY DEF Children
<1> HIDE DEF n, entries
<1>4. ASSUME NEW k \in 1..n
      PROVE  Part(entries, k, stale) \in PathParts /\ Part(entries, k, stale).name = Entry(f, k - 1).name
  <2>1. entries[k].name = Entry(f, k - 1).name /\ k - 1 \in Nat  BY <1>1, <1>2
  <2>2. Part(entries, k, stale).tail \in Nat \union {Slash}
    <3>1. k < Len(entries) => entries[k + 1].inumber \in Nat
      <4> SUFFICES ASSUME k < n PROVE entries[k + 1].inumber \in Nat  BY DEF n
      <4>1. k + 1 \in 1..n  BY <1>1
      <4> QED BY <4>1, <1>1, <1>2
    <3> QED BY <3>1 DEF Part
  <2>3. Part(entries, k, stale) = [name |-> entries[k].name, tail |-> Part(entries, k, stale).tail]
    BY DEF Part
  <2>4. Entry(f, k - 1).name \in {Entry(files[j], e).name : j \in 1..Len(files), e \in Nat}
    BY <2>1
  <2> QED BY <2>1, <2>2, <2>3, <2>4 DEF PathParts
<1> HIDE DEF f
<1>5. ASSUME NEW k \in 1..n
      PROVE  /\ kid(k) \in Calls /\ k - 1 \in Places(f) /\ kid(k).inumber = Entry(f, k - 1).inumber
             /\ \E part \in PathParts : part.name = Entry(f, k - 1).name /\ kid(k).path = Append(call.path, part)
  <2>1. k - 1 \in Places(f) /\ entries[k] = Entry(f, k - 1) /\ entries[k].inumber \in Nat
    BY <1>1, <1>2
  <2>2. Append(call.path, Part(entries, k, stale)) \in Seq(PathParts)  BY <1>4 DEF Calls
  <2> QED BY <2>1, <2>2, <1>4 DEF Calls
<1> HIDE DEF kid
<1>6. DOMAIN Children(call, stale) = 1..n /\ \A k \in 1..n : Children(call, stale)[k] = kid(k)
  BY <1>3
<1>7. Children(call, stale) \in Seq(Calls)  BY <1>1, <1>3, <1>5
<1> QED BY <1>5, <1>6, <1>7 DEF f

\* Path q goes on from path p, or is p, by its names.
Under(p, q) == Len(p) <= Len(q) /\ \A k \in 1..Len(p) : p[k].name = q[k].name

LEMMA UnderTransitive ==
    ASSUME NEW S, NEW p \in Seq(S), NEW q \in Seq(S), NEW r \in Seq(S), Under(p, q), Under(q, r)
    PROVE  Under(p, r)
<1>1. Len(p) \in Nat /\ Len(q) \in Nat /\ Len(r) \in Nat  OBVIOUS
<1>2. Len(p) <= Len(r) /\ \A k \in 1..Len(p) : k \in 1..Len(q)  BY <1>1 DEF Under
<1> QED BY <1>2 DEF Under

\* A path one name longer: what it goes on from, and what goes on from it.
LEMMA UnderAppend ==
    ASSUME NEW S, NEW p \in Seq(S), NEW q \in Seq(S), NEW part \in S
    PROVE  /\ Under(p, Append(p, part)) /\ ~ Under(Append(p, part), p)
           /\ Under(q, Append(p, part)) => Under(q, p) \/ Under(Append(p, part), q)
           /\ \A other \in S : Under(Append(p, part), Append(p, other)) => part.name = other.name
           /\ Append(p, part) # <<>> /\ Append(p, part) \in Seq(S)
           /\ Front(Append(p, part)) = p /\ Last(Append(p, part)) = part
<1> DEFINE c == Append(p, part)
           n == Len(p)
<1>1. /\ n \in Nat /\ Len(q) \in Nat /\ c \in Seq(S) /\ Len(c) = n + 1
      /\ c[n + 1] = part /\ \A k \in 1..n : c[k] = p[k]
  OBVIOUS
<1>2. Under(p, c)  BY <1>1 DEF Under
<1>3. ~ Under(c, p)  BY <1>1 DEF Under
<1>4. ASSUME Under(q, c), ~ Under(q, p) PROVE Under(c, q)
  <2>1. Len(q) <= n + 1 /\ \A k \in 1..Len(q) : q[k].name = c[k].name  BY <1>1, <1>4 DEF Under
  <2>2. Len(q) = n + 1
    <3> SUFFICES ASSUME Len(q) <= n PROVE FALSE  BY <1>1, <2>1
    <3>1. \A k \in 1..Len(q) : k \in 1..n  BY <1>1
    <3> QED BY <3>1, <1>1, <1>4, <2>1 DEF Under
  <2> QED BY <1>1, <2>1, <2>2 DEF Under
<1>5. ASSUME NEW other \in S, Under(c, Append(p, other)) PROVE part.name = other.name
  <2>1. Append(p, other)[n + 1] = other  OBVIOUS
  <2>2. n + 1 \in 1..Len(c)  BY <1>1
  <2>3. c[n + 1].name = Append(p, other)[n + 1].name  BY <1>5, <2>2 DEF Under
  <2> QED BY <1>1, <2>1, <2>3
<1>6. c # <<>>  BY <1>1
<1>7. Last(c) = part  BY <1>1 DEF Last
<1>8. Front(c) = p
  <2>1. Len(c) - 1 = n  BY <1>1
  <2>2. Front(c) = SubSeq(c, 1, n)  BY <2>1 DEF Front
  <2>3. SubSeq(c, 1, n) = p  BY <1>1
  <2> QED BY <2>2, <2>3
<1> QED BY <1>1, <1>2, <1>3, <1>4, <1>5, <1>6, <1>7, <1>8

PathLine(p, i) == [path |-> p, inumber |-> i, size |-> files[i].size, chksum |-> Chksum(i)]
PathLinesOf(S) == {PathLine(p, i) : p \in Seq(S), i \in 1..Len(files)}

\* A call was made for the root, or for an entry of a directory that was printed.
Due(call) ==
    IF call.path = <<>> THEN call.inumber = RootInumber
    ELSE \E j \in DOMAIN pathLines :
           /\ pathLines[j].path = Front(call.path)
           /\ files[pathLines[j].inumber].dir
           /\ \E e \in Places(files[pathLines[j].inumber]) :
                LET entry == Entry(files[pathLines[j].inumber], e)
                IN  entry.name = Last(call.path).name /\ entry.inumber = call.inumber

\* A call for an entry that is not free.
Live(call) == call.inumber # 0

PathInv ==
    /\ LaidOut
    /\ phase \notin {"paths", "done"} => pathLines = <<>>
    /\ calls \in Seq(Calls) /\ pathLines \in Seq(PathLinesOf(PathParts))
    /\ \A k \in DOMAIN pathLines : Leads(k)
    /\ \A k \in DOMAIN calls : Due(calls[k])
    /\ \A j, k \in DOMAIN pathLines : j < k => Names(pathLines[j].path) # Names(pathLines[k].path)
    /\ \A k \in DOMAIN calls, j \in DOMAIN pathLines :
         Live(calls[k]) => ~ Under(calls[k].path, pathLines[j].path)
    /\ \A k, l \in DOMAIN calls :
         k # l /\ Live(calls[k]) /\ Live(calls[l]) => ~ Under(calls[k].path, calls[l].path)

\* What of it depends on the disk alone.
LEMMA PathSetsStay ==
    ASSUME LaidOut, UNCHANGED <<image, disk>>
    PROVE  /\ LaidOut' /\ files' = files /\ Calls' = Calls
           /\ PathLinesOf(PathParts)' = PathLinesOf(PathParts)
<1>1. LaidOut' /\ files' = files  BY LayoutStays
<1>2. \A i : Chksum(i)' = Chksum(i)  BY <1>1 DEF Chksum
<1>3. PathParts' = PathParts  BY <1>1 DEF PathParts, Entry
<1>4. PathLinesOf(PathParts)' = PathLinesOf(PathParts)
  BY <1>1, <1>2, <1>3 DEF PathLinesOf, PathLine
<1>5. Calls' = Calls  BY <1>3 DEF Calls
<1> QED BY <1>1, <1>4, <1>5

LEMMA InitPaths == ASSUME FileSystemAssumption, Init PROVE PathInv
<1>1. LaidOut  BY DEF Init, LaidOut
<1>2. calls = <<>> /\ pathLines = <<>>  BY DEF Init
<1>3. calls \in Seq(Calls) /\ pathLines \in Seq(PathLinesOf(PathParts))
      /\ DOMAIN calls = {} /\ DOMAIN pathLines = {}
  BY <1>2
<1> QED BY <1>1, <1>2, <1>3 DEF PathInv

\* Calls may go away.
LEMMA FewerCalls ==
    ASSUME FileSystemAssumption, PathInv, UNCHANGED <<image, disk, pathLines>>,
           phase' \notin {"paths", "done"} => phase \notin {"paths", "done"},
           calls' = calls \/ (calls # <<>> /\ calls' = Tail(calls))
    PROVE  PathInv'
<1>1. LaidOut' /\ files' = files /\ Calls' = Calls
      /\ PathLinesOf(PathParts)' = PathLinesOf(PathParts)
  BY PathSetsStay DEF PathInv
<1>2. calls \in Seq(Calls) /\ pathLines \in Seq(PathLinesOf(PathParts))  BY DEF PathInv
<1>3. /\ calls' \in Seq(Calls)
      /\ \E d \in {0, 1} : \A k \in DOMAIN calls' : k + d \in DOMAIN calls /\ calls'[k] = calls[k + d]
  <2>1. CASE calls' = calls
    <3>1. \A k \in DOMAIN calls' : k + 0 \in DOMAIN calls /\ calls'[k] = calls[k + 0]
      BY <1>2, <2>1
    <3> QED BY <1>2, <2>1, <3>1
  <2>2. CASE calls # <<>> /\ calls' = Tail(calls)
    <3>1. Len(calls) \in Nat \ {0} /\ Tail(calls) \in Seq(Calls) /\ Len(Tail(calls)) = Len(calls) - 1
      BY <1>2, <2>2
    <3>2. ASSUME NEW k \in DOMAIN calls' PROVE k + 1 \in DOMAIN calls /\ calls'[k] = calls[k + 1]
      <4>1. DOMAIN calls' = 1..Len(calls)-1 /\ DOMAIN calls = 1..Len(calls)
        <5>1. \A s \in Seq(Calls) : DOMAIN s = 1..Len(s)  OBVIOUS
        <5>2. DOMAIN calls' = DOMAIN Tail(calls)  BY <2>2
        <5> QED BY <5>1, <5>2, <1>2, <3>1
      <4>2. k \in 1..Len(calls)-1 /\ k + 1 \in 1..Len(calls)  BY <3>1, <3>2, <4>1
      <4>3. Tail(calls)[k] = calls[k + 1]  BY <1>2, <2>2, <4>2
      <4> QED BY <2>2, <4>1, <4>2, <4>3
    <3> QED BY <2>2, <3>1, <3>2
  <2> QED BY <2>1, <2>2
<1>4. PICK d \in {0, 1} : \A k \in DOMAIN calls' : k + d \in DOMAIN calls /\ calls'[k] = calls[k + d]
  BY <1>3
<1>5. \A k \in DOMAIN pathLines : Leads(k)' = Leads(k)  BY <1>1 DEF Leads
<1>6. \A call : Due(call)' = Due(call)  BY <1>1 DEF Due, Places, Entry
<1>7. \A k \in DOMAIN calls' : Due(calls'[k])  BY <1>4 DEF PathInv
<1>8. \A k \in DOMAIN calls' : Due(calls[k])'  BY <1>6, <1>7
<1>9. \A k, l \in DOMAIN calls' : k # l => k + d # l + d
  BY <1>3, <1>4
<1>10. /\ \A k \in DOMAIN calls', j \in DOMAIN pathLines :
            Live(calls'[k]) => ~ Under(calls'[k].path, pathLines[j].path)
       /\ \A k, l \in DOMAIN calls' :
            k # l /\ Live(calls'[k]) /\ Live(calls'[l]) => ~ Under(calls'[k].path, calls'[l].path)
  BY <1>4, <1>9 DEF PathInv
<1> QED BY <1>1, <1>2, <1>3, <1>5, <1>8, <1>10 DEF PathInv, Live, Under, Names

\* The first call, for the root.
LEMMA DumpPathsStep ==
    ASSUME FileSystemAssumption, PathInv, DumpPaths
    PROVE  PathInv'
<1> DEFINE root == [path |-> <<>>, inumber |-> RootInumber]
<1>1. LaidOut' /\ files' = files /\ Calls' = Calls
      /\ PathLinesOf(PathParts)' = PathLinesOf(PathParts)
  BY PathSetsStay DEF PathInv, DumpPaths
<1>2. pathLines = <<>> /\ pathLines' = <<>> /\ phase' = "paths"  BY DEF DumpPaths, PathInv
<1>3. calls' = <<root>> \/ calls' = <<>>  BY DEF DumpPaths
<1>4. root \in Calls  BY DEF Calls, RootInumber
<1>5. /\ calls' \in Seq(Calls) /\ pathLines' \in Seq(PathLinesOf(PathParts)) /\ DOMAIN pathLines' = {}
      /\ \A k \in DOMAIN calls' : k = 1 /\ calls'[k] = root
  <2>1. pathLines' \in Seq(PathLinesOf(PathParts)) /\ DOMAIN pathLines' = {}  BY <1>2
  <2> HIDE DEF root
  <2>2. CASE calls' = <<>>  BY <2>1, <2>2
  <2>3. CASE calls' = <<root>>
    <3>1. <<root>> \in Seq(Calls)  BY <1>4
    <3>2. DOMAIN <<root>> = {1} /\ <<root>>[1] = root  OBVIOUS
    <3> QED BY <2>1, <2>3, <3>1, <3>2
  <2> QED BY <1>3, <2>2, <2>3
<1>6. \A k \in DOMAIN calls' : Due(calls[k])'  BY <1>5 DEF Due
<1>7. \A k, l \in DOMAIN calls' : k = l  BY <1>5
<1> QED BY <1>1, <1>2, <1>5, <1>6, <1>7 DEF PathInv

\* One line: what DumpPathAndChildren() found is the truth about its inode.
LEMMA LinePrinted ==
    ASSUME FileSystemAssumption, LaidOut, NEW call \in Calls,
           InRange(call.inumber), chksumfile_byinumber(call.inumber) # <<Failed>>
    PROVE  /\ call.inumber \in 1..Len(files)
           /\ Line(call.path, call.inumber, chksumfile_byinumber(call.inumber)) =
                PathLine(call.path, call.inumber)
           /\ inode_iget(call.inumber).dir = files[call.inumber].dir
<1> DEFINE i == call.inumber
<1>1. image \in DOMAIN Images  BY DEF LaidOut
<1>2. Len(files) \in Nat /\ s_isize * InodesPerSector = Len(files)  BY <1>1, Files
<1>3. i \in 1..Len(files)
  <2>1. i \in Nat  BY DEF Calls
  <2>2. i # 0 /\ i - 1 < Len(files)  BY <1>2 DEF InRange
  <2> HIDE DEF i
  <2> QED BY <1>2, <2>1, <2>2
<1>4. inode_iget(i).alloc = files[i].alloc /\ inode_iget(i).size = files[i].size  BY <1>3, InodeFound
<1>5. inode_iget(i).alloc  BY DEF chksumfile_byinumber
<1>6. chksumfile_byinumber(i) = Chksum(i)  BY <1>3, <1>4, <1>5, ChecksumRead
<1>7. inode_iget(i).dir = files[i].dir  BY <1>3, InodeStored DEF Inode
<1> QED BY <1>3, <1>4, <1>6, <1>7 DEF Line, PathLine

LEMMA NamesUnder ==
    ASSUME NEW S, NEW p \in Seq(S), NEW q \in Seq(S), Names(p) = Names(q)
    PROVE  Under(p, q)
<1>1. DOMAIN p = 1..Len(p) /\ DOMAIN q = 1..Len(q) /\ Len(p) \in Nat /\ Len(q) \in Nat  OBVIOUS
<1>2. DOMAIN Names(p) = 1..Len(p) /\ DOMAIN Names(q) = 1..Len(q)  BY <1>1 DEF Names
<1>3. 1..Len(p) = 1..Len(q)  BY <1>2
<1>4. \A k \in 1..Len(p) : p[k].name = q[k].name  BY <1>1, <1>3 DEF Names
<1>5. Len(p) <= Len(q)
  <2> SUFFICES ASSUME Len(q) < Len(p) PROVE FALSE  BY <1>1
  <2>1. Len(p) \in 1..Len(p) /\ Len(p) \notin 1..Len(q)  BY <1>1
  <2> QED BY <2>1, <1>3
<1> QED BY <1>4, <1>5 DEF Under

LEMMA Concatenation ==
    ASSUME NEW S, NEW u \in Seq(S), NEW v \in Seq(S)
    PROVE  /\ u \o v \in Seq(S) /\ Len(u \o v) = Len(u) + Len(v)
           /\ \A k \in 1..Len(u) : (u \o v)[k] = u[k]
           /\ \A k \in Len(u)+1..Len(u)+Len(v) : (u \o v)[k] = v[k - Len(u)]
OBVIOUS

\* The line is added, and the calls for the entries take the place of the call.
LEMMA PrintStep ==
    ASSUME FileSystemAssumption, PathInv, calls # <<>>, NEW stale \in {0, 1, Slash},
           Head(calls).path # <<>> => Last(Head(calls).path).name \notin {".", ".."},
           UNCHANGED <<image, disk>>, phase' = "paths",
           InRange(Head(calls).inumber), chksumfile_byinumber(Head(calls).inumber) # <<Failed>>,
           pathLines' = Append(pathLines, Line(Head(calls).path, Head(calls).inumber,
                                               chksumfile_byinumber(Head(calls).inumber))),
           calls' = (IF inode_iget(Head(calls).inumber).dir THEN Children(Head(calls), stale) ELSE <<>>)
                    \o Tail(calls)
    PROVE  PathInv'
<1> USE FileSystemAssumption
<1> DEFINE call == Head(calls)
           i == call.inumber
           P == call.path
           line == PathLine(P, i)
           kids == IF files[i].dir THEN Children(call, stale) ELSE <<>>
           m == Len(kids)
<1>1. /\ LaidOut' /\ files' = files /\ Calls' = Calls
      /\ PathLinesOf(PathParts)' = PathLinesOf(PathParts)
  BY PathSetsStay DEF PathInv
<1>2. LaidOut /\ calls \in Seq(Calls) /\ pathLines \in Seq(PathLinesOf(PathParts))  BY DEF PathInv
<1>3. call \in Calls /\ call = calls[1] /\ 1 \in DOMAIN calls  BY <1>2
<1>4. i \in 1..Len(files) /\ P \in Seq(PathParts)
  BY <1>2, <1>3, LinePrinted DEF Calls
<1>5. pathLines' = Append(pathLines, line) /\ calls' = kids \o Tail(calls)
  <2>1. Line(P, i, chksumfile_byinumber(i)) = line /\ inode_iget(i).dir = files[i].dir
    BY <1>2, <1>3, LinePrinted
  <2> QED BY <2>1
<1>6. /\ kids \in Seq(Calls)
      /\ \A k \in DOMAIN kids :
           LET entry == Entry(files[i], k - 1)
           IN  /\ files[i].dir /\ k - 1 \in Places(files[i]) /\ kids[k].inumber = entry.inumber
               /\ \E part \in PathParts : part.name = entry.name /\ kids[k].path = Append(P, part)
  <2>1. CASE files[i].dir  BY <2>1, <1>2, <1>3, <1>4, ChildrenRead
  <2>2. CASE ~ files[i].dir  BY <2>2
  <2> QED BY <2>1, <2>2
<1>7. line \in PathLinesOf(PathParts) /\ line.path = P /\ line.inumber = i
  BY <1>4 DEF PathLinesOf, PathLine
<1> HIDE DEF line, kids, i, P, call
<1>8. PICK n \in Nat :
        /\ DOMAIN pathLines = 1..n
        /\ pathLines' \in Seq(PathLinesOf(PathParts)) /\ DOMAIN pathLines' = 1..n+1
        /\ pathLines'[n + 1] = line /\ \A k \in 1..n : pathLines'[k] = pathLines[k]
  <2>1. /\ Len(pathLines) \in Nat /\ DOMAIN pathLines = 1..Len(pathLines)
        /\ pathLines' \in Seq(PathLinesOf(PathParts)) /\ DOMAIN pathLines' = 1..Len(pathLines)+1
        /\ pathLines'[Len(pathLines) + 1] = line
        /\ \A k \in 1..Len(pathLines) : pathLines'[k] = pathLines[k]
    BY <1>2, <1>5, <1>7
  <2> QED BY <2>1
<1>9. \A k \in 1..n : pathLines[k].path \in Seq(PathParts)
  <2> SUFFICES ASSUME NEW k \in 1..n PROVE pathLines[k].path \in Seq(PathParts)  OBVIOUS
  <2>1. pathLines[k] \in PathLinesOf(PathParts)  BY <1>2, <1>8
  <2> QED BY <2>1 DEF PathLinesOf, PathLine
<1>10. /\ m \in Nat /\ DOMAIN kids = 1..m /\ calls' \in Seq(Calls)
       /\ \A k \in DOMAIN calls' :
            \/ k \in 1..m /\ calls'[k] = kids[k]
            \/ k \in Nat /\ k > m /\ k - m + 1 \in DOMAIN calls /\ calls'[k] = calls[k - m + 1]
  <2>1. m \in Nat /\ DOMAIN kids = 1..m  BY <1>6
  <2>2. /\ Len(calls) \in Nat \ {0} /\ DOMAIN calls = 1..Len(calls)
        /\ Tail(calls) \in Seq(Calls) /\ Len(Tail(calls)) = Len(calls) - 1
        /\ \A k \in 1..Len(calls)-1 : Tail(calls)[k] = calls[k + 1]
    BY <1>2
  <2> DEFINE t == Tail(calls)
             o == Len(t)
  <2>3. t \in Seq(Calls) /\ o \in Nat /\ o = Len(calls) - 1  BY <2>2
  <2> HIDE DEF m, t, o
  <2>4. /\ calls' \in Seq(Calls) /\ Len(calls') = m + o
        /\ \A k \in 1..m : calls'[k] = kids[k]
        /\ \A k \in m+1..m+o : calls'[k] = t[k - m]
    <3>1. calls' = kids \o t  BY <1>5 DEF t
    <3>2. /\ kids \o t \in Seq(Calls) /\ Len(kids \o t) = Len(kids) + Len(t)
          /\ \A k \in 1..Len(kids) : (kids \o t)[k] = kids[k]
          /\ \A k \in Len(kids)+1..Len(kids)+Len(t) : (kids \o t)[k] = t[k - Len(kids)]
      BY <1>6, <2>3, Concatenation
    <3> QED BY <3>1, <3>2 DEF m, o
  <2>5. DOMAIN calls' = 1..m+o  BY <2>4
  <2>6. ASSUME NEW k \in m+1..m+o
        PROVE  k \in Nat /\ k > m /\ k - m + 1 \in DOMAIN calls /\ calls'[k] = calls[k - m + 1]
    <3>1. k \in Nat /\ k > m /\ k - m \in 1..Len(calls)-1 /\ k - m + 1 \in 1..Len(calls)
      BY <2>1, <2>2, <2>3
    <3>2. t[k - m] = calls[(k - m) + 1]  BY <2>2, <3>1 DEF t
    <3> QED BY <2>2, <2>4, <3>1, <3>2
  <2>7. \A k \in 1..m+o : k \in 1..m \/ k \in m+1..m+o  BY <2>1, <2>3
  <2> QED BY <2>1, <2>4, <2>5, <2>6, <2>7 DEF m
<1> HIDE DEF m
<1>11. Due(call) /\ Live(call)  BY <1>3, <1>4 DEF PathInv, Live, i
<1>12. \A k \in DOMAIN calls : calls[k].path \in Seq(PathParts)
  <2>1. \A k \in DOMAIN calls : calls[k] \in Calls  BY <1>2
  <2>2. \A c \in Calls : c.path \in Seq(PathParts)  BY DEF Calls
  <2> QED BY <2>1, <2>2
\* The lines are paths of the tree, each of them once.
<1>13. \A k \in 1..n+1 : Leads(k)'
  <2>1. ASSUME NEW k \in 1..n PROVE Leads(k)'
    <3>1. Leads(k)  BY <1>8 DEF PathInv
    <3>2. pathLines'[k] = pathLines[k] /\ \A j \in 1..k-1 : pathLines'[j] = pathLines[j]
      BY <1>8
    <3>3. CASE pathLines[k].path = <<>>  BY <3>1, <3>2, <3>3 DEF Leads, RootInumber
    <3>4. CASE pathLines[k].path # <<>>
      <4>1. PICK j \in 1..k-1 :
              /\ pathLines[j].path = Front(pathLines[k].path)
              /\ files[pathLines[j].inumber].dir
              /\ \E l \in Listed(files[pathLines[j].inumber]) :
                   l[2].name = Last(pathLines[k].path).name /\ l[2].inumber = pathLines[k].inumber
        BY <3>1, <3>4 DEF Leads
      <4>2. /\ pathLines'[j].path = Front(pathLines'[k].path)
            /\ files'[pathLines'[j].inumber].dir
            /\ \E l \in Listed(files'[pathLines'[j].inumber]) :
                 l[2].name = Last(pathLines'[k].path).name /\ l[2].inumber = pathLines'[k].inumber
        BY <4>1, <3>2, <1>1
      <4> QED BY <3>2, <3>4, <4>2 DEF Leads
    <3> QED BY <3>3, <3>4
  <2>2. Leads(n + 1)'
    <3>1. CASE P = <<>>
      <4>1. i = RootInumber  BY <3>1, <1>11 DEF Due, P, i
      <4>2. pathLines'[n + 1].path = <<>> /\ pathLines'[n + 1].inumber = RootInumber
        BY <4>1, <3>1, <1>7, <1>8
      <4> QED BY <4>2 DEF Leads, RootInumber
    <3>2. CASE P # <<>>
      <4>1. PICK j \in 1..n :
              /\ pathLines[j].path = Front(P) /\ files[pathLines[j].inumber].dir
              /\ \E e \in Places(files[pathLines[j].inumber]) :
                   /\ Entry(files[pathLines[j].inumber], e).name = Last(P).name
                   /\ Entry(files[pathLines[j].inumber], e).inumber = i
        BY <1>8, <1>11, <3>2 DEF Due, P, i
      <4>2. PICK e \in Places(files[pathLines[j].inumber]) :
              /\ Entry(files[pathLines[j].inumber], e).name = Last(P).name
              /\ Entry(files[pathLines[j].inumber], e).inumber = i
        BY <4>1
      <4>3. <<e, Entry(files[pathLines[j].inumber], e)>> \in Listed(files[pathLines[j].inumber])
        <5>1. Last(P).name \notin {".", ".."}  BY <3>2 DEF P, call
        <5> QED BY <5>1, <4>2 DEF Listed
      <4>4. \E l \in Listed(files[pathLines[j].inumber]) : l[2].name = Last(P).name /\ l[2].inumber = i
        BY <4>2, <4>3
      <4>5. pathLines'[n + 1].path = P /\ pathLines'[n + 1].inumber = i  BY <1>7, <1>8
      <4>6. j \in 1..(n + 1) - 1 /\ pathLines'[j] = pathLines[j]  BY <1>8
      <4>7. /\ pathLines'[j].path = Front(P) /\ files'[pathLines'[j].inumber].dir
            /\ \E l \in Listed(files'[pathLines'[j].inumber]) : l[2].name = Last(P).name /\ l[2].inumber = i
        BY <4>1, <4>4, <4>6, <1>1
      <4> QED BY <3>2, <4>5, <4>6, <4>7 DEF Leads
    <3> QED BY <3>1, <3>2
  <2>3. \A k \in 1..n+1 : k \in 1..n \/ k = n + 1  BY <1>8
  <2> QED BY <2>1, <2>2, <2>3
<1>14. \A j, k \in 1..n+1 : j < k => Names(pathLines'[j].path) # Names(pathLines'[k].path)
  <2> SUFFICES ASSUME NEW j \in 1..n+1, NEW k \in 1..n+1, j < k
               PROVE  Names(pathLines'[j].path) # Names(pathLines'[k].path)
    OBVIOUS
  <2>1. j \in 1..n /\ pathLines'[j] = pathLines[j] /\ (k \in 1..n \/ k = n + 1)  BY <1>8
  <2>2. CASE k \in 1..n  BY <2>1, <2>2, <1>8 DEF PathInv
  <2>3. CASE k = n + 1
    <3>1. ~ Under(P, pathLines[j].path)  BY <1>3, <1>8, <1>11, <2>1 DEF PathInv, P
    <3>2. pathLines[j].path \in Seq(PathParts)  BY <1>9, <2>1
    <3>3. Names(P) # Names(pathLines[j].path)  BY <3>1, <3>2, <1>4, NamesUnder
    <3> QED BY <3>3, <2>1, <2>3, <1>7, <1>8
  <2> QED BY <2>1, <2>2, <2>3
\* What is due is an entry of a directory that was printed.
<1>15. \A k \in DOMAIN calls' : Due(calls[k])'
  <2> SUFFICES ASSUME NEW k \in DOMAIN calls' PROVE Due(calls[k])'  OBVIOUS
  <2>1. CASE k \in 1..m /\ calls'[k] = kids[k]
    <3>1. /\ files[i].dir /\ k - 1 \in Places(files[i])
          /\ kids[k].inumber = Entry(files[i], k - 1).inumber
          /\ \E part \in PathParts : part.name = Entry(files[i], k - 1).name /\ kids[k].path = Append(P, part)
      BY <1>6, <1>10, <2>1
    <3>2. PICK part \in PathParts : part.name = Entry(files[i], k - 1).name /\ kids[k].path = Append(P, part)
      BY <3>1
    <3>3. kids[k].path # <<>> /\ Front(kids[k].path) = P /\ Last(kids[k].path) = part
      BY <3>2, <1>4, UnderAppend
    <3>4. n + 1 \in DOMAIN pathLines' /\ pathLines'[n + 1].path = P /\ pathLines'[n + 1].inumber = i
      BY <1>7, <1>8
    <3>5. /\ pathLines'[n + 1].path = Front(calls'[k].path)
          /\ files'[pathLines'[n + 1].inumber].dir
          /\ \E e \in Places(files'[pathLines'[n + 1].inumber]) :
               /\ Entry(files'[pathLines'[n + 1].inumber], e).name = Last(calls'[k].path).name
               /\ Entry(files'[pathLines'[n + 1].inumber], e).inumber = calls'[k].inumber
      BY <3>1, <3>2, <3>3, <3>4, <2>1, <1>1
    <3> QED BY <2>1, <3>3, <3>4, <3>5 DEF Due
  <2>2. CASE k - m + 1 \in DOMAIN calls /\ calls'[k] = calls[k - m + 1]
    <3> DEFINE old == calls[k - m + 1]
    <3>1. Due(old) /\ calls'[k] = old  BY <2>2 DEF PathInv
    <3> HIDE DEF old
    <3>2. CASE calls'[k].path = <<>>  BY <3>1, <3>2 DEF Due, RootInumber
    <3>3. CASE calls'[k].path # <<>>
      <4>1. PICK j \in 1..n :
              /\ pathLines[j].path = Front(calls'[k].path)
              /\ files[pathLines[j].inumber].dir
              /\ \E e \in Places(files[pathLines[j].inumber]) :
                   /\ Entry(files[pathLines[j].inumber], e).name = Last(calls'[k].path).name
                   /\ Entry(files[pathLines[j].inumber], e).inumber = calls'[k].inumber
        <5>1. old.path # <<>> /\ DOMAIN pathLines = 1..n  BY <3>1, <3>3, <1>8
        <5>2. \E j \in 1..n :
                /\ pathLines[j].path = Front(old.path)
                /\ files[pathLines[j].inumber].dir
                /\ \E e \in Places(files[pathLines[j].inumber]) :
                     /\ Entry(files[pathLines[j].inumber], e).name = Last(old.path).name
                     /\ Entry(files[pathLines[j].inumber], e).inumber = old.inumber
          BY <3>1, <5>1 DEF Due
        <5> QED BY <5>2, <3>1
      <4>2. j \in DOMAIN pathLines' /\ pathLines'[j] = pathLines[j]  BY <1>8
      <4> QED BY <3>3, <4>1, <4>2, <1>1 DEF Due
    <3> QED BY <3>2, <3>3
  <2> QED BY <2>1, <2>2, <1>10
\* Calls and lines go on from each other only where they should.
<1>16. ASSUME NEW k \in DOMAIN calls', Live(calls'[k]), NEW j \in 1..n+1
       PROVE  ~ Under(calls'[k].path, pathLines'[j].path)
  <2>1. j = n + 1 => pathLines'[j].path = P  BY <1>7, <1>8
  <2>2. j # n + 1 => j \in 1..n /\ pathLines'[j] = pathLines[j] /\ pathLines[j].path \in Seq(PathParts)
                      /\ ~ Under(P, pathLines[j].path)
    <3> SUFFICES ASSUME j # n + 1
                 PROVE  j \in 1..n /\ pathLines'[j] = pathLines[j] /\ pathLines[j].path \in Seq(PathParts)
                        /\ ~ Under(P, pathLines[j].path)
      OBVIOUS
    <3>1. j \in 1..n  BY <1>8
    <3> QED BY <3>1, <1>3, <1>8, <1>9, <1>11 DEF PathInv, P
  <2>3. CASE k \in 1..m /\ calls'[k] = kids[k]
    <3>1. PICK part \in PathParts : kids[k].path = Append(P, part)  BY <1>6, <1>10, <2>3
    <3>2. Under(P, Append(P, part)) /\ ~ Under(Append(P, part), P) /\ Append(P, part) \in Seq(PathParts)
      BY <1>4, UnderAppend
    <3>3. CASE j = n + 1  BY <3>1, <3>2, <3>3, <2>1, <2>3
    <3>4. CASE j # n + 1
      <4>1. ~ Under(Append(P, part), pathLines[j].path)
        BY <3>2, <3>4, <2>2, <1>4, UnderTransitive
      <4> QED BY <4>1, <3>1, <3>4, <2>2, <2>3
    <3> QED BY <3>3, <3>4
  <2>4. CASE k \in Nat /\ k > m /\ k - m + 1 \in DOMAIN calls /\ calls'[k] = calls[k - m + 1]
    <3> DEFINE d == k - m + 1
    <3>1. d \in DOMAIN calls /\ d # 1 /\ calls'[k] = calls[d]  BY <2>4, <1>10
    <3> HIDE DEF d
    <3>2. CASE j = n + 1  BY <3>1, <3>2, <2>1, <1>3, <1>11, <1>16 DEF PathInv, P
    <3>3. CASE j # n + 1  BY <3>1, <3>3, <2>2, <1>8, <1>16 DEF PathInv
    <3> QED BY <3>2, <3>3
  <2> QED BY <2>3, <2>4, <1>10
<1>17. ASSUME NEW k \in DOMAIN calls', NEW l \in DOMAIN calls', k # l,
              Live(calls'[k]), Live(calls'[l])
       PROVE  ~ Under(calls'[k].path, calls'[l].path)
  <2>1. \A d \in DOMAIN calls : d # 1 /\ Live(calls[d]) =>
          /\ calls[d].path \in Seq(PathParts)
          /\ ~ Under(P, calls[d].path) /\ ~ Under(calls[d].path, P)
    BY <1>3, <1>11, <1>12 DEF PathInv, P
  <2>2. CASE k \in 1..m /\ calls'[k] = kids[k] /\ l \in 1..m /\ calls'[l] = kids[l]
    <3>1. PICK part \in PathParts : part.name = Entry(files[i], k - 1).name /\ kids[k].path = Append(P, part)
      BY <1>6, <1>10, <2>2
    <3>2. PICK other \in PathParts : other.name = Entry(files[i], l - 1).name /\ kids[l].path = Append(P, other)
      BY <1>6, <1>10, <2>2
    <3>3. /\ files[i].dir /\ k - 1 \in Places(files[i]) /\ l - 1 \in Places(files[i])
          /\ Entry(files[i], k - 1).inumber # 0 /\ Entry(files[i], l - 1).inumber # 0
      BY <1>6, <1>10, <1>17, <2>2 DEF Live
    <3>4. DirectoryAssumption(files[i])
      <4>1. i \in DOMAIN files /\ image \in DOMAIN Images  BY <1>2, <1>4, Files DEF LaidOut
      <4> QED BY <4>1, <3>3 DEF FileSystemAssumption, files
    <3>5. k - 1 # l - 1
      <4>1. k \in 1..m /\ l \in 1..m /\ k # l /\ m \in Nat  BY <1>17, <2>2, <1>10
      <4> QED BY ONLY <4>1
    <3>6. part.name # other.name  BY <3>1, <3>2, <3>3, <3>4, <3>5 DEF DirectoryAssumption
    <3>7. ~ Under(Append(P, part), Append(P, other))  BY <3>6, <1>4, UnderAppend
    <3> QED BY <3>1, <3>2, <3>7, <2>2
  <2>3. CASE /\ k \in 1..m /\ calls'[k] = kids[k]
             /\ l \in Nat /\ l > m /\ l - m + 1 \in DOMAIN calls /\ calls'[l] = calls[l - m + 1]
    <3> DEFINE d == l - m + 1
    <3>1. d \in DOMAIN calls /\ d # 1 /\ calls'[l] = calls[d]
      <4>1. m \in Nat /\ l \in Nat /\ l > m  BY <2>3, <1>10
      <4>2. d # 1  BY ONLY <4>1
      <4> QED BY <4>2, <2>3
    <3> HIDE DEF d
    <3>2. calls[d].path \in Seq(PathParts) /\ ~ Under(P, calls[d].path)  BY <3>1, <2>1, <1>17
    <3>3. PICK part \in PathParts : kids[k].path = Append(P, part)  BY <1>6, <1>10, <2>3
    <3>4. Under(P, Append(P, part)) /\ Append(P, part) \in Seq(PathParts)  BY <1>4, UnderAppend
    <3>5. ~ Under(Append(P, part), calls[d].path)  BY <3>2, <3>4, <1>4, UnderTransitive
    <3> QED BY <3>1, <3>3, <3>5, <2>3
  <2>4. CASE /\ l \in 1..m /\ calls'[l] = kids[l]
             /\ k \in Nat /\ k > m /\ k - m + 1 \in DOMAIN calls /\ calls'[k] = calls[k - m + 1]
    <3> DEFINE d == k - m + 1
    <3>1. d \in DOMAIN calls /\ d # 1 /\ calls'[k] = calls[d]
      <4>1. m \in Nat /\ k \in Nat /\ k > m  BY <2>4, <1>10
      <4>2. d # 1  BY ONLY <4>1
      <4> QED BY <4>2, <2>4
    <3> HIDE DEF d
    <3>2. /\ calls[d].path \in Seq(PathParts)
          /\ ~ Under(P, calls[d].path) /\ ~ Under(calls[d].path, P)
      BY <3>1, <2>1, <1>17
    <3>3. PICK part \in PathParts : kids[l].path = Append(P, part)  BY <1>6, <1>10, <2>4
    <3>4. Under(P, Append(P, part)) /\ Append(P, part) \in Seq(PathParts)  BY <1>4, UnderAppend
    <3>5. ~ Under(Append(P, part), calls[d].path)  BY <3>2, <3>4, <1>4, UnderTransitive
    <3>6. ~ Under(calls[d].path, Append(P, part))  BY <3>2, <3>5, <1>4, UnderAppend
    <3> QED BY <3>1, <3>3, <3>6, <2>4
  <2>5. CASE /\ k \in Nat /\ k > m /\ k - m + 1 \in DOMAIN calls /\ calls'[k] = calls[k - m + 1]
             /\ l \in Nat /\ l > m /\ l - m + 1 \in DOMAIN calls /\ calls'[l] = calls[l - m + 1]
    <3>1. m \in Nat /\ k \in Nat /\ l \in Nat /\ k # l  BY <2>5, <1>17, <1>10
    <3>2. k - m + 1 # l - m + 1  BY ONLY <3>1
    <3> QED BY <3>2, <2>5, <1>17 DEF PathInv
  <2> QED BY <2>2, <2>3, <2>4, <2>5, <1>10
<1>18. PathInv'
  <2>1. DOMAIN pathLines' = 1..n+1  BY <1>8
  <2>2. calls' \in Seq(Calls)' /\ pathLines' \in Seq(PathLinesOf(PathParts))'  BY <1>1, <1>8, <1>10
  <2>3. \A j, k \in DOMAIN pathLines' : j < k => (Names(pathLines[j].path) # Names(pathLines[k].path))'
    <3> SUFFICES ASSUME NEW j \in 1..n+1, NEW k \in 1..n+1, j < k
                 PROVE  (Names(pathLines[j].path) # Names(pathLines[k].path))'
      BY <2>1
    <3>1. Names(pathLines'[j].path) # Names(pathLines'[k].path)  BY <1>14
    <3> QED BY <3>1 DEF Names
  <2>4. \A k \in DOMAIN calls', j \in DOMAIN pathLines' :
          (Live(calls[k]) => ~ Under(calls[k].path, pathLines[j].path))'
    <3> SUFFICES ASSUME NEW k \in DOMAIN calls', NEW j \in 1..n+1, Live(calls[k])'
                 PROVE  (~ Under(calls[k].path, pathLines[j].path))'
      BY <2>1
    <3>1. ~ Under(calls'[k].path, pathLines'[j].path)  BY <1>16 DEF Live
    <3> QED BY <3>1 DEF Under
  <2>5. \A k, l \in DOMAIN calls' :
          (k # l /\ Live(calls[k]) /\ Live(calls[l]) => ~ Under(calls[k].path, calls[l].path))'
    BY <1>17 DEF Live, Under
  <2>6. \A k \in DOMAIN pathLines' : Leads(k)'  BY <2>1, <1>13
  <2> QED BY <2>2, <2>3, <2>4, <2>5, <2>6, <1>1, <1>15 DEF PathInv
<1> QED BY <1>18

LEMMA PathStep ==
    ASSUME FileSystemAssumption, PathInv, [Next]_vars
    PROVE  PathInv'
<1> USE FileSystemAssumption
<1>1. CASE Start \/ DumpInode \/ Skip \/ Exit \/ UNCHANGED vars
  <2>1. /\ UNCHANGED <<image, disk, pathLines>>
        /\ phase' \notin {"paths", "done"} => phase \notin {"paths", "done"}
        /\ calls' = calls \/ (calls # <<>> /\ calls' = Tail(calls))
    BY <1>1 DEF Start, DumpInode, Skip, Exit, vars
  <2> QED BY <2>1, FewerCalls
<1>2. CASE DumpPaths  BY <1>2, DumpPathsStep
<1>3. CASE DumpPathAndChildren
  <2> DEFINE i == Head(calls).inumber
             path == Head(calls).path
             chksum == chksumfile_byinumber(i)
  <2>1. /\ UNCHANGED <<image, disk, phase>> /\ phase = "paths" /\ calls # <<>>
        /\ path # <<>> => Last(path).name \notin {".", ".."}
    BY <1>3 DEF DumpPathAndChildren
  <2>2. CASE calls' = Tail(calls) /\ UNCHANGED pathLines  BY <2>1, <2>2, FewerCalls
  <2>3. CASE ~ (calls' = Tail(calls) /\ UNCHANGED pathLines)
    <3>1. \E stale \in {0, 1, Slash} :
            /\ InRange(i) /\ chksum # <<Failed>>
            /\ pathLines' = Append(pathLines, Line(path, i, chksum))
            /\ calls' = (IF inode_iget(i).dir THEN Children(Head(calls), stale) ELSE <<>>) \o Tail(calls)
      BY <1>3, <2>3 DEF DumpPathAndChildren
    <3>2. PICK stale \in {0, 1, Slash} :
            /\ InRange(i) /\ chksum # <<Failed>>
            /\ pathLines' = Append(pathLines, Line(path, i, chksum))
            /\ calls' = (IF inode_iget(i).dir THEN Children(Head(calls), stale) ELSE <<>>) \o Tail(calls)
      BY <3>1
    <3> QED BY <2>1, <3>2, PrintStep
  <2> QED BY <2>2, <2>3
<1> QED BY <1>1, <1>2, <1>3 DEF Next

LEMMA PathsRight ==
    ASSUME FileSystemAssumption, PathInv
    PROVE  PathsTrue
<1>1. pathLines \in Seq(PathLinesOf(PathParts))  BY DEF PathInv
<1>2. ASSUME NEW k \in DOMAIN pathLines PROVE True_(pathLines[k])
  <2>1. PICK p \in Seq(PathParts), i \in 1..Len(files) : pathLines[k] = PathLine(p, i)
    <3>1. pathLines[k] \in PathLinesOf(PathParts)  BY <1>1
    <3> QED BY <3>1 DEF PathLinesOf
  <2> QED BY <2>1 DEF PathLine, True_
<1>3. ASSUME NEW k \in DOMAIN pathLines, NEW j \in 1..k-1
      PROVE  Names(pathLines[j].path) # Names(pathLines[k].path)
  <2>1. DOMAIN pathLines = 1..Len(pathLines) /\ Len(pathLines) \in Nat  BY <1>1
  <2>2. j \in DOMAIN pathLines /\ j < k  BY <2>1
  <2> QED BY <2>2 DEF PathInv
<1> QED BY <1>2, <1>3 DEF PathsTrue, PathInv

\* On any disk, diskimageaccess -p prints paths of the tree only, each at most once,
\* with the size and the checksum of the inode its names lead to, wherever the lookup
\* of a name reads and whatever follows a long name in memory (DumpPathAndChildren,
\* GetDirEntries, chksumfile_byinumber, directory_findname).
THEOREM PathsCorrect == ASSUME FileSystemAssumption PROVE Spec => []PathsTrue
<1> USE FileSystemAssumption
<1>1. Init => PathInv  BY InitPaths
<1>2. PathInv /\ [Next]_vars => PathInv'  BY PathStep
<1>3. PathInv => PathsTrue  BY PathsRight
<1> QED BY <1>1, <1>2, <1>3, PTL DEF Spec
=============================================================================
