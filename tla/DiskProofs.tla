----------------------------- MODULE DiskProofs -----------------------------
(***************************************************************************)
(* Proofs about Disk for every image, width of the registers and guest.    *)
(*                                                                         *)
(* A handler works on the drive that is selected and puts its result back. *)
(* What a result has to be is the predicate Fine of a drive at its place;  *)
(* the lemma PutGood then covers the machine.  What a guest must do for a    *)
(* packet's reply to come in whole is the flag p: the handlers keep Fine   *)
(* with either value of it, the three that the flag depends on with the    *)
(* new one.                                                                *)
(***************************************************************************)
EXTENDS Disk, Rounds, TLAPS

MACHINE ==
    [ata : [Channel -> ATA_CHANNEL], bm : [Channel -> BMDMA],
     lines : SUBSET {14, 15}, exited : BOOLEAN]

\* A drive that asks for data is in a command that moves some and has room for
\* it; a multiple transfer has a number of sectors per block, and the buffer has
\* room for that number.
Several(c) ==
    /\ c.CurrentCommand \in Multiples => c.MultipleSectors > 0
    /\ c.MultipleSectors <= MAX_MULTIPLE_SECTORS
    /\ c.CurrentCommand \in Reads \cup Writes => c.BufferSize <= BufferTotalSize
Asks(c) ==
    /\ "DRQ" \in c.Status =>
           /\ c.CurrentCommand \in Transfers
           /\ c.CurrentCommand \in Reads \cup Writes => c.BufferIndex < c.BufferSize
    /\ Several(c)

\* The words of the identity that name a mode.
Words(ch) == IF ch = 0 THEN {"MDMA", "UDMA"} ELSE {"MDMA"}
Identity(ch, c) == c.IdentifySet => c.DriveId = {c.Mode} \cap Words(ch)

\* A drive that is asked for the reply of a packet has a chunk of it in hand,
\* and a limit for the next one.
Replies(c) ==
    "DRQ" \in c.Status /\ c.CurrentCommand = "ATAPI_PACKET" =>
        /\ c.SectorCount % 4 # 3
        /\ c.SectorCount % 4 = 2 => /\ c.DrqIndex < c.DrqBytes
                                    /\ c.DrqBytes <= c.TotalBytesRemaining
                                    /\ c.CylinderNumber > 0
Silent(c, ready) ==
    /\ c.CurrentCommand = NoCommand
    /\ "DRQ" \notin c.Status
    /\ "ERR" \in c.Status => ready

\* The commands of the other channel's drive.
Alien(ch) == IF ch = 0 THEN {"ATAPI_PACKET"} ELSE Reads \cup Writes

\* Only the disk counts sectors.
Fine(ch, d, c, ready, p) ==
    /\ c \in DRIVE
    /\ c.Reset = c.ResetInProgress
    /\ Asks(c)
    /\ p => Replies(c)
    /\ d = 0 => Identity(ch, c)
    /\ d = 1 => Silent(c, ready)
    /\ ch = 1 \/ d = 1 => c.NumberOfSectors = 0
    /\ c.CurrentCommand \notin Alien(ch)

\* Both drives see a reset, and a drive does not ask while the other one is
\* selected.
Pair(h, p) ==
    /\ h.Drive[0].Reset = h.Drive[1].Reset
    /\ p /\ h.DriveSelect = 1 => "DRQ" \notin h.Drive[0].Status
Good(m, p) ==
    /\ m \in MACHINE
    /\ \A ch \in Channel, d \in Drive :
           Fine(ch, d, m.ata[ch].Drive[d], m.bm[ch].DataReady, p)
    /\ \A ch \in Channel : Pair(m.ata[ch], p)

\* What is on record of a read: the disk is still in it, the registers are at
\* the sector that follows those counted, and it asks until all are handed over.
At(c, r) ==
    /\ c.Lba
    /\ c.NumberOfSectors <= r.count
    /\ r.first + (r.count - c.NumberOfSectors) < Capacity =>
           HardDiskCalculateLogicalAddress(c) = r.first + (r.count - c.NumberOfSectors)
Tracks(c, r) ==
    /\ r \in [first : 0..(Capacity - 1), count : Nat]
    /\ c.CurrentCommand \in Reads
    /\ c.CurrentCommand \notin Multiples => c.BufferSize = HARDDISK_SECTOR_SIZE
    /\ "DRQ" \notin c.Status => c.NumberOfSectors = 0
    /\ At(c, r)
Records(s, a, r) ==
    r # NoRequest => s.channel = 0 /\ a[0].DriveSelect = 0 /\ Tracks(a[0].Drive[0], r)
Recorded == Records(session, ata, request)

Inv ==
    /\ Good(Machine, proper)
    /\ session \in Sessions
    /\ proper \in BOOLEAN
    /\ Recorded

-----------------------------------------------------------------------------
(***************************************************************************)
(* Arithmetic of the registers.                                            *)
(***************************************************************************)

LEMMA DivMod ==
    ASSUME NEW x \in Int, NEW R \in Nat \ {0}
    PROVE  /\ x % R = x - R * (x \div R)
           /\ x % R \in 0..(R - 1)
           /\ x \div R \in Int
           /\ x \in Nat => x \div R \in Nat
<1>1. R \in Int /\ R > 0
  OBVIOUS
<1>2. x % R = x - R * (x \div R)
  BY <1>1, SMTT(30)
<1>3. x % R \in 0..(R - 1)
  OBVIOUS
<1>4. x \div R \in Int /\ (x \in Nat => x \div R \in Nat)
  OBVIOUS
<1>. QED BY <1>2, <1>3, <1>4

LEMMA ModIn ==
    ASSUME NEW x \in Int, NEW R \in Nat \ {0}
    PROVE  x % R \in 0..(R - 1)
OBVIOUS

LEMMA ProductGrows ==
    ASSUME NEW x \in Nat, NEW y \in Nat, NEW z \in Nat, x <= y
    PROVE  x * z <= y * z /\ x * z \in Nat
OBVIOUS

LEMMA DivBelow ==
    ASSUME NEW x \in Nat, NEW R \in Nat \ {0}, NEW k \in Nat, x < R * k
    PROVE  x \div R < k
<1>1. x % R = x - R * (x \div R) /\ x % R \in 0..(R - 1) /\ x \div R \in Nat
  <2>1. x \in Int
    OBVIOUS
  <2>. QED BY <2>1, DivMod, Zenon
<1>2. SUFFICES ASSUME k <= x \div R PROVE FALSE
  BY <1>1
<1>3. k * R <= (x \div R) * R
  BY <1>1, <1>2, ProductGrows
<1>. QED BY <1>1, <1>3

LEMMA ModSmall ==
    ASSUME NEW R \in Nat \ {0}, NEW x \in 0..(R - 1)
    PROVE  x % R = x
OBVIOUS

\* The sectors of a buffer that holds k of them.
LEMMA BlocksOf ==
    ASSUME NEW S \in Nat \ {0}, NEW k \in Nat
    PROVE  (S * k + S - 1) \div S = k
OBVIOUS

\* The two halves of the cylinder register.
LEMMA LowHalf ==
    ASSUME NEW R \in Nat \ {0}, NEW x \in 0..(R * R - 1), NEW v \in 0..(R - 1)
    PROVE  x - (x % R) + v \in 0..(R * R - 1)
<1>. DEFINE q == x \div R
<1>1. x % R = x - R * q /\ q \in Nat
  BY DivMod
<1>2. q < R
  BY DivBelow
<1>. HIDE DEF q
<1>3. q * R <= (R - 1) * R /\ q * R \in Nat
  BY <1>1, <1>2, ProductGrows
<1>4. (R - 1) * R = R * R - R
  OBVIOUS
<1>. QED BY <1>1, <1>3, <1>4
LEMMA HighHalf ==
    ASSUME NEW R \in Nat \ {0}, NEW x \in 0..(R * R - 1), NEW v \in 0..(R - 1)
    PROVE  v * R + (x % R) \in 0..(R * R - 1)
<1>1. x % R \in 0..(R - 1)
  BY DivMod
<1>2. v * R <= (R - 1) * R /\ v * R \in Nat
  BY ProductGrows
<1>3. (R - 1) * R = R * R - R
  OBVIOUS
<1>. QED BY <1>1, <1>2, <1>3

\* The reason of an interrupt in the low bits of a register.
LEMMA ReasonBits ==
    ASSUME NEW R \in Nat, R % 4 = 0, NEW x \in 0..(R - 1), NEW a \in 0..1, NEW b \in 0..1
    PROVE  /\ x - (x % 4) + a + 2 * b \in 0..(R - 1)
           /\ (x - (x % 4) + a + 2 * b) % 4 = a + 2 * b
OBVIOUS

\* An address below R^3 comes back from the registers it was written to.
LEMMA AddressBack ==
    ASSUME NEW R \in Nat \ {0}, NEW s \in Nat, s < R * R * R
    PROVE  /\ ((s \div R) % (R * R)) * R + (s % R) = s
           /\ (s \div (R * R * R)) % R = 0
<1>. DEFINE q == s \div R
<1>0. R * R \in Nat \ {0} /\ R * R * R \in Nat \ {0} /\ R * R * R = R * (R * R)
  OBVIOUS
<1>1. s % R = s - R * q /\ q \in Nat
  BY DivMod
<1>2. q < R * R
  BY <1>0, DivBelow
<1>3. s \div (R * R * R) = 0
  <2>. DEFINE T == R * R * R
  <2>1. T \in Nat \ {0} /\ s < T * 1
    BY <1>0
  <2>. HIDE DEF T
  <2>2. s \div T < 1 /\ s \div T \in Nat
    BY <2>1, DivBelow, DivMod
  <2>3. s \div T = 0
    BY <2>2
  <2>. QED BY <2>3 DEF T
<1>. HIDE DEF q
<1>4. q % (R * R) = q
  <2>. DEFINE T == R * R
  <2>1. T \in Nat \ {0} /\ q \in 0..(T - 1)
    BY <1>0, <1>1, <1>2
  <2>. HIDE DEF T
  <2>2. q % T = q
    BY <2>1, ModSmall
  <2>. QED BY <2>2 DEF T
<1>5. 0 % R = 0
  OBVIOUS
<1>6. (q % (R * R)) * R + (s % R) = s
  <2>1. q * R = R * q
    BY <1>1
  <2>. QED BY <1>1, <1>4, <2>1
<1>. QED BY <1>3, <1>5, <1>6 DEF q

LEMMA Widths ==
    /\ REGISTER \in Nat \ {0} /\ REGISTER >= 4 /\ REGISTER % 4 = 0
    /\ HARDDISK_SECTOR_SIZE \in Nat \ {0} /\ Capacity \in Nat \ {0}
    /\ Cylinders \in Nat \ {0} /\ MAX_MULTIPLE_SECTORS \in Nat \ {0}
    /\ DWORD \in Nat \ {0} /\ REGISTER * REGISTER < DWORD
    /\ REGISTER * REGISTER \in Nat \ {0} /\ REGISTER < REGISTER * REGISTER
    /\ Capacity <= REGISTER * REGISTER * REGISTER
<1>1. /\ REGISTER \in Nat /\ REGISTER % 4 = 0 /\ REGISTER > HARDDISK_SECTORS
      /\ HARDDISK_SECTORS \in Nat \ {0}
      /\ HARDDISK_SECTOR_SIZE \in Nat \ {0} /\ Capacity \in Nat \ {0}
      /\ Cylinders \in Nat \ {0} /\ MAX_MULTIPLE_SECTORS \in Nat \ {0}
      /\ DWORD \in Nat /\ DWORD > REGISTER * REGISTER
      /\ Capacity <= REGISTER * REGISTER * REGISTER
  BY AtaAssumption
<1>2. REGISTER \in Nat \ {0} /\ REGISTER >= 4
  BY <1>1
<1>3. 4 * REGISTER <= REGISTER * REGISTER /\ REGISTER * REGISTER \in Nat
  BY <1>2, ProductGrows
<1>. QED BY <1>1, <1>2, <1>3

-----------------------------------------------------------------------------
(***************************************************************************)
(* Drives in their places.                                                 *)
(***************************************************************************)

LEMMA Places ==
    /\ 0 \in Channel /\ 1 \in Channel /\ 0 \in Drive /\ 1 \in Drive
    /\ \A x \in Channel : x \in Drive /\ (x = 0 \/ x = 1)
    /\ \A x \in Drive : x = 0 \/ x = 1
BY DEF Channel, Drive

PutAt(m, ch, d, c) == [m EXCEPT !.ata[ch].Drive[d] = c]
LEMMA PutAtFacts ==
    ASSUME NEW m \in MACHINE, NEW ch \in Channel, NEW d \in Drive, NEW c \in DRIVE
    PROVE  LET n == PutAt(m, ch, d, c)
           IN  /\ n \in MACHINE
               /\ n.bm = m.bm /\ n.lines = m.lines /\ n.exited = m.exited
               /\ \A x \in Channel : n.ata[x].DriveSelect = m.ata[x].DriveSelect
               /\ \A x \in Channel, y \in Drive :
                      n.ata[x].Drive[y] = IF x = ch /\ y = d THEN c ELSE m.ata[x].Drive[y]
<1>. DEFINE h == [m.ata[ch] EXCEPT !.Drive[d] = c]
            a == [m.ata EXCEPT ![ch] = h]
            n == [m EXCEPT !.ata = a]
<1>1. PutAt(m, ch, d, c) = n
  BY DEF PutAt
<1>2. m.ata \in [Channel -> ATA_CHANNEL] /\ m.ata[ch] \in ATA_CHANNEL
  BY DEF MACHINE
<1>3. /\ h \in ATA_CHANNEL /\ h.DriveSelect = m.ata[ch].DriveSelect
      /\ \A y \in Drive : h.Drive[y] = IF y = d THEN c ELSE m.ata[ch].Drive[y]
  BY <1>2 DEF ATA_CHANNEL
<1>. HIDE DEF h
<1>4. /\ a \in [Channel -> ATA_CHANNEL]
      /\ \A x \in Channel : a[x] = IF x = ch THEN h ELSE m.ata[x]
  BY <1>2, <1>3
<1>. HIDE DEF a
<1>5. /\ n \in MACHINE
      /\ n.bm = m.bm /\ n.lines = m.lines /\ n.exited = m.exited /\ n.ata = a
  BY <1>4 DEF MACHINE
<1>. HIDE DEF n
<1>. QED BY <1>1, <1>3, <1>4, <1>5

LEMMA PutIsPutAt ==
    ASSUME NEW m, NEW ch, NEW c
    PROVE  Put(m, ch, c) = PutAt(m, ch, Dnum(m, ch), c)
BY DEF Put, PutAt

LEMMA GoodAt ==
    ASSUME NEW m, NEW p, Good(m, p), NEW ch \in Channel
    PROVE  /\ m \in MACHINE
           /\ Dnum(m, ch) \in Drive
           /\ Sel(m, ch) = m.ata[ch].Drive[Dnum(m, ch)]
           /\ Sel(m, ch) \in DRIVE
           /\ Fine(ch, Dnum(m, ch), Sel(m, ch), m.bm[ch].DataReady, p)
           /\ Pair(m.ata[ch], p)
<1>1. m \in MACHINE /\ Pair(m.ata[ch], p)
  BY DEF Good
<1>2. Dnum(m, ch) \in Drive
  BY <1>1 DEF MACHINE, ATA_CHANNEL, Dnum
<1>3. Sel(m, ch) = m.ata[ch].Drive[Dnum(m, ch)]
  BY DEF Sel
<1>4. Fine(ch, Dnum(m, ch), Sel(m, ch), m.bm[ch].DataReady, p)
  BY <1>2, <1>3 DEF Good
<1>. QED BY <1>1, <1>2, <1>3, <1>4 DEF Fine

\* A drive that is fine can be put in its place, in a reset as before.
LEMMA PutAtGood ==
    ASSUME NEW m, NEW p, Good(m, p), NEW ch \in Channel, NEW d \in Drive, NEW c,
           Fine(ch, d, c, m.bm[ch].DataReady, p),
           c.Reset = m.ata[ch].Drive[d].Reset,
           p /\ d = 0 /\ m.ata[ch].DriveSelect = 1 => "DRQ" \notin c.Status
    PROVE  Good(PutAt(m, ch, d, c), p)
<1>. DEFINE n == PutAt(m, ch, d, c)
<1>0. m \in MACHINE /\ c \in DRIVE
  BY DEF Good, Fine
<1>1. /\ n \in MACHINE
      /\ n.bm = m.bm /\ n.lines = m.lines /\ n.exited = m.exited
      /\ \A x \in Channel : n.ata[x].DriveSelect = m.ata[x].DriveSelect
      /\ \A x \in Channel, y \in Drive :
             n.ata[x].Drive[y] = IF x = ch /\ y = d THEN c ELSE m.ata[x].Drive[y]
  BY <1>0, PutAtFacts
<1>. HIDE DEF n
<1>2. ASSUME NEW x \in Channel, NEW y \in Drive
      PROVE  Fine(x, y, n.ata[x].Drive[y], n.bm[x].DataReady, p)
  <2>1. Fine(x, y, m.ata[x].Drive[y], m.bm[x].DataReady, p)
    BY DEF Good
  <2>2. CASE x = ch /\ y = d
    BY <1>1, <2>2
  <2>3. CASE ~(x = ch /\ y = d)
    <3>1. n.ata[x].Drive[y] = m.ata[x].Drive[y]
      BY <1>1, <2>3
    <3>. QED BY <1>1, <2>1, <3>1
  <2>. QED BY <2>2, <2>3
<1>3. ASSUME NEW x \in Channel PROVE Pair(n.ata[x], p)
  <2>1. Pair(m.ata[x], p)
    BY DEF Good
  <2>2. /\ n.ata[x].Drive[0] = IF x = ch /\ 0 = d THEN c ELSE m.ata[x].Drive[0]
        /\ n.ata[x].Drive[1] = IF x = ch /\ 1 = d THEN c ELSE m.ata[x].Drive[1]
    BY <1>1, Places
  <2>3. n.ata[x].Drive[0].Reset = n.ata[x].Drive[1].Reset
    BY <2>1, <2>2 DEF Pair
  <2>4. p /\ n.ata[x].DriveSelect = 1 => "DRQ" \notin n.ata[x].Drive[0].Status
    <3>1. CASE x = ch /\ d = 0
      BY <1>1, <2>2, <3>1
    <3>2. CASE ~(x = ch /\ d = 0)
      <4>1. n.ata[x].Drive[0] = m.ata[x].Drive[0]
        BY <2>2, <3>2
      <4>. QED BY <1>1, <2>1, <4>1 DEF Pair
    <3>. QED BY <3>1, <3>2
  <2>. QED BY <2>3, <2>4 DEF Pair
<1>4. Good(n, p)
  BY <1>1, <1>2, <1>3 DEF Good
<1>. QED BY <1>4 DEF n

LEMMA PutGood ==
    ASSUME NEW m, NEW p, Good(m, p), NEW ch \in Channel, NEW c,
           Fine(ch, Dnum(m, ch), c, m.bm[ch].DataReady, p), c.Reset = Sel(m, ch).Reset
    PROVE  /\ Good(Put(m, ch, c), p)
           /\ Dnum(Put(m, ch, c), ch) = Dnum(m, ch)
           /\ Sel(Put(m, ch, c), ch) = c
           /\ Put(m, ch, c).bm = m.bm
           /\ Put(m, ch, c).exited = m.exited
<1>1. /\ m \in MACHINE /\ Dnum(m, ch) \in Drive /\ c \in DRIVE
      /\ Sel(m, ch) = m.ata[ch].Drive[Dnum(m, ch)]
  BY GoodAt DEF Fine
<1>2. ~(Dnum(m, ch) = 0 /\ m.ata[ch].DriveSelect = 1)
  BY DEF Dnum
<1>. DEFINE n == PutAt(m, ch, Dnum(m, ch), c)
<1>3. Good(n, p)
  BY <1>1, <1>2, PutAtGood
<1>4. /\ n.bm = m.bm /\ n.exited = m.exited
      /\ n.ata[ch].DriveSelect = m.ata[ch].DriveSelect
      /\ n.ata[ch].Drive[Dnum(m, ch)] = c
  BY <1>1, PutAtFacts
<1>. HIDE DEF n
<1>5. Dnum(n, ch) = Dnum(m, ch) /\ Sel(n, ch) = c
  BY <1>4 DEF Dnum, Sel
<1>6. Put(m, ch, c) = n
  BY PutIsPutAt DEF n
<1>. QED BY <1>3, <1>4, <1>5, <1>6

\* The rest of the machine: lines, the status of a bus master, the exit.
LEMMA RestGood ==
    ASSUME NEW m, NEW p, Good(m, p), NEW n \in MACHINE, n.ata = m.ata,
           \A ch \in Channel : m.bm[ch].DataReady => n.bm[ch].DataReady
    PROVE  Good(n, p)
<1>1. ASSUME NEW ch \in Channel, NEW d \in Drive
      PROVE  Fine(ch, d, n.ata[ch].Drive[d], n.bm[ch].DataReady, p)
  <2>1. Fine(ch, d, m.ata[ch].Drive[d], m.bm[ch].DataReady, p)
    BY DEF Good
  <2>. QED BY <2>1 DEF Fine, Silent
<1>. QED BY <1>1 DEF Good

LEMMA RaiseGood ==
    ASSUME NEW m, NEW p, Good(m, p), NEW ch \in Channel
    PROVE  LET n == HardDiskRaiseInterrupt(m, ch)
           IN  /\ Good(n, p) /\ n.ata = m.ata /\ n.exited = m.exited
               /\ \A x \in Channel : n.bm[x] = [m.bm[x] EXCEPT !.Status = n.bm[x].Status]
<1>. DEFINE b == [m.bm EXCEPT ![ch].Status = @ \cup {"IRQ"}]
            n == [m EXCEPT !.bm = b, !.lines = @ \cup {Irq(ch)}]
<1>1. m \in MACHINE /\ m.bm \in [Channel -> BMDMA]
  BY DEF Good, MACHINE
<1>2. CASE Sel(m, ch).DisableIrq
  <2>1. HardDiskRaiseInterrupt(m, ch) = m
    BY <1>2 DEF HardDiskRaiseInterrupt
  <2>2. \A x \in Channel : m.bm[x] = [m.bm[x] EXCEPT !.Status = m.bm[x].Status]
    BY <1>1 DEF BMDMA
  <2>. QED BY <2>1, <2>2
<1>3. CASE ~Sel(m, ch).DisableIrq
  <2>1. HardDiskRaiseInterrupt(m, ch) = n
    BY <1>3 DEF HardDiskRaiseInterrupt
  <2>2. Irq(ch) \in {14, 15}
    BY DEF Irq
  <2>3. /\ b \in [Channel -> BMDMA]
        /\ \A x \in Channel : b[x] = [m.bm[x] EXCEPT !.Status = b[x].Status]
    BY <1>1 DEF BMDMA
  <2>4. \A x \in Channel : b[x].DataReady = m.bm[x].DataReady
    BY <1>1 DEF BMDMA
  <2>. HIDE DEF b
  <2>5. /\ n \in MACHINE /\ n.ata = m.ata /\ n.bm = b /\ n.exited = m.exited
    BY <1>1, <2>2, <2>3 DEF MACHINE
  <2>. HIDE DEF n
  <2>6. Good(n, p)
    BY <2>4, <2>5, RestGood
  <2>. QED BY <2>1, <2>3, <2>5, <2>6
<1>. QED BY <1>2, <1>3

LEMMA DoneGood ==
    ASSUME NEW m, NEW p, Good(m, p), NEW ch \in Channel, NEW c,
           Fine(ch, Dnum(m, ch), c, m.bm[ch].DataReady, p), c.Reset = Sel(m, ch).Reset
    PROVE  /\ Good(Done(m, ch, c), p)
           /\ Done(m, ch, c).ata = Put(m, ch, c).ata
           /\ Dnum(Done(m, ch, c), ch) = Dnum(m, ch)
           /\ Sel(Done(m, ch, c), ch) = c
           /\ Done(m, ch, c).exited = m.exited
           /\ \A x \in Channel :
                  Done(m, ch, c).bm[x] = [m.bm[x] EXCEPT !.Status = Done(m, ch, c).bm[x].Status]
<1>. DEFINE n == Put(m, ch, c)
            r == HardDiskRaiseInterrupt(n, ch)
<1>1. /\ Good(n, p) /\ Dnum(n, ch) = Dnum(m, ch) /\ Sel(n, ch) = c
      /\ n.bm = m.bm /\ n.exited = m.exited
  BY PutGood
<1>. HIDE DEF n
<1>2. /\ Good(r, p) /\ r.ata = n.ata /\ r.exited = n.exited
      /\ \A x \in Channel : r.bm[x] = [n.bm[x] EXCEPT !.Status = r.bm[x].Status]
  BY <1>1, RaiseGood
<1>. HIDE DEF r
<1>3. Dnum(r, ch) = Dnum(m, ch) /\ Sel(r, ch) = c
  BY <1>1, <1>2 DEF Dnum, Sel
<1>4. Done(m, ch, c) = r
  BY DEF Done, r, n
<1>. QED BY <1>1, <1>2, <1>3, <1>4 DEF n

-----------------------------------------------------------------------------
(***************************************************************************)
(* What keeps a drive fine.                                                *)
(***************************************************************************)

\* A drive that stops asking.
LEMMA EndFine ==
    ASSUME NEW ch \in Channel, NEW d \in Drive, NEW c, NEW ready, NEW p,
           Fine(ch, d, c, ready, p), NEW e \in DRIVE,
           e.Reset = c.Reset, e.ResetInProgress = c.ResetInProgress,
           d = 0 => Identity(ch, e),
           e.NumberOfSectors = c.NumberOfSectors \/ (ch = 0 /\ d = 0),
           "DRQ" \notin e.Status, Several(e),
           e.CurrentCommand = c.CurrentCommand
               \/ (e.CurrentCommand \notin Alien(ch) /\ (d = 0 \/ e.CurrentCommand = NoCommand)),
           d = 0 \/ ("ERR" \in e.Status => ready)
    PROVE  Fine(ch, d, e, ready, p)
BY DEF Fine, Asks, Several, Replies, Silent

Aborted(c) ==
    [Turn(c, {"BSY", "DRQ"}, {"RDY", "ERR"}) EXCEPT
        !.CurrentCommand = NoCommand, !.BufferIndex = 0]
LEMMA AbortedFine ==
    ASSUME NEW ch \in Channel, NEW d \in Drive, NEW c, NEW ready, NEW p,
           Fine(ch, d, c, ready, p), d = 0 \/ ready
    PROVE  Fine(ch, d, Aborted(c), ready, p) /\ Aborted(c).Reset = c.Reset
           /\ Aborted(c).CurrentCommand = NoCommand

<1>. DEFINE e == Aborted(c)
<1>1. c \in DRIVE /\ (d = 0 => Identity(ch, c)) /\ Several(c)
  BY DEF Fine, Asks
<1>2. /\ e \in DRIVE /\ e.Reset = c.Reset /\ e.ResetInProgress = c.ResetInProgress
      /\ e.IdentifySet = c.IdentifySet /\ e.DriveId = c.DriveId /\ e.Mode = c.Mode
      /\ e.NumberOfSectors = c.NumberOfSectors /\ "DRQ" \notin e.Status
      /\ e.CurrentCommand = NoCommand /\ e.MultipleSectors = c.MultipleSectors
  BY <1>1 DEF Aborted, Turn, DRIVE, STATUS
<1>3. NoCommand \notin Alien(ch) \cup Multiples \cup Reads \cup Writes
  BY DEF NoCommand, Alien, Reads, Writes, Multiples
<1>. HIDE DEF e
<1>4. (d = 0 => Identity(ch, e)) /\ Several(e)
  BY <1>1, <1>2, <1>3 DEF Identity, Several
<1>5. Fine(ch, d, e, ready, p)
  BY <1>2, <1>3, <1>4, EndFine
<1>. QED BY <1>2, <1>5 DEF e

LEMMA AbortGood ==
    ASSUME NEW m, NEW p, Good(m, p), NEW ch \in Channel,
           Dnum(m, ch) = 0 \/ m.bm[ch].DataReady
    PROVE  LET n == HardDiskCommandAborted(m, ch)
           IN  /\ Good(n, p) /\ Dnum(n, ch) = Dnum(m, ch)
               /\ n.exited = m.exited
               /\ Sel(n, ch) = Aborted(Sel(m, ch))
               /\ \A x \in Channel : n.bm[x] = [m.bm[x] EXCEPT !.Status = n.bm[x].Status]
<1>. DEFINE c == Sel(m, ch)
            e == Aborted(c)
<1>1. Dnum(m, ch) \in Drive /\ Fine(ch, Dnum(m, ch), c, m.bm[ch].DataReady, p)
  BY GoodAt
<1>2. Fine(ch, Dnum(m, ch), e, m.bm[ch].DataReady, p) /\ e.Reset = c.Reset
  BY <1>1, AbortedFine
<1>3. HardDiskCommandAborted(m, ch) = Done(m, ch, e)
  BY DEF HardDiskCommandAborted, Done, Aborted
<1>. HIDE DEF e
<1>4. /\ Good(Done(m, ch, e), p)
      /\ Dnum(Done(m, ch, e), ch) = Dnum(m, ch)
      /\ Sel(Done(m, ch, e), ch) = e
      /\ Done(m, ch, e).exited = m.exited
      /\ \A x \in Channel :
             Done(m, ch, e).bm[x] = [m.bm[x] EXCEPT !.Status = Done(m, ch, e).bm[x].Status]
  BY <1>2, DoneGood
<1>. QED BY <1>3, <1>4 DEF e

-----------------------------------------------------------------------------
(***************************************************************************)
(* The sectors of a transfer move the address and the counts.              *)
(***************************************************************************)

Moved(e, c) ==
    /\ e \in DRIVE
    /\ e.Status = c.Status /\ e.CurrentCommand = c.CurrentCommand
    /\ e.MultipleSectors = c.MultipleSectors
    /\ e.BufferSize = c.BufferSize /\ e.BufferIndex = c.BufferIndex
    /\ e.Reset = c.Reset /\ e.ResetInProgress = c.ResetInProgress
    /\ e.Mode = c.Mode /\ e.DriveId = c.DriveId /\ e.IdentifySet = c.IdentifySet
    /\ e.Lba = c.Lba /\ e.Lba48 = c.Lba48

LEMMA CalculatedAddress ==
    ASSUME NEW c
    PROVE  /\ HardDiskCalculateLogicalAddress(c) + 1 \in Nat
           /\ HardDiskCalculateLogicalAddress(c) # OutOfRange
                  => HardDiskCalculateLogicalAddress(c) \in 0..(Capacity - 1)
<1>1. Capacity \in Nat \ {0}
  BY Widths
<1>. QED BY <1>1 DEF HardDiskCalculateLogicalAddress, OutOfRange

\* The counts go down, around their widths.
Counted(c) ==
    [c EXCEPT !.SectorCount = Minus1(@, REGISTER), !.NumberOfSectors = Minus1(@, DWORD)]
LEMMA CountedMoved ==
    ASSUME NEW c \in DRIVE
    PROVE  /\ Moved(Counted(c), c)
           /\ Counted(c).NumberOfSectors = (c.NumberOfSectors + DWORD - 1) % DWORD
           /\ Counted(c).SectorNumber = c.SectorNumber
           /\ Counted(c).CylinderNumber = c.CylinderNumber
           /\ Counted(c).HeadNumber = c.HeadNumber
<1>. DEFINE a == Minus1(c.SectorCount, REGISTER)
            b == Minus1(c.NumberOfSectors, DWORD)
            e == [c EXCEPT !.SectorCount = a, !.NumberOfSectors = b]
<1>1. c.SectorCount \in Int /\ c.NumberOfSectors \in Int
      /\ REGISTER \in Nat \ {0} /\ DWORD \in Nat \ {0}
  BY Widths DEF DRIVE
<1>2. a \in 0..(REGISTER - 1)
  <2>1. c.SectorCount + REGISTER - 1 \in Int
    BY <1>1
  <2>. QED BY <1>1, <2>1, ModIn, Zenon DEF Minus1
<1>3. b \in 0..(DWORD - 1) /\ b = (c.NumberOfSectors + DWORD - 1) % DWORD
  <2>1. c.NumberOfSectors + DWORD - 1 \in Int
    BY <1>1
  <2>. QED BY <1>1, <2>1, ModIn, Zenon DEF Minus1
<1>. HIDE DEF a, b
<1>4. e \in DRIVE
  BY <1>2, <1>3, ZenonT(30) DEF DRIVE
<1>5. Counted(c) = e
  BY DEF Counted, a, b
<1>6. Moved(e, c) /\ e.NumberOfSectors = b /\ e.SectorNumber = c.SectorNumber
      /\ e.CylinderNumber = c.CylinderNumber /\ e.HeadNumber = c.HeadNumber
  BY <1>4 DEF Moved, DRIVE
<1>. QED BY <1>3, <1>5, <1>6

LEMMA LbaWrittenMoved ==
    ASSUME NEW c \in DRIVE, NEW s \in Nat
    PROVE  /\ Moved(LbaWritten(c, s), c)
           /\ LbaWritten(c, s).NumberOfSectors = c.NumberOfSectors
           /\ LbaWritten(c, s).SectorNumber = s % REGISTER
           /\ LbaWritten(c, s).CylinderNumber = (s \div REGISTER) % (REGISTER * REGISTER)
           /\ ~c.Lba48 => LbaWritten(c, s).HeadNumber =
                  (s \div (REGISTER * REGISTER * REGISTER)) % REGISTER
<1>. DEFINE x == s % REGISTER
            y == (s \div REGISTER) % (REGISTER * REGISTER)
            z == (s \div (REGISTER * REGISTER * REGISTER)) % REGISTER
            h == IF c.Lba48 THEN c.HeadNumber ELSE z
            e == [c EXCEPT !.SectorNumber = x, !.CylinderNumber = y, !.HeadNumber = h]
<1>0. s \in Int /\ REGISTER \in Nat \ {0} /\ REGISTER * REGISTER \in Nat \ {0}
      /\ REGISTER * REGISTER * REGISTER \in Nat \ {0}
  BY Widths
<1>1. x \in 0..(REGISTER - 1)
  BY <1>0, DivMod
<1>2. y \in 0..(REGISTER * REGISTER - 1)
  <2>1. s \div REGISTER \in Int
    BY <1>0, DivMod
  <2>. QED BY <1>0, <2>1, DivMod
<1>3. z \in 0..(REGISTER - 1)
  <2>1. s \div (REGISTER * REGISTER * REGISTER) \in Int
    BY <1>0, DivMod
  <2>. QED BY <1>0, <2>1, DivMod
<1>4. h \in 0..(REGISTER - 1)
  BY <1>3 DEF DRIVE
<1>5. LbaWritten(c, s) = e
  BY DEF LbaWritten
<1>6. ~c.Lba48 => h = z
  OBVIOUS
<1>. HIDE DEF x, y, z, h
<1>7. /\ Moved(e, c) /\ e.NumberOfSectors = c.NumberOfSectors /\ e.SectorNumber = x
      /\ e.CylinderNumber = y /\ e.HeadNumber = h
  BY <1>1, <1>2, <1>4 DEF Moved, DRIVE
<1>. QED BY <1>5, <1>6, <1>7 DEF x, y, z

LEMMA ChsNextMoved ==
    ASSUME NEW c \in DRIVE
    PROVE  Moved(ChsNext(c), c) /\ ChsNext(c).NumberOfSectors = c.NumberOfSectors
<1>. DEFINE next == (c.SectorNumber + 1) % REGISTER
            up == (c.CylinderNumber + 1) % (REGISTER * REGISTER)
            cylinder == Minimum(up, Cylinders - 1)
            head == (c.HeadNumber + 1) % REGISTER
            e1 == [c EXCEPT !.SectorNumber = next]
            e2 == [c EXCEPT !.SectorNumber = 1, !.HeadNumber = head]
            e3 == [c EXCEPT !.SectorNumber = 0, !.HeadNumber = head,
                            !.CylinderNumber = cylinder]
<1>1. next \in 0..(REGISTER - 1) /\ head \in 0..(REGISTER - 1)
      /\ up \in 0..(REGISTER * REGISTER - 1)
      /\ 0 \in 0..(REGISTER - 1) /\ 1 \in 0..(REGISTER - 1)
  <2>1. c.SectorNumber + 1 \in Int /\ c.CylinderNumber + 1 \in Int /\ c.HeadNumber + 1 \in Int
    BY DEF DRIVE
  <2>2. REGISTER \in Nat \ {0} /\ REGISTER * REGISTER \in Nat \ {0}
    BY Widths
  <2>3. next \in 0..(REGISTER - 1) /\ head \in 0..(REGISTER - 1)
        /\ up \in 0..(REGISTER * REGISTER - 1)
    BY <2>1, <2>2, ModIn, Zenon
  <2>4. 0 \in 0..(REGISTER - 1) /\ 1 \in 0..(REGISTER - 1)
    BY Widths
  <2>. QED BY <2>3, <2>4
<1>2. ChsNext(c) \in {e1, e2, e3}
  BY DEF ChsNext
<1>3. cylinder \in 0..(REGISTER * REGISTER - 1)
  <2>. HIDE DEF up
  <2>. QED BY <1>1, Widths DEF Minimum
<1>. HIDE DEF next, cylinder, head, up
<1>4. Moved(e1, c) /\ e1.NumberOfSectors = c.NumberOfSectors
  BY <1>1 DEF Moved, DRIVE
<1>5. Moved(e2, c) /\ e2.NumberOfSectors = c.NumberOfSectors
  BY <1>1 DEF Moved, DRIVE
<1>6. Moved(e3, c) /\ e3.NumberOfSectors = c.NumberOfSectors
  BY <1>1, <1>3 DEF Moved, DRIVE
<1>. HIDE DEF e1, e2, e3
<1>. QED BY <1>2, <1>4, <1>5, <1>6

LEMMA NextMoved ==
    ASSUME NEW c \in DRIVE
    PROVE  /\ Moved(NextSector(c), c)
           /\ NextSector(c).NumberOfSectors = (c.NumberOfSectors + DWORD - 1) % DWORD
<1>. DEFINE k == Counted(c)
            s == HardDiskCalculateLogicalAddress(c)
<1>1. NextSector(c) = IF c.Lba THEN LbaWritten(k, s + 1) ELSE ChsNext(k)
  BY DEF NextSector, HardDiskIncrementAddress, Counted
<1>2. Moved(k, c) /\ k \in DRIVE
      /\ k.NumberOfSectors = (c.NumberOfSectors + DWORD - 1) % DWORD
  BY CountedMoved DEF Moved
<1>3. s + 1 \in Nat
  BY CalculatedAddress
<1>. HIDE DEF k, s
<1>4. Moved(LbaWritten(k, s + 1), k) /\ LbaWritten(k, s + 1).NumberOfSectors = k.NumberOfSectors
  BY <1>2, <1>3, LbaWrittenMoved
<1>5. Moved(ChsNext(k), k) /\ ChsNext(k).NumberOfSectors = k.NumberOfSectors
  BY <1>2, ChsNextMoved
<1>. DEFINE e == NextSector(c)
<1>6. Moved(e, k) /\ e.NumberOfSectors = k.NumberOfSectors
  BY <1>1, <1>4, <1>5
<1>. HIDE DEF e
<1>7. Moved(e, c)
  BY <1>2, <1>6 DEF Moved
<1>. QED BY <1>2, <1>6, <1>7 DEF e

\* The next sector of a read on record is the next one asked for.
LEMMA NextAt ==
    ASSUME NEW c \in DRIVE, NEW r, r.first \in Nat, r.count \in Nat, At(c, r),
           c.NumberOfSectors > 0
    PROVE  At(NextSector(c), r) /\ NextSector(c).NumberOfSectors = c.NumberOfSectors - 1
<1>. DEFINE e == NextSector(c)
            k == Counted(c)
            s == HardDiskCalculateLogicalAddress(c)
            a == r.first + (r.count - c.NumberOfSectors)
<1>0. c.NumberOfSectors \in 1..(DWORD - 1) /\ DWORD \in Nat \ {0}
  BY Widths DEF DRIVE
<1>1. Moved(e, c) /\ e.NumberOfSectors = (c.NumberOfSectors + DWORD - 1) % DWORD
  BY NextMoved
<1>2. (c.NumberOfSectors + DWORD - 1) % DWORD = c.NumberOfSectors - 1
  <2>. DEFINE n == c.NumberOfSectors
  <2>1. n \in 1..(DWORD - 1)
    BY <1>0
  <2>. HIDE DEF n
  <2>2. (n + DWORD - 1) % DWORD = n - 1
    BY <1>0, <2>1
  <2>. QED BY <2>2 DEF n
<1>3. c.Lba /\ (a < Capacity => s = a) /\ c.NumberOfSectors <= r.count
  BY DEF At
<1>4. e.Lba /\ e.NumberOfSectors = c.NumberOfSectors - 1 /\ e.NumberOfSectors <= r.count
      /\ r.first + (r.count - e.NumberOfSectors) = a + 1
  BY <1>0, <1>1, <1>2, <1>3 DEF Moved
<1>5. ASSUME a + 1 < Capacity PROVE HardDiskCalculateLogicalAddress(e) = a + 1
  <2>1. /\ k \in DRIVE /\ Moved(k, c)
    BY CountedMoved DEF Moved
  <2>2. s = a /\ a \in Nat /\ a + 1 \in Nat
    BY <1>0, <1>3, <1>5, Widths
  <2>3. e = LbaWritten(k, a + 1)
    BY <1>3, <2>2 DEF NextSector, HardDiskIncrementAddress, Counted
  <2>. HIDE DEF e, k, a, s
  <2>4. /\ e.SectorNumber = (a + 1) % REGISTER
        /\ e.CylinderNumber = ((a + 1) \div REGISTER) % (REGISTER * REGISTER)
        /\ ~k.Lba48 => e.HeadNumber = ((a + 1) \div (REGISTER * REGISTER * REGISTER)) % REGISTER
        /\ e.Lba48 = k.Lba48
    BY <2>1, <2>2, <2>3, LbaWrittenMoved DEF Moved
  <2>5. a + 1 < REGISTER * REGISTER * REGISTER /\ REGISTER \in Nat \ {0}
    <3>. DEFINE T == REGISTER * REGISTER * REGISTER
    <3>1. Capacity <= T /\ T \in Nat /\ Capacity \in Nat /\ REGISTER \in Nat \ {0}
      BY Widths
    <3>. HIDE DEF T
    <3>2. a + 1 < T
      BY <1>5, <2>2, <3>1
    <3>. QED BY <3>1, <3>2 DEF T
  <2>6. /\ (((a + 1) \div REGISTER) % (REGISTER * REGISTER)) * REGISTER + ((a + 1) % REGISTER)
              = a + 1
        /\ ((a + 1) \div (REGISTER * REGISTER * REGISTER)) % REGISTER = 0
    BY <2>2, <2>5, AddressBack, Zenon
  <2>7. e.CylinderNumber * REGISTER + e.SectorNumber = a + 1 /\ (~e.Lba48 => e.HeadNumber = 0)
    BY <2>4, <2>6, Zenon
  <2>8. LbaOf(e) = a + 1
    <3>1. 0 * REGISTER * REGISTER * REGISTER = 0
      BY <2>5
    <3>2. CASE e.Lba48
      BY <2>2, <2>7, <3>2 DEF LbaOf
    <3>3. CASE ~e.Lba48
      <4>1. LbaOf(e) = e.CylinderNumber * REGISTER + e.SectorNumber
                       + e.HeadNumber * REGISTER * REGISTER * REGISTER
        BY <3>3, Zenon DEF LbaOf
      <4>2. LbaOf(e) = (a + 1) + 0
        BY <2>7, <3>1, <3>3, <4>1, Zenon
      <4>. QED BY <2>2, <4>2
    <3>. QED BY <3>2, <3>3
  <2>9. a + 1 \in 0..(Capacity - 1)
    BY <1>5, <2>2, Widths
  <2>. QED BY <1>4, <2>8, <2>9 DEF HardDiskCalculateLogicalAddress
<1>. HIDE DEF e, a
<1>. QED BY <1>4, <1>5 DEF At, e

\* The rounds of a transfer.
AfterTo(g, n, c) == g = [i \in 0..n |-> IF i = 0 THEN c ELSE NextSector(g[i - 1])]
LEMMA AfterRounds ==
    ASSUME NEW c, NEW n \in Nat
    PROVE  \E g : AfterTo(g, n, c)
<1>. DEFINE S == {i \in Nat : \E g : AfterTo(g, i, c)}
<1>1. 0 \in S
  <2>. DEFINE g == [i \in 0..0 |-> c]
  <2>1. AfterTo(g, 0, c)
    BY DEF AfterTo
  <2>. QED BY <2>1
<1>2. ASSUME NEW k \in 0..n, k \in S, k < n PROVE k + 1 \in S
  <2>1. PICK g : AfterTo(g, k, c)
    BY <1>2
  <2>. DEFINE h == [i \in 0..(k + 1) |-> IF i = k + 1 THEN NextSector(g[k]) ELSE g[i]]
              r == [i \in 0..(k + 1) |-> IF i = 0 THEN c ELSE NextSector(h[i - 1])]
  <2>2. ASSUME NEW i \in 0..(k + 1) PROVE h[i] = r[i]
    <3>1. CASE i = 0
      <4>1. h[i] = g[0] /\ 0 \in 0..k
        BY <3>1
      <4>2. g[0] = c
        BY <2>1, <4>1 DEF AfterTo
      <4>. QED BY <3>1, <4>1, <4>2
    <3>2. CASE i = k + 1
      <4>1. i # 0 /\ i - 1 = k /\ h[i - 1] = g[k]
        BY <3>2
      <4>. QED BY <3>2, <4>1
    <3>3. CASE i # 0 /\ i # k + 1
      <4>1. i \in 0..k /\ i - 1 \in 0..k /\ i # k + 1 /\ i - 1 # k + 1
        BY <3>3
      <4>2. h[i] = g[i] /\ h[i - 1] = g[i - 1]
        BY <4>1
      <4>3. g[i] = NextSector(g[i - 1])
        BY <2>1, <3>3, <4>1 DEF AfterTo
      <4>. QED BY <3>3, <4>2, <4>3
    <3>. QED BY <3>1, <3>2, <3>3
  <2>3. h = r
    BY <2>2
  <2>4. AfterTo(h, k + 1, c)
    BY <2>3 DEF AfterTo
  <2>. QED BY <2>4
<1>. HIDE DEF S
<1>3. n \in S
  BY <1>1, <1>2, UpTo
<1>. QED BY <1>3 DEF S

LEMMA AfterIsRounds ==
    ASSUME NEW c, NEW n \in Nat
    PROVE  \E g : /\ g[0] = c
                  /\ \A i \in 0..n : i < n => g[i + 1] = NextSector(g[i])
                  /\ After(c, n) = g[n]
<1>. DEFINE f[i \in 0..n] == IF i = 0 THEN c ELSE NextSector(f[i - 1])
<1>1. \E g : AfterTo(g, n, c)
  BY AfterRounds
<1>2. AfterTo(f, n, c)
  BY <1>1 DEF AfterTo
<1>3. After(c, n) = f[n]
  BY DEF After
<1>. HIDE DEF f
<1>4. f[0] = c
  BY <1>2 DEF AfterTo
<1>5. ASSUME NEW i \in 0..n, i < n PROVE f[i + 1] = NextSector(f[i])
  <2>1. i + 1 \in 0..n /\ i + 1 # 0 /\ (i + 1) - 1 = i
    BY <1>5
  <2>. QED BY <1>2, <2>1 DEF AfterTo
<1>. QED BY <1>3, <1>4, <1>5

LEMMA AfterMoved ==
    ASSUME NEW c \in DRIVE, NEW n \in Nat
    PROVE  Moved(After(c, n), c)
<1>1. PICK g : /\ g[0] = c
               /\ \A i \in 0..n : i < n => g[i + 1] = NextSector(g[i])
               /\ After(c, n) = g[n]
  BY AfterIsRounds
<1>. DEFINE S == {i \in 0..n : Moved(g[i], c)}
<1>2. 0 \in S
  BY <1>1 DEF Moved
<1>3. ASSUME NEW i \in 0..n, i \in S, i < n PROVE i + 1 \in S
  <2>. DEFINE e == g[i]
              f == NextSector(e)
  <2>1. g[i + 1] = f
    BY <1>1, <1>3
  <2>2. Moved(e, c) /\ e \in DRIVE
    BY <1>3 DEF Moved
  <2>. HIDE DEF e
  <2>3. Moved(f, e)
    BY <2>2, NextMoved
  <2>. HIDE DEF f
  <2>4. Moved(f, c)
    BY <2>2, <2>3 DEF Moved
  <2>5. i + 1 \in 0..n
    BY <1>3
  <2>. QED BY <2>1, <2>4, <2>5
<1>. HIDE DEF S
<1>4. n \in S
  BY <1>2, <1>3, UpTo
<1>. QED BY <1>1, <1>4 DEF S

LEMMA AfterAt ==
    ASSUME NEW c \in DRIVE, NEW r, r.first \in Nat, r.count \in Nat, At(c, r),
           NEW n \in 0..c.NumberOfSectors
    PROVE  At(After(c, n), r) /\ After(c, n).NumberOfSectors = c.NumberOfSectors - n
<1>0. c.NumberOfSectors \in Nat /\ n \in Nat
  BY DEF DRIVE
<1>1. PICK g : /\ g[0] = c
               /\ \A i \in 0..n : i < n => g[i + 1] = NextSector(g[i])
               /\ After(c, n) = g[n]
  BY <1>0, AfterIsRounds
<1>. DEFINE S == {i \in 0..n : /\ g[i] \in DRIVE /\ At(g[i], r)
                               /\ g[i].NumberOfSectors = c.NumberOfSectors - i}
<1>2. 0 \in S
  BY <1>0, <1>1
<1>3. ASSUME NEW i \in 0..n, i \in S, i < n PROVE i + 1 \in S
  <2>. DEFINE e == g[i]
              f == NextSector(e)
  <2>1. g[i + 1] = f
    BY <1>1, <1>3
  <2>2. e \in DRIVE /\ At(e, r) /\ e.NumberOfSectors = c.NumberOfSectors - i
    BY <1>3
  <2>. HIDE DEF e
  <2>3. e.NumberOfSectors > 0
    BY <1>0, <1>3, <2>2
  <2>4. f \in DRIVE
    BY <2>2, NextMoved DEF Moved
  <2>5. At(f, r) /\ f.NumberOfSectors = e.NumberOfSectors - 1
    BY <2>2, <2>3, NextAt
  <2>. HIDE DEF f
  <2>6. i + 1 \in 0..n /\ f.NumberOfSectors = c.NumberOfSectors - (i + 1)
    BY <1>0, <1>3, <2>2, <2>5
  <2>. QED BY <2>1, <2>4, <2>5, <2>6
<1>. HIDE DEF S
<1>4. n \in S
  BY <1>0, <1>2, <1>3, UpTo
<1>. QED BY <1>1, <1>4 DEF S

LEMMA SectorsOfNat ==
    ASSUME NEW c \in DRIVE
    PROVE  SectorsOf(c) \in Nat
<1>1. c.BufferSize + HARDDISK_SECTOR_SIZE - 1 \in Nat /\ HARDDISK_SECTOR_SIZE \in Nat \ {0}
  BY Widths DEF DRIVE
<1>. QED BY <1>1 DEF SectorsOf

LEMMA MovedFine ==
    ASSUME NEW c, NEW ready, NEW p, Fine(0, 0, c, ready, p), NEW e, Moved(e, c)
    PROVE  Fine(0, 0, e, ready, p) /\ e.Reset = c.Reset
<1>1. c.CurrentCommand # "ATAPI_PACKET" /\ Asks(c) /\ Identity(0, c)
      /\ c.Reset = c.ResetInProgress /\ c.CurrentCommand \notin Alien(0)
  BY DEF Fine, Alien
<1>2. Asks(e)
  BY <1>1 DEF Moved, Asks, Several
<1>3. Replies(e)
  BY <1>1 DEF Moved, Replies
<1>4. Identity(0, e)
  BY <1>1 DEF Moved, Identity
<1>. QED BY <1>1, <1>2, <1>3, <1>4 DEF Fine, Moved

\* The bus masters but for their status.
Masters(n, m) ==
    \A x \in Channel : n.bm[x] = [m.bm[x] EXCEPT !.Status = n.bm[x].Status]
LEMMA MastersSame ==
    ASSUME NEW m, NEW p, Good(m, p), NEW n, n.bm = m.bm
    PROVE  Masters(n, m)
BY DEF Good, MACHINE, BMDMA, Masters

LEMMA ExitGood ==
    ASSUME NEW m, NEW p, Good(m, p)
    PROVE  Good(Exit(m), p) /\ Exit(m).ata = m.ata /\ Exit(m).bm = m.bm
<1>1. Exit(m) \in MACHINE /\ Exit(m).ata = m.ata /\ Exit(m).bm = m.bm
  BY DEF Good, MACHINE, Exit
<1>2. Good(Exit(m), p)
  BY <1>1, RestGood
<1>. QED BY <1>1, <1>2

\* Only the disk moves sectors: drive 0 of channel 0.
LEMMA ReadSectorGood ==
    ASSUME NEW m, NEW p, Good(m, p), Dnum(m, 0) = 0, NEW dies
    PROVE  LET n == HardDiskReadSector(m, 0, dies)
               c == Sel(m, 0)
           IN  /\ Good(n, p) /\ Dnum(n, 0) = 0 /\ Masters(n, m)
               /\ Sel(n, 0) = After(c, SectorsOf(c))
               /\ Moved(Sel(n, 0), c)
<1>. DEFINE c == Sel(m, 0)
            e == After(c, SectorsOf(c))
            n == Put(m, 0, e)
<1>0. 0 \in Channel
  BY Places
<1>1. c \in DRIVE /\ Fine(0, 0, c, m.bm[0].DataReady, p)
  BY <1>0, GoodAt
<1>2. Moved(e, c)
  BY <1>1, SectorsOfNat, AfterMoved
<1>3. HardDiskReadSector(m, 0, dies) = n \/ HardDiskReadSector(m, 0, dies) = Exit(n)
  BY DEF HardDiskReadSector
<1>. HIDE DEF c, e
<1>4. Fine(0, 0, e, m.bm[0].DataReady, p) /\ e.Reset = c.Reset
  BY <1>1, <1>2, MovedFine
<1>5. Good(n, p) /\ Dnum(n, 0) = 0 /\ Sel(n, 0) = e /\ n.bm = m.bm
  BY <1>0, <1>4, PutGood DEF c
<1>. HIDE DEF n
<1>6. Good(Exit(n), p) /\ Exit(n).ata = n.ata /\ Exit(n).bm = n.bm
  BY <1>5, ExitGood
<1>7. Dnum(Exit(n), 0) = 0 /\ Sel(Exit(n), 0) = e
  BY <1>5, <1>6 DEF Dnum, Sel
<1>8. Masters(n, m) /\ Masters(Exit(n), m)
  BY <1>5, <1>6, MastersSame
<1>. QED BY <1>2, <1>3, <1>5, <1>6, <1>7, <1>8 DEF c, e

LEMMA WrittenMoved ==
    ASSUME NEW c \in DRIVE, NEW taken
    PROVE  Moved(Written(c, taken).c, c)
<1>. DEFINE bad == {i \in 0..(SectorsOf(c) - 1) :
                      \/ i = taken
                      \/ HardDiskCalculateLogicalAddress(After(c, i)) = OutOfRange}
            first == CHOOSE i \in bad : \A j \in bad : i <= j
<1>1. SectorsOf(c) \in Nat
  BY SectorsOfNat
<1>2. bad # {} => first \in bad
  <2>1. SUFFICES ASSUME bad # {} PROVE first \in bad
    OBVIOUS
  <2>2. bad \subseteq Nat
    BY <1>1
  <2>. HIDE DEF bad
  <2>3. \E i \in bad : \A j \in bad : i <= j
    BY <2>1, <2>2, LeastNumber, Zenon
  <2>. QED BY <2>3
<1>3. bad # {} => first \in Nat
  BY <1>1, <1>2
<1>4. Written(c, taken) = IF bad = {} THEN [c |-> After(c, SectorsOf(c)), all |-> TRUE]
                          ELSE [c |-> After(c, first), all |-> FALSE]
  BY DEF Written
<1>. HIDE DEF bad, first
<1>5. CASE bad = {}
  <2>1. Written(c, taken).c = After(c, SectorsOf(c))
    BY <1>4, <1>5
  <2>. QED BY <1>1, <2>1, AfterMoved
<1>6. CASE bad # {}
  <2>1. Written(c, taken).c = After(c, first)
    BY <1>4, <1>6
  <2>. QED BY <1>3, <1>6, <2>1, AfterMoved
<1>. QED BY <1>5, <1>6

LEMMA WriteSectorGood ==
    ASSUME NEW m, NEW p, Good(m, p), Dnum(m, 0) = 0, NEW taken
    PROVE  LET n == HardDiskWriteSector(m, 0, taken)
               c == Sel(m, 0)
           IN  /\ Good(n, p) /\ Dnum(n, 0) = 0 /\ Masters(n, m)
               /\ ~WriteSectorFails(m, 0, taken) => Moved(Sel(n, 0), c)
<1>. DEFINE c == Sel(m, 0)
            w == Written(c, taken)
            e == w.c
            n == Put(m, 0, e)
            a == HardDiskCommandAborted(n, 0)
<1>0. 0 \in Channel
  BY Places
<1>1. c \in DRIVE /\ Fine(0, 0, c, m.bm[0].DataReady, p)
  BY <1>0, GoodAt
<1>2. Moved(e, c)
  BY <1>1, WrittenMoved
<1>3. /\ HardDiskWriteSector(m, 0, taken) = IF w.all THEN n ELSE a
      /\ ~WriteSectorFails(m, 0, taken) => w.all
  BY DEF HardDiskWriteSector, WriteSectorFails
<1>. HIDE DEF c, w, e
<1>4. Fine(0, 0, e, m.bm[0].DataReady, p) /\ e.Reset = c.Reset
  BY <1>1, <1>2, MovedFine
<1>5. Good(n, p) /\ Dnum(n, 0) = 0 /\ Sel(n, 0) = e /\ n.bm = m.bm
  BY <1>0, <1>4, PutGood DEF c
<1>. HIDE DEF n
<1>6. Good(a, p) /\ Dnum(a, 0) = 0 /\ Masters(a, n)
  BY <1>0, <1>5, AbortGood DEF Masters
<1>7. Masters(n, m)
  BY <1>5, MastersSame
<1>. HIDE DEF a
<1>8. Masters(a, m)
  BY <1>5, <1>6 DEF Masters
<1>. QED BY <1>2, <1>3, <1>5, <1>6, <1>7, <1>8 DEF c

-----------------------------------------------------------------------------
(***************************************************************************)
(* Registers of both drives.                                               *)
(***************************************************************************)

BothAt(m, ch, D) == [m EXCEPT !.ata[ch].Drive = D]
LEMMA BothAtFacts ==
    ASSUME NEW m \in MACHINE, NEW ch \in Channel, NEW D \in [Drive -> DRIVE]
    PROVE  LET n == BothAt(m, ch, D)
           IN  /\ n \in MACHINE
               /\ n.bm = m.bm /\ n.lines = m.lines /\ n.exited = m.exited
               /\ \A x \in Channel : n.ata[x].DriveSelect = m.ata[x].DriveSelect
               /\ \A x \in Channel, y \in Drive :
                      n.ata[x].Drive[y] = IF x = ch THEN D[y] ELSE m.ata[x].Drive[y]
<1>. DEFINE h == [m.ata[ch] EXCEPT !.Drive = D]
            a == [m.ata EXCEPT ![ch] = h]
            n == [m EXCEPT !.ata = a]
<1>1. BothAt(m, ch, D) = n
  BY DEF BothAt
<1>2. m.ata \in [Channel -> ATA_CHANNEL] /\ m.ata[ch] \in ATA_CHANNEL
  BY DEF MACHINE
<1>3. h \in ATA_CHANNEL /\ h.DriveSelect = m.ata[ch].DriveSelect /\ h.Drive = D
  BY <1>2 DEF ATA_CHANNEL
<1>. HIDE DEF h
<1>4. /\ a \in [Channel -> ATA_CHANNEL]
      /\ \A x \in Channel : a[x] = IF x = ch THEN h ELSE m.ata[x]
  BY <1>2, <1>3
<1>. HIDE DEF a
<1>5. /\ n \in MACHINE
      /\ n.bm = m.bm /\ n.lines = m.lines /\ n.exited = m.exited /\ n.ata = a
  BY <1>4 DEF MACHINE
<1>. HIDE DEF n
<1>. QED BY <1>1, <1>3, <1>4, <1>5

LEMMA BothGood ==
    ASSUME NEW m, NEW p, Good(m, p), NEW ch \in Channel, NEW D \in [Drive -> DRIVE],
           \A d \in Drive : Fine(ch, d, D[d], m.bm[ch].DataReady, p),
           D[0].Reset = D[1].Reset,
           p /\ m.ata[ch].DriveSelect = 1 => "DRQ" \notin D[0].Status
    PROVE  Good(BothAt(m, ch, D), p)
<1>. DEFINE n == BothAt(m, ch, D)
<1>0. m \in MACHINE
  BY DEF Good
<1>1. /\ n \in MACHINE
      /\ n.bm = m.bm
      /\ \A x \in Channel : n.ata[x].DriveSelect = m.ata[x].DriveSelect
      /\ \A x \in Channel, y \in Drive :
             n.ata[x].Drive[y] = IF x = ch THEN D[y] ELSE m.ata[x].Drive[y]
  BY <1>0, BothAtFacts
<1>. HIDE DEF n
<1>2. ASSUME NEW x \in Channel, NEW y \in Drive
      PROVE  Fine(x, y, n.ata[x].Drive[y], n.bm[x].DataReady, p)
  <2>1. Fine(x, y, m.ata[x].Drive[y], m.bm[x].DataReady, p)
    BY DEF Good
  <2>2. CASE x = ch
    <3>1. n.ata[x].Drive[y] = D[y]
      BY <1>1, <2>2
    <3>. QED BY <1>1, <2>2, <3>1
  <2>3. CASE x # ch
    <3>1. n.ata[x].Drive[y] = m.ata[x].Drive[y]
      BY <1>1, <2>3
    <3>. QED BY <1>1, <2>1, <3>1
  <2>. QED BY <2>2, <2>3
<1>3. ASSUME NEW x \in Channel PROVE Pair(n.ata[x], p)
  <2>1. Pair(m.ata[x], p)
    BY DEF Good
  <2>2. /\ n.ata[x].Drive[0] = IF x = ch THEN D[0] ELSE m.ata[x].Drive[0]
        /\ n.ata[x].Drive[1] = IF x = ch THEN D[1] ELSE m.ata[x].Drive[1]
    BY <1>1, Places
  <2>3. CASE x = ch
    BY <1>1, <2>2, <2>3 DEF Pair
  <2>4. CASE x # ch
    BY <1>1, <2>1, <2>2, <2>4 DEF Pair
  <2>. QED BY <2>3, <2>4
<1>4. Good(n, p)
  BY <1>1, <1>2, <1>3 DEF Good
<1>. QED BY <1>4 DEF n

\* What a write to a register of the task file leaves alone.
Filled(e, c) ==
    /\ e \in DRIVE
    /\ e.Status = c.Status /\ e.CurrentCommand = c.CurrentCommand
    /\ e.MultipleSectors = c.MultipleSectors /\ e.NumberOfSectors = c.NumberOfSectors
    /\ e.BufferSize = c.BufferSize /\ e.BufferIndex = c.BufferIndex
    /\ e.Reset = c.Reset /\ e.ResetInProgress = c.ResetInProgress
    /\ e.Mode = c.Mode /\ e.DriveId = c.DriveId /\ e.IdentifySet = c.IdentifySet
LEMMA FilledFine ==
    ASSUME NEW ch \in Channel, NEW d \in Drive, NEW c, NEW ready, NEW p,
           Fine(ch, d, c, ready, p), NEW e, Filled(e, c), p => "DRQ" \notin c.Status
    PROVE  Fine(ch, d, e, ready, p)
<1>1. Asks(e) /\ (p => Replies(e))
  BY DEF Fine, Filled, Asks, Several, Replies
<1>2. (d = 0 => Identity(ch, e)) /\ (d = 1 => Silent(e, ready))
  BY DEF Fine, Filled, Identity, Silent
<1>. QED BY <1>1, <1>2 DEF Fine, Filled

\* The drive that may ask is not asking, or nothing depends on it.
Calm(m, ch, p) == p => "DRQ" \notin m.ata[ch].Drive[0].Status
LEMMA FilledGood ==
    ASSUME NEW m, NEW p, Good(m, p), NEW ch \in Channel, Calm(m, ch, p),
           NEW D \in [Drive -> DRIVE], \A d \in Drive : Filled(D[d], m.ata[ch].Drive[d])
    PROVE  Good(BothAt(m, ch, D), p) /\ Calm(BothAt(m, ch, D), ch, p)
<1>1. \A d \in Drive : Fine(ch, d, m.ata[ch].Drive[d], m.bm[ch].DataReady, p)
  BY DEF Good
<1>2. /\ Filled(D[0], m.ata[ch].Drive[0]) /\ Filled(D[1], m.ata[ch].Drive[1])
      /\ m.ata[ch].Drive[0].Reset = m.ata[ch].Drive[1].Reset
  BY Places DEF Good, Pair
<1>3. ASSUME NEW d \in Drive PROVE Fine(ch, d, D[d], m.bm[ch].DataReady, p)
  <2>1. Fine(ch, d, m.ata[ch].Drive[d], m.bm[ch].DataReady, p)
    BY <1>1
  <2>2. p => "DRQ" \notin m.ata[ch].Drive[d].Status
    <3>1. CASE d = 0
      BY <3>1 DEF Calm
    <3>2. CASE d = 1
      BY <2>1, <3>2, SMTT(30) DEF Fine, Silent
    <3>. QED BY <3>1, <3>2, Places
  <2>. QED BY <2>1, <2>2, FilledFine
<1>4. D[0].Reset = D[1].Reset /\ D[0].Status = m.ata[ch].Drive[0].Status
  BY <1>2 DEF Filled
<1>5. p => "DRQ" \notin D[0].Status
  BY <1>4 DEF Calm
<1>6. Good(BothAt(m, ch, D), p)
  BY <1>3, <1>4, <1>5, BothGood
<1>7. BothAt(m, ch, D).ata[ch].Drive[0] = D[0]
  BY Places, BothAtFacts DEF Good
<1>. QED BY <1>5, <1>6, <1>7 DEF Calm

LEMMA TypedDrives ==
    ASSUME NEW m, NEW p, Good(m, p), NEW ch \in Channel
    PROVE  \A d \in Drive : m.ata[ch].Drive[d] \in DRIVE
BY DEF Good, Fine

LEMMA WriteFeaturesGood ==
    ASSUME NEW m, NEW p, Good(m, p), NEW ch \in Channel, Calm(m, ch, p),
           NEW v \in Feature
    PROVE  Good(WriteFeatures(m, ch, v), p) /\ Calm(WriteFeatures(m, ch, v), ch, p)
<1>. DEFINE D == [d \in Drive |-> [m.ata[ch].Drive[d] EXCEPT !.Features = v]]
<1>1. WriteFeatures(m, ch, v) = BothAt(m, ch, D)
  BY DEF WriteFeatures, PutBoth, BothAt
<1>2. \A d \in Drive : Filled(D[d], m.ata[ch].Drive[d])
  BY TypedDrives DEF Filled, DRIVE
<1>3. D \in [Drive -> DRIVE]
  BY <1>2 DEF Filled
<1>. HIDE DEF D
<1>. QED BY <1>1, <1>2, <1>3, FilledGood

LEMMA WriteSectorCountGood ==
    ASSUME NEW m, NEW p, Good(m, p), NEW ch \in Channel, Calm(m, ch, p),
           NEW v \in 0..(REGISTER - 1)
    PROVE  Good(WriteSectorCount(m, ch, v), p) /\ Calm(WriteSectorCount(m, ch, v), ch, p)
<1>. DEFINE D == [d \in Drive |-> [m.ata[ch].Drive[d] EXCEPT !.SectorCount = v]]
<1>1. WriteSectorCount(m, ch, v) = BothAt(m, ch, D)
  BY DEF WriteSectorCount, PutBoth, BothAt
<1>2. \A d \in Drive : Filled(D[d], m.ata[ch].Drive[d])
  BY TypedDrives DEF Filled, DRIVE
<1>3. D \in [Drive -> DRIVE]
  BY <1>2 DEF Filled
<1>. HIDE DEF D
<1>. QED BY <1>1, <1>2, <1>3, FilledGood

LEMMA WriteSectorNumberGood ==
    ASSUME NEW m, NEW p, Good(m, p), NEW ch \in Channel, Calm(m, ch, p),
           NEW v \in 0..(REGISTER - 1)
    PROVE  Good(WriteSectorNumber(m, ch, v), p) /\ Calm(WriteSectorNumber(m, ch, v), ch, p)
<1>. DEFINE D == [d \in Drive |-> [m.ata[ch].Drive[d] EXCEPT !.SectorNumber = v]]
<1>1. WriteSectorNumber(m, ch, v) = BothAt(m, ch, D)
  BY DEF WriteSectorNumber, PutBoth, BothAt
<1>2. \A d \in Drive : Filled(D[d], m.ata[ch].Drive[d])
  BY TypedDrives DEF Filled, DRIVE
<1>3. D \in [Drive -> DRIVE]
  BY <1>2 DEF Filled
<1>. HIDE DEF D
<1>. QED BY <1>1, <1>2, <1>3, FilledGood

LEMMA WriteCylinderLowGood ==
    ASSUME NEW m, NEW p, Good(m, p), NEW ch \in Channel, Calm(m, ch, p),
           NEW v \in 0..(REGISTER - 1)
    PROVE  Good(WriteCylinderLow(m, ch, v), p) /\ Calm(WriteCylinderLow(m, ch, v), ch, p)
<1>. DEFINE D == [d \in Drive |-> [m.ata[ch].Drive[d] EXCEPT !.CylinderNumber = @ - (@ % REGISTER) + v]]
<1>1. WriteCylinderLow(m, ch, v) = BothAt(m, ch, D)
  BY DEF WriteCylinderLow, PutBoth, BothAt
<1>2. \A d \in Drive : Filled(D[d], m.ata[ch].Drive[d])
  <2>1. ASSUME NEW d \in Drive PROVE Filled(D[d], m.ata[ch].Drive[d])
    <3>. DEFINE c == m.ata[ch].Drive[d]
                w == c.CylinderNumber - (c.CylinderNumber % REGISTER) + v
    <3>1. c \in DRIVE
      BY TypedDrives
    <3>2. D[d] = [c EXCEPT !.CylinderNumber = w]
      OBVIOUS
    <3>3. c.CylinderNumber \in 0..(REGISTER * REGISTER - 1) /\ REGISTER \in Nat \ {0}
      BY <3>1, Widths DEF DRIVE
    <3>4. w \in 0..(REGISTER * REGISTER - 1)
      BY <3>3, LowHalf, Zenon
    <3>. HIDE DEF D, c, w
    <3>5. Filled(D[d], c)
      BY <3>1, <3>2, <3>4 DEF Filled, DRIVE
    <3>. QED BY <3>5 DEF c
  <2>. QED BY <2>1
<1>3. D \in [Drive -> DRIVE]
  BY <1>2 DEF Filled
<1>. HIDE DEF D
<1>. QED BY <1>1, <1>2, <1>3, FilledGood

LEMMA WriteCylinderHighGood ==
    ASSUME NEW m, NEW p, Good(m, p), NEW ch \in Channel, Calm(m, ch, p),
           NEW v \in 0..(REGISTER - 1)
    PROVE  Good(WriteCylinderHigh(m, ch, v), p) /\ Calm(WriteCylinderHigh(m, ch, v), ch, p)
<1>. DEFINE D == [d \in Drive |-> [m.ata[ch].Drive[d] EXCEPT !.CylinderNumber = v * REGISTER + (@ % REGISTER)]]
<1>1. WriteCylinderHigh(m, ch, v) = BothAt(m, ch, D)
  BY DEF WriteCylinderHigh, PutBoth, BothAt
<1>2. \A d \in Drive : Filled(D[d], m.ata[ch].Drive[d])
  <2>1. ASSUME NEW d \in Drive PROVE Filled(D[d], m.ata[ch].Drive[d])
    <3>. DEFINE c == m.ata[ch].Drive[d]
                w == v * REGISTER + (c.CylinderNumber % REGISTER)
    <3>1. c \in DRIVE
      BY TypedDrives
    <3>2. D[d] = [c EXCEPT !.CylinderNumber = w]
      OBVIOUS
    <3>3. c.CylinderNumber \in 0..(REGISTER * REGISTER - 1) /\ REGISTER \in Nat \ {0}
      BY <3>1, Widths DEF DRIVE
    <3>4. w \in 0..(REGISTER * REGISTER - 1)
      BY <3>3, HighHalf, Zenon
    <3>. HIDE DEF D, c, w
    <3>5. Filled(D[d], c)
      BY <3>1, <3>2, <3>4 DEF Filled, DRIVE
    <3>. QED BY <3>5 DEF c
  <2>. QED BY <2>1
<1>3. D \in [Drive -> DRIVE]
  BY <1>2 DEF Filled
<1>. HIDE DEF D
<1>. QED BY <1>1, <1>2, <1>3, FilledGood

SelectAt(m, ch, d) == [m EXCEPT !.ata[ch].DriveSelect = d]
LEMMA SelectGood ==
    ASSUME NEW m, NEW p, Good(m, p), NEW ch \in Channel, NEW d \in Drive,
           d = 0 \/ Calm(m, ch, p)
    PROVE  /\ Good(SelectAt(m, ch, d), p)
           /\ SelectAt(m, ch, d).bm = m.bm
           /\ SelectAt(m, ch, d).exited = m.exited
           /\ Dnum(SelectAt(m, ch, d), ch) = d
           /\ \A x \in Channel : SelectAt(m, ch, d).ata[x].Drive = m.ata[x].Drive
<1>. DEFINE h == [m.ata[ch] EXCEPT !.DriveSelect = d]
            a == [m.ata EXCEPT ![ch] = h]
            n == [m EXCEPT !.ata = a]
<1>1. SelectAt(m, ch, d) = n
  BY DEF SelectAt
<1>2. m \in MACHINE /\ m.ata \in [Channel -> ATA_CHANNEL] /\ m.ata[ch] \in ATA_CHANNEL
  BY DEF Good, MACHINE
<1>3. h \in ATA_CHANNEL /\ h.DriveSelect = d /\ h.Drive = m.ata[ch].Drive
  BY <1>2 DEF ATA_CHANNEL
<1>. HIDE DEF h
<1>4. /\ a \in [Channel -> ATA_CHANNEL]
      /\ \A x \in Channel : a[x] = IF x = ch THEN h ELSE m.ata[x]
  BY <1>2, <1>3
<1>. HIDE DEF a
<1>5. n \in MACHINE /\ n.bm = m.bm /\ n.exited = m.exited /\ n.ata = a
  BY <1>2, <1>4 DEF MACHINE
<1>. HIDE DEF n
<1>6. \A x \in Channel : n.ata[x].Drive = m.ata[x].Drive
  BY <1>3, <1>4, <1>5
<1>7. ASSUME NEW x \in Channel PROVE Pair(n.ata[x], p)
  <2>1. Pair(m.ata[x], p)
    BY DEF Good
  <2>2. CASE x = ch
    BY <1>3, <1>4, <1>5, <2>1, <2>2 DEF Pair, Calm
  <2>3. CASE x # ch
    BY <1>4, <1>5, <2>1, <2>3
  <2>. QED BY <2>2, <2>3
<1>8. Good(n, p)
  BY <1>5, <1>6, <1>7 DEF Good
<1>9. Dnum(n, ch) = d
  BY <1>3, <1>4, <1>5 DEF Dnum
<1>. QED BY <1>1, <1>5, <1>6, <1>8, <1>9

LEMMA WriteDriveHeadGood ==
    ASSUME NEW m, NEW p, Good(m, p), NEW ch \in Channel, Calm(m, ch, p),
           NEW d \in Drive, NEW lba \in BOOLEAN, NEW head \in 0..(REGISTER - 1)
    PROVE  Good(WriteDriveHead(m, ch, d, lba, head), p)
<1>. DEFINE D == [y \in Drive |-> [m.ata[ch].Drive[y] EXCEPT !.Lba = lba, !.HeadNumber = head]]
            n == BothAt(m, ch, D)
<1>1. WriteDriveHead(m, ch, d, lba, head) = SelectAt(n, ch, d)
  BY DEF WriteDriveHead, PutBoth, BothAt, SelectAt
<1>2. \A y \in Drive : Filled(D[y], m.ata[ch].Drive[y])
  <2>1. ASSUME NEW y \in Drive PROVE Filled(D[y], m.ata[ch].Drive[y])
    <3>. DEFINE c == m.ata[ch].Drive[y]
    <3>1. c \in DRIVE
      BY TypedDrives
    <3>2. D[y] = [c EXCEPT !.Lba = lba, !.HeadNumber = head]
      OBVIOUS
    <3>. DEFINE f == [c EXCEPT !.HeadNumber = head]
                e == [f EXCEPT !.Lba = lba]
    <3>3. D[y] = e
      BY <3>1, <3>2, ZenonT(30) DEF DRIVE
    <3>. HIDE DEF D, c
    <3>4. Filled(f, c) /\ f \in DRIVE
      BY <3>1 DEF Filled, DRIVE
    <3>. HIDE DEF f
    <3>5. Filled(e, f)
      BY <3>4 DEF Filled, DRIVE
    <3>. HIDE DEF e
    <3>6. Filled(D[y], c)
      BY <3>3, <3>4, <3>5 DEF Filled
    <3>. QED BY <3>6 DEF c
  <2>. QED BY <2>1
<1>3. D \in [Drive -> DRIVE]
  BY <1>2, ZenonT(30) DEF Filled
<1>. HIDE DEF D
<1>4. Good(n, p) /\ Calm(n, ch, p)
  BY <1>2, <1>3, FilledGood
<1>. HIDE DEF n
<1>. QED BY <1>1, <1>4, SelectGood

\* A guest that leaves a drive which asks alone can tell; nothing is claimed of
\* the reply to one that does not.
LEMMA GoodWeaker ==
    ASSUME NEW m, NEW p, Good(m, p), NEW q, q => p
    PROVE  Good(m, q)
<1>1. ASSUME NEW ch \in Channel, NEW d \in Drive
      PROVE  Fine(ch, d, m.ata[ch].Drive[d], m.bm[ch].DataReady, q)
  BY DEF Good, Fine
<1>2. ASSUME NEW ch \in Channel PROVE Pair(m.ata[ch], q)
  BY DEF Good, Pair
<1>. QED BY <1>1, <1>2 DEF Good

LEMMA FillTaskFileGood ==
    ASSUME NEW m, Good(m, TRUE), NEW ch \in Channel, NEW t \in TaskFile, NEW q \in BOOLEAN,
           q => "DRQ" \notin Sel(m, ch).Status
    PROVE  Good(FillTaskFile(m, ch, t), q)
<1>. DEFINE f == WriteFeatures(m, ch, t.features)
            c == WriteSectorCount(f, ch, t.count)
            n == WriteSectorNumber(c, ch, t.number)
            l == WriteCylinderLow(n, ch, t.cylinder % REGISTER)
            h == WriteCylinderHigh(l, ch, t.cylinder \div REGISTER)
            r == WriteDriveHead(h, ch, t.drive, t.lba, t.head)
<1>1. Good(m, q)
  BY GoodWeaker
<1>2. Calm(m, ch, q)
  <2>1. Dnum(m, ch) \in Drive /\ Sel(m, ch) = m.ata[ch].Drive[Dnum(m, ch)]
        /\ Pair(m.ata[ch], TRUE)
    BY GoodAt
  <2>2. CASE Dnum(m, ch) = 0
    BY <2>1, <2>2 DEF Calm
  <2>3. CASE Dnum(m, ch) = 1
    BY <2>1, <2>3 DEF Calm, Pair, Dnum
  <2>. QED BY <2>1, <2>2, <2>3, Places
<1>3. /\ t.features \in Feature
      /\ t.count \in 0..(REGISTER - 1) /\ t.number \in 0..(REGISTER - 1)
      /\ t.cylinder \in 0..(REGISTER * REGISTER - 1) /\ t.head \in 0..(REGISTER - 1)
      /\ t.lba \in BOOLEAN /\ t.drive \in Drive
  BY DEF TaskFile
<1>4. /\ t.cylinder % REGISTER \in 0..(REGISTER - 1)
      /\ t.cylinder \div REGISTER \in 0..(REGISTER - 1)
  <2>1. t.cylinder \in Int /\ t.cylinder \in Nat /\ REGISTER \in Nat \ {0} /\ REGISTER \in Nat
        /\ t.cylinder < REGISTER * REGISTER
    BY <1>3, Widths
  <2>2. t.cylinder % REGISTER \in 0..(REGISTER - 1) /\ t.cylinder \div REGISTER \in Nat
    BY <2>1, DivMod, Zenon
  <2>3. t.cylinder \div REGISTER < REGISTER
    BY <2>1, DivBelow, Zenon
  <2>. QED BY <2>1, <2>2, <2>3
<1>5. FillTaskFile(m, ch, t) = r
  BY DEF FillTaskFile
<1>6. Good(f, q) /\ Calm(f, ch, q)
  BY <1>1, <1>2, <1>3, WriteFeaturesGood
<1>. HIDE DEF f
<1>7. Good(c, q) /\ Calm(c, ch, q)
  BY <1>3, <1>6, WriteSectorCountGood
<1>. HIDE DEF c
<1>8. Good(n, q) /\ Calm(n, ch, q)
  BY <1>3, <1>7, WriteSectorNumberGood
<1>. HIDE DEF n
<1>9. Good(l, q) /\ Calm(l, ch, q)
  BY <1>4, <1>8, WriteCylinderLowGood
<1>. HIDE DEF l
<1>10. Good(h, q) /\ Calm(h, ch, q)
  BY <1>4, <1>9, WriteCylinderHighGood
<1>. HIDE DEF h
<1>11. Good(r, q)
  BY <1>3, <1>10, WriteDriveHeadGood
<1>. HIDE DEF r
<1>. QED BY <1>5, <1>11

-----------------------------------------------------------------------------
(***************************************************************************)
(* The control and status registers.                                       *)
(***************************************************************************)

LEMMA BothTwice ==
    ASSUME NEW m \in MACHINE, NEW ch \in Channel, NEW D, NEW E
    PROVE  BothAt(BothAt(m, ch, D), ch, E) = BothAt(m, ch, E)
<1>. DEFINE h == [m.ata[ch] EXCEPT !.Drive = D]
            a == [m.ata EXCEPT ![ch] = h]
            n == [m EXCEPT !.ata = a]
            k == [m.ata[ch] EXCEPT !.Drive = E]
<1>1. m.ata \in [Channel -> ATA_CHANNEL] /\ m.ata[ch] \in ATA_CHANNEL
  BY DEF MACHINE
<1>2. [h EXCEPT !.Drive = E] = k
  BY <1>1 DEF ATA_CHANNEL
<1>3. a[ch] = h
  BY <1>1
<1>4. [a EXCEPT ![ch] = k] = [m.ata EXCEPT ![ch] = k]
  BY <1>1
<1>5. n.ata = a /\ \A x : [n EXCEPT !.ata = x] = [m EXCEPT !.ata = x]
  BY DEF MACHINE
<1>6. BothAt(m, ch, D) = n /\ BothAt(m, ch, E) = [m EXCEPT !.ata = [m.ata EXCEPT ![ch] = k]]
  BY DEF BothAt
<1>7. BothAt(n, ch, E) = [n EXCEPT !.ata = [n.ata EXCEPT ![ch] = [n.ata[ch] EXCEPT !.Drive = E]]]
  BY DEF BothAt
<1>. HIDE DEF h, a, n, k
<1>. QED BY <1>2, <1>3, <1>4, <1>5, <1>6, <1>7

LEMMA LowerGood ==
    ASSUME NEW m, NEW p, Good(m, p), NEW ch \in Channel
    PROVE  LET n == PicLowerIrq(m, ch)
           IN  /\ Good(n, p) /\ n.ata = m.ata /\ n.bm = m.bm /\ n.exited = m.exited
               /\ Dnum(n, ch) = Dnum(m, ch) /\ Sel(n, ch) = Sel(m, ch)
<1>. DEFINE n == PicLowerIrq(m, ch)
<1>1. n \in MACHINE /\ n.ata = m.ata /\ n.bm = m.bm /\ n.exited = m.exited
  BY DEF Good, MACHINE, PicLowerIrq
<1>. HIDE DEF n
<1>2. Good(n, p) /\ Dnum(n, ch) = Dnum(m, ch) /\ Sel(n, ch) = Sel(m, ch)
  BY <1>1, RestGood DEF Dnum, Sel
<1>. QED BY <1>1, <1>2 DEF n

\* What a write to the control register makes of a drive.
Controlled(c, reset, disable) == [c EXCEPT !.Reset = reset, !.DisableIrq = disable]
LEMMA ControlledFine ==
    ASSUME NEW ch \in Channel, NEW d \in Drive, NEW c, NEW ready, NEW p,
           Fine(ch, d, c, ready, p), NEW reset \in BOOLEAN, NEW disable \in BOOLEAN
    PROVE  LET e == Controlled(c, reset, disable)
               s == ResetStart(e)
               t == ResetEnd(e)
           IN  /\ e \in DRIVE /\ s \in DRIVE /\ t \in DRIVE
               /\ e.Reset = reset /\ s.Reset = reset /\ t.Reset = reset
               /\ e.ResetInProgress = c.ResetInProgress
               /\ e.Status = c.Status
               /\ "DRQ" \notin s.Status
               /\ c.ResetInProgress = reset => Fine(ch, d, e, ready, p)
               /\ reset => Fine(ch, d, s, ready, p)
               /\ ~reset => Fine(ch, d, t, ready, p)
               /\ "DRQ" \in t.Status <=> "DRQ" \in c.Status
               /\ t.CurrentCommand = c.CurrentCommand
<1>. DEFINE e == Controlled(c, reset, disable)
            s == ResetStart(e)
            t == ResetEnd(e)
<1>0. /\ c \in DRIVE /\ Asks(c) /\ (p => Replies(c)) /\ (d = 0 => Identity(ch, c))
      /\ (d = 1 => Silent(c, ready)) /\ (ch = 1 \/ d = 1 => c.NumberOfSectors = 0)
      /\ c.CurrentCommand \notin Alien(ch)
  BY DEF Fine
<1>1. /\ e \in DRIVE /\ e = [c EXCEPT !.Reset = e.Reset, !.DisableIrq = e.DisableIrq]
      /\ e.Reset = reset
  BY <1>0, ZenonT(30) DEF Controlled, DRIVE
<1>2. /\ e.Status = c.Status /\ e.CurrentCommand = c.CurrentCommand
      /\ e.BufferIndex = c.BufferIndex /\ e.BufferSize = c.BufferSize
      /\ e.MultipleSectors = c.MultipleSectors /\ e.NumberOfSectors = c.NumberOfSectors
      /\ e.IdentifySet = c.IdentifySet /\ e.DriveId = c.DriveId /\ e.Mode = c.Mode
      /\ e.SectorCount = c.SectorCount /\ e.CylinderNumber = c.CylinderNumber
      /\ e.DrqIndex = c.DrqIndex /\ e.DrqBytes = c.DrqBytes
      /\ e.TotalBytesRemaining = c.TotalBytesRemaining
      /\ e.ResetInProgress = c.ResetInProgress
  BY <1>0 DEF Controlled, DRIVE
<1>. HIDE DEF e
<1>3. /\ Asks(e) /\ (p => Replies(e)) /\ (d = 0 => Identity(ch, e))
      /\ (d = 1 => Silent(e, ready)) /\ (ch = 1 \/ d = 1 => e.NumberOfSectors = 0)
      /\ e.CurrentCommand \notin Alien(ch)
  BY <1>0, <1>2 DEF Asks, Several, Replies, Identity, Silent
<1>4. c.ResetInProgress = reset => Fine(ch, d, e, ready, p)
  BY <1>1, <1>2, <1>3 DEF Fine
<1>5. /\ s \in DRIVE /\ s.Reset = reset /\ s.ResetInProgress = TRUE
      /\ "DRQ" \notin s.Status /\ "ERR" \notin s.Status /\ s.CurrentCommand = NoCommand
      /\ s.IdentifySet = e.IdentifySet /\ s.DriveId = e.DriveId /\ s.Mode = e.Mode
      /\ s.NumberOfSectors = e.NumberOfSectors /\ s.MultipleSectors = 0
  <2>1. 0 \in 0..(REGISTER - 1)
    BY Widths
  <2>. QED BY <1>1, <2>1, ZenonT(30) DEF ResetStart, Turn, DRIVE, STATUS, NoCommand
<1>6. reset => Fine(ch, d, s, ready, p)
  <2>. HIDE DEF s
  <2>1. NoCommand \notin Alien(ch) \cup Multiples \cup Reads \cup Writes
    BY DEF NoCommand, Alien, Reads, Writes, Multiples
  <2>2. Several(s)
    BY <1>5, <2>1, Widths DEF Several
  <2>. QED BY <1>3, <1>5, <2>1, <2>2 DEF Fine, Asks, Replies, Identity, Silent
<1>7. /\ t \in DRIVE /\ t.Reset = reset /\ t.ResetInProgress = FALSE
      /\ ("DRQ" \in t.Status <=> "DRQ" \in e.Status) /\ ("ERR" \in t.Status <=> "ERR" \in e.Status)
  BY <1>1 DEF ResetEnd, Turn, DRIVE, STATUS
<1>8. /\ t.CurrentCommand = e.CurrentCommand
      /\ t.BufferIndex = e.BufferIndex /\ t.BufferSize = e.BufferSize
      /\ t.MultipleSectors = e.MultipleSectors /\ t.NumberOfSectors = e.NumberOfSectors
      /\ t.IdentifySet = e.IdentifySet /\ t.DriveId = e.DriveId /\ t.Mode = e.Mode
      /\ t.SectorCount = e.SectorCount /\ t.CylinderNumber = e.CylinderNumber
      /\ t.DrqIndex = e.DrqIndex /\ t.DrqBytes = e.DrqBytes
      /\ t.TotalBytesRemaining = e.TotalBytesRemaining
  BY <1>1 DEF ResetEnd, Turn, DRIVE
<1>9. ~reset => Fine(ch, d, t, ready, p)
  <2>. HIDE DEF t
  <2>1. /\ Asks(t) /\ (p => Replies(t)) /\ (d = 0 => Identity(ch, t))
        /\ (d = 1 => Silent(t, ready)) /\ (ch = 1 \/ d = 1 => t.NumberOfSectors = 0)
        /\ t.CurrentCommand \notin Alien(ch)
    BY <1>3, <1>7, <1>8 DEF Asks, Several, Replies, Identity, Silent
  <2>. QED BY <1>7, <2>1 DEF Fine
<1>. HIDE DEF s, t
<1>. QED BY <1>1, <1>2, <1>4, <1>5, <1>6, <1>7, <1>8, <1>9 DEF e, s, t

\* The signature: its sector count says that a packet is wanted.
Signed(c, ch, d) ==
    [c EXCEPT !.HeadNumber = 0, !.SectorCount = 1, !.SectorNumber = 1,
              !.CylinderNumber = CASE DriveType(ch, d) = "DISK" -> 0
                                   [] DriveType(ch, d) = "CDROM" -> REGISTER * REGISTER - 2
                                   [] DriveType(ch, d) = "NONE" -> REGISTER * REGISTER - 1]
LEMMA SignedFine ==
    ASSUME NEW ch \in Channel, NEW d \in Drive, NEW c, NEW ready, NEW p,
           Fine(ch, d, c, ready, p)
    PROVE  LET e == Signed(c, ch, d)
           IN  Fine(ch, d, e, ready, p) /\ e.Reset = c.Reset /\ e.Status = c.Status
               /\ e.CurrentCommand = c.CurrentCommand /\ e.SectorCount = 1
<1>. DEFINE cyl == CASE DriveType(ch, d) = "DISK" -> 0
                     [] DriveType(ch, d) = "CDROM" -> REGISTER * REGISTER - 2
                     [] DriveType(ch, d) = "NONE" -> REGISTER * REGISTER - 1
            e == [c EXCEPT !.HeadNumber = 0, !.SectorCount = 1, !.SectorNumber = 1,
                           !.CylinderNumber = cyl]
<1>0. /\ c \in DRIVE /\ Asks(c) /\ (d = 0 => Identity(ch, c))
      /\ (d = 1 => Silent(c, ready)) /\ (ch = 1 \/ d = 1 => c.NumberOfSectors = 0)
      /\ c.CurrentCommand \notin Alien(ch) /\ c.Reset = c.ResetInProgress
  BY DEF Fine
<1>1. cyl \in 0..(REGISTER * REGISTER - 1)
  <2>. DEFINE Q == REGISTER * REGISTER
  <2>1. Q \in Nat /\ Q > 2
    BY Widths
  <2>2. 0 \in 0..(Q - 1) /\ Q - 1 \in 0..(Q - 1) /\ Q - 2 \in 0..(Q - 1)
    <3>. HIDE DEF Q
    <3>. QED BY <2>1
  <2>3. cyl \in {0, Q - 1, Q - 2}
    BY DEF DriveType
  <2>. HIDE DEF cyl
  <2>4. cyl \in 0..(Q - 1)
    <3>. HIDE DEF Q
    <3>. QED BY <2>2, <2>3
  <2>. QED BY <2>4
<1>2. Signed(c, ch, d) = e
  BY DEF Signed
<1>. HIDE DEF cyl
<1>3. 0 \in 0..(REGISTER - 1) /\ 1 \in 0..(REGISTER - 1)
  BY Widths
<1>4. /\ e \in DRIVE
      /\ e.Status = c.Status /\ e.CurrentCommand = c.CurrentCommand
      /\ e.BufferIndex = c.BufferIndex /\ e.BufferSize = c.BufferSize
      /\ e.MultipleSectors = c.MultipleSectors /\ e.NumberOfSectors = c.NumberOfSectors
      /\ e.IdentifySet = c.IdentifySet /\ e.DriveId = c.DriveId /\ e.Mode = c.Mode
      /\ e.Reset = c.Reset /\ e.ResetInProgress = c.ResetInProgress
      /\ e.SectorCount = 1
  BY <1>0, <1>1, <1>3 DEF DRIVE
<1>. HIDE DEF e
<1>5. Asks(e) /\ Replies(e) /\ (d = 0 => Identity(ch, e)) /\ (d = 1 => Silent(e, ready))
  <2>1. 1 % 4 = 1
    OBVIOUS
  <2>. QED BY <1>0, <1>4, <2>1 DEF Asks, Several, Replies, Identity, Silent
<1>6. Fine(ch, d, e, ready, p)
  BY <1>0, <1>4, <1>5 DEF Fine
<1>. QED BY <1>2, <1>4, <1>6

LEMMA SignatureGood ==
    ASSUME NEW m, NEW p, Good(m, p), NEW ch \in Channel, NEW d \in Drive
    PROVE  LET n == HardDiskSetSignature(m, ch, d)
           IN  /\ Good(n, p) /\ n.bm = m.bm /\ n.exited = m.exited
               /\ Dnum(n, ch) = IF DriveType(ch, d) = "DISK" THEN 0 ELSE Dnum(m, ch)
               /\ n.ata[ch].Drive[d] = Signed(m.ata[ch].Drive[d], ch, d)
<1>. DEFINE c == m.ata[ch].Drive[d]
            e == Signed(c, ch, d)
            k == PutAt(m, ch, d, e)
            s == IF DriveType(ch, d) = "DISK" THEN 0 ELSE m.ata[ch].DriveSelect
            n == SelectAt(k, ch, s)
<1>1. HardDiskSetSignature(m, ch, d) = n
  <2>1. HardDiskSetSignature(m, ch, d) =
            [m EXCEPT !.ata[ch].Drive[d] = e,
                      !.ata[ch].DriveSelect = IF DriveType(ch, d) = "DISK" THEN 0 ELSE @]
    BY Zenon DEF HardDiskSetSignature, Signed
  <2>. HIDE DEF e
  <2>. QED BY <2>1 DEF PutAt, SelectAt
<1>2. m \in MACHINE /\ Fine(ch, d, c, m.bm[ch].DataReady, p) /\ Pair(m.ata[ch], p)
  BY DEF Good
<1>3. Fine(ch, d, e, m.bm[ch].DataReady, p) /\ e.Reset = c.Reset /\ e.Status = c.Status
  BY <1>2, SignedFine
<1>4. e \in DRIVE
  BY <1>3 DEF Fine
<1>. HIDE DEF e
<1>5. p /\ d = 0 /\ m.ata[ch].DriveSelect = 1 => "DRQ" \notin e.Status
  BY <1>2, <1>3 DEF Pair
<1>6. Good(k, p)
  BY <1>2, <1>3, <1>5, PutAtGood
<1>7. /\ k.bm = m.bm /\ k.exited = m.exited
      /\ k.ata[ch].DriveSelect = m.ata[ch].DriveSelect
      /\ k.ata[ch].Drive[d] = e
  BY <1>2, <1>4, PutAtFacts
<1>. HIDE DEF k
<1>8. k.ata[ch].DriveSelect \in Drive /\ Pair(k.ata[ch], p) /\ 0 \in Drive
  BY <1>6, GoodAt, Places DEF Dnum
<1>9. s \in Drive /\ (s = 0 \/ Calm(k, ch, p))
      /\ s = IF DriveType(ch, d) = "DISK" THEN 0 ELSE Dnum(m, ch)
  <2>1. s \in Drive /\ s = IF DriveType(ch, d) = "DISK" THEN 0 ELSE Dnum(m, ch)
    BY <1>7, <1>8 DEF Dnum
  <2>2. s = 0 \/ Calm(k, ch, p)
    <3>1. CASE DriveType(ch, d) = "DISK"
      BY <3>1
    <3>2. CASE DriveType(ch, d) # "DISK"
      <4>1. k.ata[ch].DriveSelect = 1 => Calm(k, ch, p)
        BY <1>8 DEF Pair, Calm
      <4>. QED BY <1>7, <1>8, <3>2, <4>1, Places
    <3>. QED BY <3>1, <3>2
  <2>. QED BY <2>1, <2>2
<1>. HIDE DEF s
<1>10. /\ Good(n, p) /\ n.bm = k.bm /\ n.exited = k.exited /\ Dnum(n, ch) = s
       /\ n.ata[ch].Drive = k.ata[ch].Drive
  BY <1>6, <1>9, SelectGood
<1>. HIDE DEF n
<1>. QED BY <1>1, <1>7, <1>9, <1>10 DEF e

LEMMA WriteControlGood ==
    ASSUME NEW m, NEW p, Good(m, p), NEW ch \in Channel,
           NEW reset \in BOOLEAN, NEW disable \in BOOLEAN
    PROVE  LET n == WriteControl(m, ch, reset, disable)
           IN  /\ Good(n, p) /\ n.bm = m.bm /\ n.exited = m.exited
               /\ reset = Sel(m, ch).Reset =>
                      /\ Dnum(n, ch) = Dnum(m, ch)
                      /\ n.ata[ch].Drive[0] = Controlled(m.ata[ch].Drive[0], reset, disable)
<1>. DEFINE D == [d \in Drive |-> Controlled(m.ata[ch].Drive[d], reset, disable)]
            S == [d \in Drive |-> ResetStart(Controlled(m.ata[ch].Drive[d], reset, disable))]
            T == [d \in Drive |-> ResetEnd(Controlled(m.ata[ch].Drive[d], reset, disable))]
            n == BothAt(m, ch, D)
            s == BothAt(m, ch, S)
            t == BothAt(m, ch, T)
            c == Sel(m, ch)
<1>0. /\ m \in MACHINE /\ Dnum(m, ch) \in Drive /\ c = m.ata[ch].Drive[Dnum(m, ch)]
      /\ Pair(m.ata[ch], p) /\ 0 \in Drive /\ 1 \in Drive
      /\ \A d \in Drive : Fine(ch, d, m.ata[ch].Drive[d], m.bm[ch].DataReady, p)
  BY GoodAt, Places DEF Good
<1>1. ASSUME NEW d \in Drive
      PROVE  /\ D[d] \in DRIVE /\ S[d] \in DRIVE /\ T[d] \in DRIVE
             /\ D[d].Reset = reset /\ S[d].Reset = reset /\ T[d].Reset = reset
             /\ D[d].Status = m.ata[ch].Drive[d].Status
             /\ "DRQ" \notin S[d].Status
             /\ "DRQ" \in T[d].Status <=> "DRQ" \in m.ata[ch].Drive[d].Status
             /\ m.ata[ch].Drive[d].ResetInProgress = reset
                    => Fine(ch, d, D[d], m.bm[ch].DataReady, p)
             /\ reset => Fine(ch, d, S[d], m.bm[ch].DataReady, p)
             /\ ~reset => Fine(ch, d, T[d], m.bm[ch].DataReady, p)
  <2>1. Fine(ch, d, m.ata[ch].Drive[d], m.bm[ch].DataReady, p)
    BY <1>0
  <2>. QED BY <2>1, ControlledFine
<1>2. D \in [Drive -> DRIVE] /\ S \in [Drive -> DRIVE] /\ T \in [Drive -> DRIVE]
  BY <1>1
<1>3. \A d \in Drive : m.ata[ch].Drive[d].Reset = c.Reset
                       /\ m.ata[ch].Drive[d].ResetInProgress = c.Reset
                       /\ c.ResetInProgress = c.Reset /\ c.Reset \in BOOLEAN
  <2>1. \A d \in Drive : d = 0 \/ d = 1
    BY Places
  <2>. QED BY <1>0, <2>1, SMTT(30) DEF Fine, Pair, DRIVE
<1>4. PutBoth(m, ch, LAMBDA x : [x EXCEPT !.Reset = reset, !.DisableIrq = disable]) = n
  BY DEF PutBoth, BothAt, Controlled
<1>5. \A d \in Drive : n.ata[ch].Drive[d] = D[d]
  <2>. HIDE DEF D
  <2>. QED BY <1>0, <1>2, BothAtFacts, SMTT(30)
<1>6. PutBoth(n, ch, ResetStart) = s
  <2>. DEFINE S2 == [d \in Drive |-> ResetStart(n.ata[ch].Drive[d])]
  <2>1. PutBoth(n, ch, ResetStart) = BothAt(n, ch, S2)
    <3>. HIDE DEF n
    <3>. QED BY DEF PutBoth, BothAt
  <2>2. S2 = S
    BY <1>5
  <2>3. BothAt(n, ch, S) = s
    <3>. HIDE DEF S, D
    <3>. QED BY <1>0, BothTwice
  <2>. QED BY <2>1, <2>2, <2>3
<1>7. PutBoth(n, ch, ResetEnd) = t
  <2>. DEFINE S2 == [d \in Drive |-> ResetEnd(n.ata[ch].Drive[d])]
  <2>1. PutBoth(n, ch, ResetEnd) = BothAt(n, ch, S2)
    <3>. HIDE DEF n
    <3>. QED BY DEF PutBoth, BothAt
  <2>2. S2 = T
    BY <1>5
  <2>3. BothAt(n, ch, T) = t
    <3>. HIDE DEF T, D
    <3>. QED BY <1>0, BothTwice
  <2>. QED BY <2>1, <2>2, <2>3
<1>8. WriteControl(m, ch, reset, disable) =
          IF ~c.Reset /\ reset THEN PicLowerIrq(s, ch)
          ELSE IF c.ResetInProgress /\ ~reset THEN HardDiskSetSignature(t, ch, Dnum(m, ch))
          ELSE n
  BY <1>4, <1>6, <1>7 DEF WriteControl
<1>9. /\ D[0] = Controlled(m.ata[ch].Drive[0], reset, disable)
  BY <1>0
<1>. HIDE DEF D, S, T, c
<1>10. CASE ~c.Reset /\ reset
  <2>1. Good(s, p)
    BY <1>0, <1>1, <1>2, <1>10, BothGood
  <2>2. s.bm = m.bm /\ s.exited = m.exited
    BY <1>0, <1>2, BothAtFacts
  <2>. HIDE DEF s
  <2>3. Good(PicLowerIrq(s, ch), p) /\ PicLowerIrq(s, ch).bm = s.bm
        /\ PicLowerIrq(s, ch).exited = s.exited
    BY <2>1, LowerGood
  <2>. QED BY <1>8, <1>10, <2>2, <2>3 DEF c
<1>11. CASE c.Reset /\ ~reset
  <2>1. p /\ m.ata[ch].DriveSelect = 1 => "DRQ" \notin T[0].Status
    BY <1>0, <1>1 DEF Pair
  <2>2. Good(t, p)
    BY <1>0, <1>1, <1>2, <1>11, <2>1, BothGood
  <2>3. t.bm = m.bm /\ t.exited = m.exited
    BY <1>0, <1>2, BothAtFacts
  <2>. HIDE DEF t
  <2>. DEFINE k == HardDiskSetSignature(t, ch, Dnum(m, ch))
  <2>4. Good(k, p) /\ k.bm = t.bm /\ k.exited = t.exited
    BY <1>0, <2>2, SignatureGood
  <2>. HIDE DEF k
  <2>5. WriteControl(m, ch, reset, disable) = k
    BY <1>0, <1>3, <1>8, <1>11 DEF k
  <2>. QED BY <1>11, <2>3, <2>4, <2>5 DEF c
<1>12. CASE reset = c.Reset
  <2>1. p /\ m.ata[ch].DriveSelect = 1 => "DRQ" \notin D[0].Status
    BY <1>0, <1>1 DEF Pair
  <2>2. \A d \in Drive : Fine(ch, d, D[d], m.bm[ch].DataReady, p)
    BY <1>1, <1>3, <1>12
  <2>3. Good(n, p)
    BY <1>0, <1>1, <1>2, <2>1, <2>2, BothGood
  <2>4. n.bm = m.bm /\ n.exited = m.exited /\ n.ata[ch].DriveSelect = m.ata[ch].DriveSelect
    BY <1>0, <1>2, BothAtFacts
  <2>5. n.ata[ch].Drive[0] = D[0]
    BY <1>0, <1>5
  <2>. HIDE DEF n
  <2>6. WriteControl(m, ch, reset, disable) = n
    BY <1>0, <1>3, <1>8, <1>12
  <2>. QED BY <1>9, <2>3, <2>4, <2>5, <2>6 DEF Dnum
<1>. QED BY <1>0, <1>3, <1>10, <1>11, <1>12

LEMMA ReadStatusGood ==
    ASSUME NEW m, NEW p, Good(m, p), NEW ch \in Channel
    PROVE  Good(ReadStatus(m, ch), p) /\ ReadStatus(m, ch).ata = m.ata
           /\ ReadStatus(m, ch).bm = m.bm
BY LowerGood DEF ReadStatus

-----------------------------------------------------------------------------
(***************************************************************************)
(* Commands.  They reach the first drive of a channel.                     *)
(***************************************************************************)

LEMMA PutTwice ==
    ASSUME NEW m \in MACHINE, NEW ch \in Channel, NEW c, NEW e
    PROVE  Put(Put(m, ch, c), ch, e) = Put(m, ch, e)
<1>. DEFINE d == Dnum(m, ch)
            u == [m.ata[ch].Drive EXCEPT ![d] = c]
            v == [m.ata[ch].Drive EXCEPT ![d] = e]
            h == [m.ata[ch] EXCEPT !.Drive = u]
            k == [m.ata[ch] EXCEPT !.Drive = v]
            a == [m.ata EXCEPT ![ch] = h]
            n == [m EXCEPT !.ata = a]
<1>1. /\ m.ata \in [Channel -> ATA_CHANNEL] /\ m.ata[ch] \in ATA_CHANNEL
      /\ m.ata[ch].Drive \in [Drive -> DRIVE] /\ d \in Drive
  BY DEF MACHINE, ATA_CHANNEL, Dnum
<1>2. [u EXCEPT ![d] = e] = v
  BY <1>1
<1>3. h.Drive = u /\ h.DriveSelect = m.ata[ch].DriveSelect /\ [h EXCEPT !.Drive = v] = k
  BY <1>1 DEF ATA_CHANNEL
<1>4. a[ch] = h /\ [a EXCEPT ![ch] = k] = [m.ata EXCEPT ![ch] = k]
  BY <1>1
<1>5. n.ata = a /\ \A x : [n EXCEPT !.ata = x] = [m EXCEPT !.ata = x]
  BY DEF MACHINE
<1>6. Put(m, ch, c) = n /\ Put(m, ch, e) = [m EXCEPT !.ata = [m.ata EXCEPT ![ch] = k]]
  BY DEF Put
<1>7. Put(n, ch, e) = [n EXCEPT !.ata = [n.ata EXCEPT ![ch] =
          [n.ata[ch] EXCEPT !.Drive = [n.ata[ch].Drive EXCEPT ![Dnum(n, ch)] = e]]]]
  BY DEF Put
<1>8. Dnum(n, ch) = d
  BY <1>3, <1>4, <1>5 DEF Dnum
<1>. HIDE DEF u, v, h, k, a, n, d
<1>. QED BY <1>2, <1>3, <1>4, <1>5, <1>6, <1>7, <1>8

\* What most commands leave alone.
Steady(e, c) ==
    /\ e \in DRIVE
    /\ e.Reset = c.Reset /\ e.ResetInProgress = c.ResetInProgress
    /\ e.Mode = c.Mode /\ e.DriveId = c.DriveId /\ e.IdentifySet = c.IdentifySet
    /\ e.MultipleSectors = c.MultipleSectors
LEMMA DiskFine ==
    ASSUME NEW c, NEW ready, NEW p, Fine(0, 0, c, ready, p), NEW e, Steady(e, c),
           Asks(e), e.CurrentCommand # "ATAPI_PACKET"
    PROVE  Fine(0, 0, e, ready, p) /\ e.Reset = c.Reset
BY DEF Fine, Steady, Replies, Identity, Alien
LEMMA StopFine ==
    ASSUME NEW ch \in Channel, NEW c, NEW ready, NEW p, Fine(ch, 0, c, ready, p),
           NEW e, Steady(e, c), "DRQ" \notin e.Status, Several(e),
           e.NumberOfSectors = c.NumberOfSectors \/ ch = 0,
           e.CurrentCommand = c.CurrentCommand \/ e.CurrentCommand \notin Alien(ch)
    PROVE  Fine(ch, 0, e, ready, p) /\ e.Reset = c.Reset
BY DEF Fine, Steady, Asks, Several, Replies, Identity

LEMMA SeveralKept ==
    ASSUME NEW ch, NEW d, NEW c, NEW ready, NEW p, Fine(ch, d, c, ready, p), NEW e,
           e.CurrentCommand = c.CurrentCommand, e.MultipleSectors = c.MultipleSectors,
           e.BufferSize = c.BufferSize \/ e.CurrentCommand \notin Reads \cup Writes
    PROVE  Several(e)
BY DEF Fine, Asks, Several

LEMMA AbortedSteady ==
    ASSUME NEW c \in DRIVE
    PROVE  LET e == Aborted(c)
           IN  /\ Steady(e, c) /\ "DRQ" \notin e.Status
               /\ e.NumberOfSectors = c.NumberOfSectors /\ e.CurrentCommand = NoCommand
<1>. DEFINE e == Aborted(c)
<1>1. /\ e \in DRIVE /\ e.Reset = c.Reset /\ e.ResetInProgress = c.ResetInProgress
      /\ e.Mode = c.Mode /\ e.DriveId = c.DriveId /\ e.IdentifySet = c.IdentifySet
      /\ e.MultipleSectors = c.MultipleSectors
      /\ "DRQ" \notin e.Status /\ e.NumberOfSectors = c.NumberOfSectors
      /\ e.CurrentCommand = NoCommand
  BY DEF Aborted, Turn, DRIVE, STATUS
<1>. HIDE DEF e
<1>. QED BY <1>1 DEF Steady, e

\* A drive that is put in its place and aborted.
LEMMA PutAbortGood ==
    ASSUME NEW m, NEW p, Good(m, p), NEW ch \in Channel, Dnum(m, ch) = 0,
           NEW s, Steady(s, Sel(m, ch)),
           s.NumberOfSectors = Sel(m, ch).NumberOfSectors \/ ch = 0
    PROVE  LET n == HardDiskCommandAborted(Put(m, ch, s), ch)
           IN  /\ Good(n, p) /\ Dnum(n, ch) = 0
               /\ n.ata[ch].Drive[0].CurrentCommand = NoCommand
<1>. DEFINE c == Sel(m, ch)
            e == Aborted(s)
            k == Put(m, ch, s)
<1>1. m \in MACHINE /\ c \in DRIVE /\ Fine(ch, 0, c, m.bm[ch].DataReady, p) /\ 0 \in Drive
  BY GoodAt, Places
<1>2. s \in DRIVE
  BY DEF Steady
<1>3. Put(m, ch, s) = PutAt(m, ch, 0, s)
  BY PutIsPutAt
<1>4. Sel(k, ch) = s
  <2>1. k.ata[ch].DriveSelect = m.ata[ch].DriveSelect /\ k.ata[ch].Drive[0] = s
    BY <1>1, <1>2, <1>3, PutAtFacts
  <2>. QED BY <2>1 DEF Sel, Dnum
<1>5. HardDiskCommandAborted(k, ch) = HardDiskRaiseInterrupt(Put(k, ch, Aborted(Sel(k, ch))), ch)
  BY DEF HardDiskCommandAborted, Aborted
<1>6. HardDiskCommandAborted(k, ch) = Done(m, ch, e)
  BY <1>1, <1>4, <1>5, PutTwice DEF Done
<1>7. Steady(e, s) /\ "DRQ" \notin e.Status /\ e.NumberOfSectors = s.NumberOfSectors
      /\ e.CurrentCommand = NoCommand
  BY <1>2, AbortedSteady
<1>. HIDE DEF e, k, c
<1>8. NoCommand \notin Alien(ch) \cup Multiples \cup Reads \cup Writes
  BY DEF NoCommand, Alien, Reads, Writes, Multiples
<1>9. Fine(ch, 0, e, m.bm[ch].DataReady, p) /\ e.Reset = c.Reset
  <2>1. Steady(e, c) /\ (e.NumberOfSectors = c.NumberOfSectors \/ ch = 0)
    BY <1>7 DEF Steady, c
  <2>2. Several(e)
    BY <1>1, <1>7, <1>8, <2>1 DEF Fine, Asks, Several, Steady
  <2>. QED BY <1>1, <1>7, <1>8, <2>1, <2>2, StopFine
<1>10. Good(Done(m, ch, e), p) /\ Dnum(Done(m, ch, e), ch) = 0 /\ Sel(Done(m, ch, e), ch) = e
  BY <1>9, DoneGood DEF c
<1>11. Done(m, ch, e).ata[ch].Drive[0] = e
  BY <1>10 DEF Sel
<1>. QED BY <1>6, <1>7, <1>10, <1>11 DEF k

\* The number of sectors a command asks for.
LEMMA TransformFacts ==
    ASSUME NEW c \in DRIVE, NEW lba48 \in BOOLEAN
    PROVE  LET t == HardDiskLba48Transform(c, lba48)
           IN  /\ Steady(t, c) /\ t.NumberOfSectors \in 1..(DWORD - 1)
               /\ t.Status = c.Status /\ t.CurrentCommand = c.CurrentCommand
               /\ t.BufferSize = c.BufferSize /\ t.BufferIndex = c.BufferIndex
               /\ t.MultipleSectors = c.MultipleSectors
               /\ t.Lba = c.Lba /\ t.Lba48 = lba48
               /\ t.CylinderNumber = c.CylinderNumber /\ t.HeadNumber = c.HeadNumber
               /\ t.SectorNumber = c.SectorNumber
<1>. DEFINE n == IF c.SectorCount # 0 THEN c.SectorCount
                 ELSE IF lba48 THEN REGISTER * REGISTER ELSE REGISTER
            t == [c EXCEPT !.Lba48 = lba48, !.NumberOfSectors = n]
<1>1. n \in 1..(DWORD - 1)
  <2>. DEFINE Q == REGISTER * REGISTER
  <2>1. c.SectorCount \in 0..(REGISTER - 1) /\ REGISTER \in Nat \ {0} /\ DWORD \in Nat
        /\ Q \in Nat \ {0} /\ REGISTER < Q /\ Q < DWORD
    BY Widths DEF DRIVE
  <2>2. n = IF c.SectorCount # 0 THEN c.SectorCount ELSE IF lba48 THEN Q ELSE REGISTER
    OBVIOUS
  <2>. HIDE DEF Q, n
  <2>. QED BY <2>1, <2>2
<1>2. HardDiskLba48Transform(c, lba48) = t
  BY DEF HardDiskLba48Transform
<1>. HIDE DEF n
<1>3. n \in 0..(DWORD - 1)
  BY <1>1
<1>4. t \in DRIVE
  <2>. DEFINE u == [c EXCEPT !.NumberOfSectors = n]
  <2>1. u \in DRIVE
    BY <1>3 DEF DRIVE
  <2>2. t = [u EXCEPT !.Lba48 = lba48]
    BY DEF DRIVE
  <2>. HIDE DEF u
  <2>. QED BY <2>1, <2>2 DEF DRIVE
<1>5. /\ t.NumberOfSectors = n /\ t.Lba48 = lba48
      /\ t.Status = c.Status /\ t.CurrentCommand = c.CurrentCommand
      /\ t.BufferSize = c.BufferSize /\ t.BufferIndex = c.BufferIndex
      /\ t.MultipleSectors = c.MultipleSectors /\ t.Lba = c.Lba
      /\ t.CylinderNumber = c.CylinderNumber /\ t.HeadNumber = c.HeadNumber
      /\ t.SectorNumber = c.SectorNumber
      /\ t.Reset = c.Reset /\ t.ResetInProgress = c.ResetInProgress
      /\ t.Mode = c.Mode /\ t.DriveId = c.DriveId /\ t.IdentifySet = c.IdentifySet
  BY DEF DRIVE
<1>. HIDE DEF t
<1>. QED BY <1>1, <1>2, <1>4, <1>5 DEF Steady

\* The blocks of a transfer.
Blocks(c, cmd) ==
    IF cmd \in Multiples THEN Minimum(c.NumberOfSectors, c.MultipleSectors) ELSE 1
LEMMA BlockSizeFacts ==
    ASSUME NEW c \in DRIVE, NEW cmd
    PROVE  /\ BlockSize(c, cmd) = HARDDISK_SECTOR_SIZE * Blocks(c, cmd)
           /\ BlockSize(c, cmd) \in Nat
           /\ (BlockSize(c, cmd) + HARDDISK_SECTOR_SIZE - 1) \div HARDDISK_SECTOR_SIZE
                  = Blocks(c, cmd)
           /\ c.NumberOfSectors # 0 /\ (cmd \in Multiples => c.MultipleSectors > 0) =>
                  /\ BlockSize(c, cmd) > 0
                  /\ Blocks(c, cmd) \in 1..c.NumberOfSectors
           /\ cmd \notin Multiples => BlockSize(c, cmd) = HARDDISK_SECTOR_SIZE
           /\ c.MultipleSectors <= MAX_MULTIPLE_SECTORS =>
                  BlockSize(c, cmd) <= BufferTotalSize
<1>. DEFINE k == Blocks(c, cmd)
            S == HARDDISK_SECTOR_SIZE
<1>1. c.NumberOfSectors \in Nat /\ c.MultipleSectors \in Nat /\ S \in Nat \ {0}
  BY Widths DEF DRIVE
<1>2. k \in Nat /\ (cmd \notin Multiples => k = 1)
      /\ (c.NumberOfSectors # 0 /\ (cmd \in Multiples => c.MultipleSectors > 0)
            => k \in 1..c.NumberOfSectors)
      /\ (c.MultipleSectors <= MAX_MULTIPLE_SECTORS => k <= MAX_MULTIPLE_SECTORS)
  BY <1>1, Widths DEF Blocks, Minimum
<1>3. BlockSize(c, cmd) = S * k
  BY DEF BlockSize, Blocks
<1>. HIDE DEF k, S
<1>4. S * k \in Nat /\ (k > 0 => S * k > 0) /\ (k = 1 => S * k = S)
  BY <1>1, <1>2
<1>5. (S * k + S - 1) \div S = k
  BY <1>1, <1>2, BlocksOf
<1>6. c.NumberOfSectors # 0 /\ (cmd \in Multiples => c.MultipleSectors > 0)
          => k \in 1..c.NumberOfSectors /\ S * k > 0
  BY <1>1, <1>2, <1>4
<1>. DEFINE B == BlockSize(c, cmd)
<1>7. B = S * k /\ B \in Nat /\ (B + S - 1) \div S = k
  BY <1>3, <1>4, <1>5
<1>8. /\ c.NumberOfSectors # 0 /\ (cmd \in Multiples => c.MultipleSectors > 0) =>
             B > 0 /\ k \in 1..c.NumberOfSectors
      /\ cmd \notin Multiples => B = S
  BY <1>2, <1>3, <1>4, <1>6
<1>9. c.MultipleSectors <= MAX_MULTIPLE_SECTORS => B <= BufferTotalSize
  <2>1. SUFFICES ASSUME k <= MAX_MULTIPLE_SECTORS PROVE S * k <= MAX_MULTIPLE_SECTORS * S
    BY <1>2, <1>3 DEF BufferTotalSize, S
  <2>2. MAX_MULTIPLE_SECTORS \in Nat
    BY Widths
  <2>3. PICK r \in Nat : MAX_MULTIPLE_SECTORS = k + r
    <3>1. MAX_MULTIPLE_SECTORS - k \in Nat /\ MAX_MULTIPLE_SECTORS = k + (MAX_MULTIPLE_SECTORS - k)
      BY <1>2, <2>1, <2>2
    <3>. QED BY <3>1
  <2>4. S * r \in Nat /\ (k + r) * S = S * k + S * r
    BY <1>1, <1>2
  <2>. QED BY <1>4, <2>3, <2>4
<1>. QED BY <1>7, <1>8, <1>9, Zenon DEF k, S

\* Two drives at the same address.
Here(e, c) ==
    /\ e.Lba = c.Lba /\ e.Lba48 = c.Lba48
    /\ e.CylinderNumber = c.CylinderNumber /\ e.HeadNumber = c.HeadNumber
    /\ e.SectorNumber = c.SectorNumber
LEMMA SameAddress ==
    ASSUME NEW e, NEW c, Here(e, c)
    PROVE  HardDiskCalculateLogicalAddress(e) = HardDiskCalculateLogicalAddress(c)
<1>1. LbaOf(e) = LbaOf(c) /\ ChsOf(e) = ChsOf(c)
  BY Zenon DEF Here, LbaOf, ChsOf
<1>. QED BY <1>1, Zenon DEF Here, HardDiskCalculateLogicalAddress

\* What a transfer depends on but for the status and the command.
Sizes(e, c) ==
    /\ e.NumberOfSectors = c.NumberOfSectors /\ e.MultipleSectors = c.MultipleSectors
    /\ e.BufferSize = c.BufferSize
LEMMA TurnFacts ==
    ASSUME NEW c \in DRIVE, NEW off, NEW on \in SUBSET STATUS
    PROVE  LET e == Turn(c, off, on)
           IN  /\ Steady(e, c) /\ Sizes(e, c) /\ Here(e, c)
               /\ e.Status = (c.Status \ off) \cup on
               /\ e.CurrentCommand = c.CurrentCommand /\ e.BufferIndex = c.BufferIndex
               /\ e.SectorCount = c.SectorCount /\ e.DrqIndex = c.DrqIndex
               /\ e.DrqBytes = c.DrqBytes /\ e.Features = c.Features
               /\ e.TotalBytesRemaining = c.TotalBytesRemaining
<1>. DEFINE e == Turn(c, off, on)
<1>1. e \in DRIVE
  BY DEF Turn, DRIVE
<1>2. /\ e.Reset = c.Reset /\ e.ResetInProgress = c.ResetInProgress
      /\ e.Mode = c.Mode /\ e.DriveId = c.DriveId /\ e.IdentifySet = c.IdentifySet
      /\ e.NumberOfSectors = c.NumberOfSectors /\ e.MultipleSectors = c.MultipleSectors
      /\ e.BufferSize = c.BufferSize
      /\ e.Status = (c.Status \ off) \cup on
      /\ e.CurrentCommand = c.CurrentCommand /\ e.BufferIndex = c.BufferIndex
  BY DEF Turn, DRIVE
<1>3. /\ e.Lba = c.Lba /\ e.Lba48 = c.Lba48
      /\ e.CylinderNumber = c.CylinderNumber /\ e.HeadNumber = c.HeadNumber
      /\ e.SectorNumber = c.SectorNumber
      /\ e.SectorCount = c.SectorCount /\ e.DrqIndex = c.DrqIndex
      /\ e.DrqBytes = c.DrqBytes /\ e.Features = c.Features
      /\ e.TotalBytesRemaining = c.TotalBytesRemaining
  BY DEF Turn, DRIVE
<1>. HIDE DEF e
<1>. QED BY <1>1, <1>2, <1>3 DEF Steady, Sizes, Here, e

\* A command that starts to move data.
Started(c, off, on, cmd) ==
    [Turn(c, off, on) EXCEPT !.CurrentCommand = cmd, !.BufferIndex = 0]
LEMMA StartedFacts ==
    ASSUME NEW c \in DRIVE, NEW off, NEW on \in SUBSET STATUS, NEW cmd \in Commands
    PROVE  LET e == Started(c, off, on, cmd)
           IN  /\ Steady(e, c) /\ Sizes(e, c) /\ Here(e, c)
               /\ e.Status = (c.Status \ off) \cup on
               /\ e.CurrentCommand = cmd /\ e.BufferIndex = 0
<1>. DEFINE f == Turn(c, off, on)
            e == [f EXCEPT !.CurrentCommand = cmd, !.BufferIndex = 0]
<1>1. Steady(f, c) /\ Sizes(f, c) /\ Here(f, c) /\ f.Status = (c.Status \ off) \cup on
  BY TurnFacts
<1>2. f \in DRIVE
  BY <1>1 DEF Steady
<1>. HIDE DEF f
<1>3. e \in DRIVE
  BY <1>2 DEF DRIVE
<1>4. /\ e.Reset = f.Reset /\ e.ResetInProgress = f.ResetInProgress
      /\ e.Mode = f.Mode /\ e.DriveId = f.DriveId /\ e.IdentifySet = f.IdentifySet
      /\ e.NumberOfSectors = f.NumberOfSectors /\ e.MultipleSectors = f.MultipleSectors
      /\ e.BufferSize = f.BufferSize /\ e.Status = f.Status
      /\ e.Lba = f.Lba /\ e.Lba48 = f.Lba48
      /\ e.CylinderNumber = f.CylinderNumber /\ e.HeadNumber = f.HeadNumber
      /\ e.SectorNumber = f.SectorNumber
      /\ e.CurrentCommand = cmd /\ e.BufferIndex = 0
  BY <1>2 DEF DRIVE
<1>5. Started(c, off, on, cmd) = e
  BY DEF Started, f
<1>. HIDE DEF e
<1>. QED BY <1>1, <1>3, <1>4, <1>5 DEF Steady, Sizes, Here

LEMMA SizedFacts ==
    ASSUME NEW c \in DRIVE, NEW cmd \in Reads \cup Writes
    PROVE  LET s == Sized(c, cmd)
               t == HardDiskLba48Transform(c, Ext(cmd))
           IN  /\ Steady(s, c) /\ Here(s, t)
               /\ s.NumberOfSectors = t.NumberOfSectors /\ s.NumberOfSectors \in Nat
               /\ s.MultipleSectors = c.MultipleSectors
               /\ cmd \notin Multiples => s.BufferSize = HARDDISK_SECTOR_SIZE
               /\ c.MultipleSectors <= MAX_MULTIPLE_SECTORS => s.BufferSize <= BufferTotalSize
               /\ ~NoMultiple(c, cmd) =>
                      /\ s.BufferSize > 0 /\ SectorsOf(s) \in 1..s.NumberOfSectors
                      /\ cmd \in Multiples => s.MultipleSectors > 0
<1>. DEFINE t == HardDiskLba48Transform(c, Ext(cmd))
            b == BlockSize(t, cmd)
            s == [t EXCEPT !.BufferSize = b]
<1>1. /\ Steady(t, c) /\ t.NumberOfSectors \in 1..(DWORD - 1)
      /\ t.MultipleSectors = c.MultipleSectors
  <2>1. Ext(cmd) \in BOOLEAN
    BY DEF Ext
  <2>. QED BY <2>1, TransformFacts
<1>2. t \in DRIVE /\ t.NumberOfSectors # 0 /\ t.NumberOfSectors \in Nat
  BY <1>1, Widths DEF Steady
<1>3. Sized(c, cmd) = s
  BY DEF Sized
<1>. HIDE DEF t
<1>4. /\ b \in Nat
      /\ (b + HARDDISK_SECTOR_SIZE - 1) \div HARDDISK_SECTOR_SIZE = Blocks(t, cmd)
      /\ (cmd \in Multiples => t.MultipleSectors > 0) =>
             b > 0 /\ Blocks(t, cmd) \in 1..t.NumberOfSectors
      /\ cmd \notin Multiples => b = HARDDISK_SECTOR_SIZE
      /\ t.MultipleSectors <= MAX_MULTIPLE_SECTORS => b <= BufferTotalSize
  BY <1>2, BlockSizeFacts
<1>. HIDE DEF b
<1>5. s \in DRIVE
  BY <1>2, <1>4 DEF DRIVE
<1>6. /\ s.Reset = t.Reset /\ s.ResetInProgress = t.ResetInProgress
      /\ s.Mode = t.Mode /\ s.DriveId = t.DriveId /\ s.IdentifySet = t.IdentifySet
      /\ s.NumberOfSectors = t.NumberOfSectors /\ s.MultipleSectors = t.MultipleSectors
      /\ s.BufferSize = b
      /\ s.Lba = t.Lba /\ s.Lba48 = t.Lba48
      /\ s.CylinderNumber = t.CylinderNumber /\ s.HeadNumber = t.HeadNumber
      /\ s.SectorNumber = t.SectorNumber
  BY <1>2 DEF DRIVE
<1>. HIDE DEF s
<1>7. Steady(s, c) /\ Here(s, t)
  BY <1>1, <1>5, <1>6 DEF Steady, Here
<1>8. SectorsOf(s) = Blocks(t, cmd)
  BY <1>4, <1>6 DEF SectorsOf
<1>9. ~NoMultiple(c, cmd) => (cmd \in Multiples => t.MultipleSectors > 0)
  <2>1. c.MultipleSectors \in Nat
    BY DEF DRIVE
  <2>. QED BY <1>1, <2>1 DEF NoMultiple
<1>. QED BY <1>1, <1>2, <1>3, <1>4, <1>6, <1>7, <1>8, <1>9 DEF t

\* A read or write that is refused.
RefusedAt(m, cmd) ==
    LET c == Sel(m, 0)
    IN  HardDiskCommandAborted(
            Put(m, 0, IF NoMultiple(c, cmd) THEN HardDiskLba48Transform(c, Ext(cmd))
                      ELSE Sized(c, cmd)),
            0)
LEMMA RefusedGood ==
    ASSUME NEW m, NEW p, Good(m, p), Dnum(m, 0) = 0, NEW cmd \in Reads \cup Writes
    PROVE  LET n == RefusedAt(m, cmd)
           IN  /\ Good(n, p) /\ Dnum(n, 0) = 0
               /\ n.ata[0].Drive[0].CurrentCommand = NoCommand
<1>. DEFINE c == Sel(m, 0)
            t == HardDiskLba48Transform(c, Ext(cmd))
            s == Sized(c, cmd)
            u == IF NoMultiple(c, cmd) THEN t ELSE s
<1>1. 0 \in Channel /\ c \in DRIVE
  BY Places, GoodAt
<1>2. Steady(t, c)
  <2>1. Ext(cmd) \in BOOLEAN
    BY DEF Ext
  <2>. QED BY <1>1, <2>1, TransformFacts
<1>3. Steady(s, c)
  BY <1>1, SizedFacts
<1>4. RefusedAt(m, cmd) = HardDiskCommandAborted(Put(m, 0, u), 0)
  BY DEF RefusedAt
<1>. HIDE DEF t, s
<1>5. Steady(u, c)
  BY <1>2, <1>3
<1>. HIDE DEF u
<1>. QED BY <1>1, <1>4, <1>5, PutAbortGood DEF c

LEMMA NotACommand == NoCommand \notin Reads \cup Writes \cup Multiples
BY DEF NoCommand, Reads, Writes, Multiples

\* What a read that is accepted is to hand over.
RequestOf(t) ==
    [first |-> HardDiskCalculateLogicalAddress(t), count |-> t.NumberOfSectors]
LEMMA ReadCommandGood ==
    ASSUME NEW m, NEW p, Good(m, p), Dnum(m, 0) = 0, NEW cmd \in Reads, NEW dies
    PROVE  LET n == ReadCommand(m, 0, cmd, dies)
               e == n.ata[0].Drive[0]
               t == HardDiskLba48Transform(Sel(m, 0), Ext(cmd))
           IN  /\ Good(n, p) /\ Dnum(n, 0) = 0
               /\ e.CurrentCommand = cmd /\ t.Lba => Tracks(e, RequestOf(t))
<1>. DEFINE c == Sel(m, 0)
            s == Sized(c, cmd)
            t == HardDiskLba48Transform(c, Ext(cmd))
            r == RequestOf(t)
            nowhere == ~c.Lba /\ c.HeadNumber = 0 /\ c.CylinderNumber = 0
                       /\ c.SectorNumber = 0
            u == Started(s, {"DRQ"}, {"BSY", "RDY"}, cmd)
            a == Put(m, 0, u)
            k == HardDiskReadSector(a, 0, dies)
            v == Turn(Sel(k, 0), {"BSY"}, {"DRQ"})
<1>1. /\ 0 \in Channel /\ c \in DRIVE /\ Fine(0, 0, c, m.bm[0].DataReady, p)
      /\ cmd \in Commands /\ cmd \in Transfers /\ cmd # "ATAPI_PACKET"
      /\ cmd \in Reads \cup Writes
  BY Places, GoodAt DEF Commands, Transfers, Reads
<1>2. ReadCommand(m, 0, cmd, dies) =
          IF nowhere THEN HardDiskCommandAborted(m, 0)
          ELSE IF Refused(c, cmd) THEN RefusedAt(m, cmd)
          ELSE Put(k, 0, v)
  BY DEF ReadCommand, RefusedAt, Started
<1>3. CASE nowhere
  <2>. DEFINE n == HardDiskCommandAborted(m, 0)
  <2>1. Good(n, p) /\ Dnum(n, 0) = 0 /\ Sel(n, 0) = Aborted(c)
    BY <1>1, AbortGood
  <2>2. n.ata[0].Drive[0].CurrentCommand = NoCommand
    BY <1>1, <2>1, AbortedSteady DEF Sel
  <2>. HIDE DEF n, c, t
  <2>. QED BY <1>2, <1>3, <2>1, <2>2, NotACommand DEF n, c, t
<1>4. CASE ~nowhere /\ Refused(c, cmd)
  <2>. DEFINE n == RefusedAt(m, cmd)
  <2>1. Good(n, p) /\ Dnum(n, 0) = 0 /\ n.ata[0].Drive[0].CurrentCommand = NoCommand
    BY <1>1, RefusedGood
  <2>. HIDE DEF n, c, t
  <2>. QED BY <1>2, <1>4, <2>1, NotACommand DEF n, c, t
<1>5. CASE ~nowhere /\ ~Refused(c, cmd)
  <2>1. /\ Steady(s, c) /\ Here(s, t) /\ s.NumberOfSectors = t.NumberOfSectors
        /\ s.NumberOfSectors \in Nat /\ s \in DRIVE
        /\ cmd \notin Multiples => s.BufferSize = HARDDISK_SECTOR_SIZE
        /\ s.BufferSize > 0 /\ SectorsOf(s) \in 1..s.NumberOfSectors
        /\ cmd \in Multiples => s.MultipleSectors > 0
        /\ s.BufferSize <= BufferTotalSize /\ s.MultipleSectors <= MAX_MULTIPLE_SECTORS
    <3>1. c.MultipleSectors <= MAX_MULTIPLE_SECTORS
      BY <1>1 DEF Fine, Asks, Several
    <3>. QED BY <1>1, <1>5, <3>1, SizedFacts DEF Refused, Steady
  <2>2. HardDiskCalculateLogicalAddress(s) \in 0..(Capacity - 1)
    BY <1>5, CalculatedAddress DEF Refused
  <2>3. HardDiskCalculateLogicalAddress(s) = HardDiskCalculateLogicalAddress(t)
    BY <2>1, SameAddress
  <2>. HIDE DEF s, t, c, nowhere
  <2>4. /\ Steady(u, s) /\ Sizes(u, s) /\ Here(u, s)
        /\ u.Status = (s.Status \ {"DRQ"}) \cup {"BSY", "RDY"}
        /\ u.CurrentCommand = cmd /\ u.BufferIndex = 0
    BY <1>1, <2>1, StartedFacts DEF STATUS
  <2>. HIDE DEF u
  <2>5. Steady(u, c) /\ "DRQ" \notin u.Status /\ u \in DRIVE
    BY <2>1, <2>4 DEF Steady
  <2>6. Fine(0, 0, u, m.bm[0].DataReady, p) /\ u.Reset = c.Reset
    <3>1. Several(u)
      BY <2>1, <2>4 DEF Several, Sizes
    <3>. QED BY <1>1, <2>4, <2>5, <3>1, DiskFine DEF Asks
  <2>7. Good(a, p) /\ Dnum(a, 0) = 0 /\ Sel(a, 0) = u /\ a.bm = m.bm
    BY <1>1, <2>6, PutGood DEF c
  <2>. HIDE DEF a
  <2>. DEFINE w == After(u, SectorsOf(u))
  <2>8. /\ Good(k, p) /\ Dnum(k, 0) = 0
        /\ Sel(k, 0) = w
        /\ Moved(w, u)
    BY <2>7, ReadSectorGood
  <2>9. SectorsOf(u) = SectorsOf(s) /\ SectorsOf(u) \in 0..u.NumberOfSectors
        /\ u.NumberOfSectors = t.NumberOfSectors
    BY <2>1, <2>4 DEF Sizes, SectorsOf
  <2>10. ASSUME t.Lba PROVE At(w, r) /\ r \in [first : 0..(Capacity - 1), count : Nat]
    <3>1. u.Lba
      BY <2>1, <2>4, <2>10 DEF Here
    <3>2. HardDiskCalculateLogicalAddress(u) = r.first /\ r.count = u.NumberOfSectors
          /\ r.first \in 0..(Capacity - 1) /\ r.count \in Nat /\ r.first \in Nat
          /\ r = [first |-> r.first, count |-> r.count]
      BY <2>1, <2>2, <2>3, <2>4, <2>9, SameAddress, Widths DEF RequestOf
    <3>. HIDE DEF r
    <3>3. At(u, r)
      BY <3>1, <3>2 DEF At
    <3>4. At(w, r)
      BY <2>5, <2>9, <3>2, <3>3, AfterAt
    <3>5. r \in [first : 0..(Capacity - 1), count : Nat]
      BY <3>2
    <3>. QED BY <3>4, <3>5
  <2>. HIDE DEF k, w
  <2>11. w \in DRIVE /\ Fine(0, 0, w, k.bm[0].DataReady, p)
    BY <1>1, <2>8, GoodAt
  <2>12. /\ Steady(v, w) /\ Sizes(v, w) /\ Here(v, w)
         /\ v.Status = (w.Status \ {"BSY"}) \cup {"DRQ"}
         /\ v.CurrentCommand = w.CurrentCommand /\ v.BufferIndex = w.BufferIndex
    BY <2>8, <2>11, TurnFacts DEF STATUS
  <2>. HIDE DEF v
  <2>13. v.CurrentCommand = cmd /\ v.BufferIndex = 0 /\ v.BufferSize = s.BufferSize
         /\ v.MultipleSectors = s.MultipleSectors /\ v.NumberOfSectors = w.NumberOfSectors
         /\ "DRQ" \in v.Status
    BY <2>4, <2>8, <2>12 DEF Moved, Sizes
  <2>14. Asks(v)
    BY <1>1, <2>1, <2>13 DEF Asks, Several
  <2>15. Fine(0, 0, v, k.bm[0].DataReady, p) /\ v.Reset = w.Reset
    BY <1>1, <2>11, <2>12, <2>13, <2>14, DiskFine
  <2>. DEFINE n == Put(k, 0, v)
  <2>16. Good(n, p) /\ Dnum(n, 0) = 0 /\ Sel(n, 0) = v
    BY <1>1, <2>8, <2>15, PutGood
  <2>. HIDE DEF n
  <2>17. n.ata[0].Drive[0] = v
    BY <2>16 DEF Sel
  <2>18. t.Lba => Tracks(v, r)
    <3>1. SUFFICES ASSUME t.Lba PROVE Tracks(v, r)
      OBVIOUS
    <3>2. At(w, r) /\ r \in [first : 0..(Capacity - 1), count : Nat]
      BY <2>10, <3>1
    <3>. HIDE DEF r
    <3>3. At(v, r)
      <4>1. HardDiskCalculateLogicalAddress(v) = HardDiskCalculateLogicalAddress(w)
        BY <2>12, SameAddress
      <4>2. v.Lba = w.Lba /\ v.NumberOfSectors = w.NumberOfSectors
        BY <2>12, <2>13 DEF Here
      <4>. QED BY <3>2, <4>1, <4>2 DEF At
    <3>. QED BY <2>1, <2>13, <3>2, <3>3 DEF Tracks
  <2>19. ReadCommand(m, 0, cmd, dies) = n
    BY <1>2, <1>5 DEF n
  <2>. QED BY <2>16, <2>17, <2>18, <2>19 DEF t, c
<1>. QED BY <1>3, <1>4, <1>5

LEMMA WriteCommandGood ==
    ASSUME NEW m, NEW p, Good(m, p), Dnum(m, 0) = 0, NEW cmd \in Writes, NEW taken
    PROVE  LET n == WriteCommand(m, 0, cmd, taken)
           IN  Good(n, p) /\ Dnum(n, 0) = 0
<1>. DEFINE c == Sel(m, 0)
            s == Sized(c, cmd)
            u == Started(s, {"BSY"}, {"DRQ"}, cmd)
            a == Put(m, 0, u)
            k == HardDiskWriteSector(a, 0, taken)
<1>1. /\ 0 \in Channel /\ c \in DRIVE /\ Fine(0, 0, c, m.bm[0].DataReady, p)
      /\ cmd \in Commands /\ cmd \in Transfers /\ cmd # "ATAPI_PACKET"
      /\ cmd \in Reads \cup Writes
  BY Places, GoodAt DEF Commands, Transfers, Writes
<1>2. WriteCommand(m, 0, cmd, taken) = IF Refused(c, cmd) THEN RefusedAt(m, cmd) ELSE k
  BY DEF WriteCommand, RefusedAt, Started
<1>3. CASE Refused(c, cmd)
  <2>. DEFINE n == RefusedAt(m, cmd)
  <2>1. Good(n, p) /\ Dnum(n, 0) = 0
    BY <1>1, RefusedGood
  <2>. HIDE DEF n, c
  <2>. QED BY <1>2, <1>3, <2>1 DEF n
<1>4. CASE ~Refused(c, cmd)
  <2>1. /\ Steady(s, c) /\ s \in DRIVE /\ s.BufferSize > 0
        /\ cmd \in Multiples => s.MultipleSectors > 0
        /\ s.BufferSize <= BufferTotalSize /\ s.MultipleSectors <= MAX_MULTIPLE_SECTORS
    <3>1. c.MultipleSectors <= MAX_MULTIPLE_SECTORS
      BY <1>1 DEF Fine, Asks, Several
    <3>. QED BY <1>1, <1>4, <3>1, SizedFacts DEF Refused, Steady
  <2>. HIDE DEF s, c
  <2>2. /\ Steady(u, s) /\ Sizes(u, s)
        /\ u.Status = (s.Status \ {"BSY"}) \cup {"DRQ"}
        /\ u.CurrentCommand = cmd /\ u.BufferIndex = 0
    BY <1>1, <2>1, StartedFacts DEF STATUS
  <2>. HIDE DEF u
  <2>3. Steady(u, c) /\ Asks(u)
    BY <1>1, <2>1, <2>2 DEF Steady, Sizes, Asks, Several
  <2>4. Fine(0, 0, u, m.bm[0].DataReady, p) /\ u.Reset = c.Reset
    BY <1>1, <2>2, <2>3, DiskFine
  <2>5. Good(a, p) /\ Dnum(a, 0) = 0
    BY <1>1, <2>4, PutGood DEF c
  <2>. HIDE DEF a
  <2>6. Good(k, p) /\ Dnum(k, 0) = 0
    BY <2>5, WriteSectorGood
  <2>. HIDE DEF k
  <2>. QED BY <1>2, <1>4, <2>6
<1>. QED BY <1>3, <1>4

\* A result that is fine, with and without an interrupt.
LEMMA ResultGood ==
    ASSUME NEW m, NEW p, Good(m, p), NEW ch \in Channel, Dnum(m, ch) = 0, NEW e,
           Fine(ch, 0, e, m.bm[ch].DataReady, p), e.Reset = Sel(m, ch).Reset
    PROVE  /\ Good(Put(m, ch, e), p) /\ Dnum(Put(m, ch, e), ch) = 0
           /\ Good(Done(m, ch, e), p) /\ Dnum(Done(m, ch, e), ch) = 0
BY PutGood, DoneGood

LEMMA IdleFacts ==
    ASSUME NEW ch \in Channel, NEW c, NEW ready, NEW p, Fine(ch, 0, c, ready, p)
    PROVE  /\ Fine(ch, 0, Idle(c), ready, p) /\ Idle(c).Reset = c.Reset
           /\ Steady(Idle(c), c) /\ "DRQ" \notin Idle(c).Status
           /\ Idle(c).NumberOfSectors = c.NumberOfSectors
           /\ Idle(c).CurrentCommand = c.CurrentCommand /\ Several(Idle(c))
<1>. DEFINE e == Idle(c)
<1>1. c \in DRIVE
  BY DEF Fine
<1>2. /\ Steady(e, c) /\ e.NumberOfSectors = c.NumberOfSectors
      /\ e.MultipleSectors = c.MultipleSectors
      /\ e.Status = (c.Status \ {"BSY", "DRQ"}) \cup {"RDY"}
      /\ e.CurrentCommand = c.CurrentCommand /\ e.BufferSize = c.BufferSize
  BY <1>1, TurnFacts DEF Idle, STATUS, Sizes
<1>. HIDE DEF e
<1>3. "DRQ" \notin e.Status
  BY <1>2
<1>4. Several(e)
  BY <1>2, SeveralKept
<1>5. Fine(ch, 0, e, ready, p) /\ e.Reset = c.Reset
  BY <1>2, <1>3, <1>4, StopFine
<1>. QED BY <1>2, <1>3, <1>4, <1>5 DEF e

LEMMA DmaCommandGood ==
    ASSUME NEW m, NEW p, Good(m, p), Dnum(m, 0) = 0,
           NEW cmd \in ReadDmas \cup WriteDmas, NEW present \in BOOLEAN
    PROVE  LET n == DmaCommand(m, 0, cmd, present)
           IN  Good(n, p) /\ Dnum(n, 0) = 0
<1>. DEFINE c == Sel(m, 0)
            t == HardDiskLba48Transform(c, Ext(cmd))
            u == IF cmd \in ReadDmas THEN Turn(t, {"DRQ"}, {"BSY", "RDY"})
                 ELSE Turn(t, {}, {"RDY", "DRQ"})
            e == [u EXCEPT !.CurrentCommand = cmd]
<1>1. /\ 0 \in Channel /\ c \in DRIVE /\ Fine(0, 0, c, m.bm[0].DataReady, p)
      /\ cmd \in Commands /\ cmd # "ATAPI_PACKET" /\ cmd \notin Reads \cup Writes \cup Multiples
      /\ (cmd \in WriteDmas => cmd \in Transfers)
  BY Places, GoodAt
     DEF Commands, Transfers, ReadDmas, WriteDmas, Reads, Writes, Multiples
<1>2. Steady(t, c) /\ t \in DRIVE
  <2>1. Ext(cmd) \in BOOLEAN
    BY DEF Ext
  <2>. QED BY <1>1, <2>1, TransformFacts DEF Steady
<1>3. /\ ~present => DmaCommand(m, 0, cmd, present) = HardDiskCommandAborted(m, 0)
      /\ present /\ HardDiskCalculateLogicalAddress(t) = OutOfRange =>
             DmaCommand(m, 0, cmd, present) = HardDiskCommandAborted(Put(m, 0, t), 0)
      /\ present /\ HardDiskCalculateLogicalAddress(t) # OutOfRange =>
             DmaCommand(m, 0, cmd, present) = Put(m, 0, e)
  BY DEF DmaCommand
<1>. HIDE DEF t
<1>4. CASE ~present
  BY <1>1, <1>3, <1>4, AbortGood
<1>5. CASE present /\ HardDiskCalculateLogicalAddress(t) = OutOfRange
  BY <1>1, <1>2, <1>3, <1>5, PutAbortGood
<1>6. CASE present /\ HardDiskCalculateLogicalAddress(t) # OutOfRange
  <2>1. Steady(u, t) /\ (cmd \in ReadDmas => "DRQ" \notin u.Status)
    <3>1. CASE cmd \in ReadDmas
      <4>1. Steady(u, t) /\ u.Status = (t.Status \ {"DRQ"}) \cup {"BSY", "RDY"}
        BY <1>2, <3>1, TurnFacts DEF STATUS
      <4>. QED BY <4>1
    <3>2. CASE cmd \notin ReadDmas
      BY <1>2, <3>2, TurnFacts DEF STATUS
    <3>. QED BY <3>1, <3>2
  <2>. HIDE DEF u
  <2>2. u \in DRIVE
    BY <2>1 DEF Steady
  <2>3. /\ e \in DRIVE /\ e.CurrentCommand = cmd /\ e.Status = u.Status
        /\ e.Reset = u.Reset /\ e.ResetInProgress = u.ResetInProgress
        /\ e.Mode = u.Mode /\ e.DriveId = u.DriveId /\ e.IdentifySet = u.IdentifySet
        /\ e.MultipleSectors = u.MultipleSectors
    BY <1>1, <2>2 DEF DRIVE
  <2>. HIDE DEF e
  <2>4. Steady(e, c)
    BY <1>2, <2>1, <2>3 DEF Steady
  <2>5. Asks(e)
    BY <1>1, <2>1, <2>3, <2>4 DEF Fine, Asks, Several, Steady
  <2>6. Fine(0, 0, e, m.bm[0].DataReady, p) /\ e.Reset = c.Reset
    BY <1>1, <2>3, <2>4, <2>5, DiskFine
  <2>7. Good(Put(m, 0, e), p) /\ Dnum(Put(m, 0, e), 0) = 0
    BY <1>1, <2>6, ResultGood
  <2>8. DmaCommand(m, 0, cmd, present) = Put(m, 0, e)
    BY <1>3, <1>6, Zenon
  <2>. QED BY <2>7, <2>8
<1>. QED BY <1>4, <1>5, <1>6

LEMMA SeekCommandGood ==
    ASSUME NEW m, NEW p, Good(m, p), Dnum(m, 0) = 0
    PROVE  Good(SeekCommand(m, 0), p) /\ Dnum(SeekCommand(m, 0), 0) = 0
<1>. DEFINE c == Sel(m, 0)
            u == Turn(c, {"DRQ"}, {"BSY", "RDY"})
            e == [u EXCEPT !.CurrentCommand = "SEEK"]
<1>1. 0 \in Channel /\ c \in DRIVE /\ Fine(0, 0, c, m.bm[0].DataReady, p) 
      /\ "SEEK" \in Commands \ (Multiples \cup Reads \cup Writes)
  BY Places, GoodAt DEF Commands, Multiples, Reads, Writes
<1>2. \/ SeekCommand(m, 0) = HardDiskCommandAborted(m, 0)
      \/ SeekCommand(m, 0) = Put(m, 0, e)
  BY DEF SeekCommand
<1>3. Steady(u, c) /\ u.Status = (c.Status \ {"DRQ"}) \cup {"BSY", "RDY"} /\ u \in DRIVE
  BY <1>1, TurnFacts DEF STATUS, Steady
<1>. HIDE DEF u
<1>4. /\ e \in DRIVE /\ e.CurrentCommand = "SEEK" /\ "DRQ" \notin e.Status
      /\ e.Reset = u.Reset /\ e.ResetInProgress = u.ResetInProgress
      /\ e.Mode = u.Mode /\ e.DriveId = u.DriveId /\ e.IdentifySet = u.IdentifySet
      /\ e.MultipleSectors = u.MultipleSectors
  BY <1>1, <1>3 DEF DRIVE
<1>. HIDE DEF e
<1>5. Steady(e, c) /\ Asks(e)
  BY <1>1, <1>3, <1>4 DEF Fine, Steady, Asks, Several
<1>6. Fine(0, 0, e, m.bm[0].DataReady, p) /\ e.Reset = c.Reset
  BY <1>1, <1>4, <1>5, DiskFine
<1>. QED BY <1>1, <1>2, <1>6, ResultGood, AbortGood

LEMMA SetMultipleGood ==
    ASSUME NEW m, NEW p, Good(m, p), Dnum(m, 0) = 0,
           Honours(Sel(m, 0), "SET_MULTIPLE")
    PROVE  Good(SetMultiple(m, 0), p) /\ Dnum(SetMultiple(m, 0), 0) = 0
<1>. DEFINE c == Sel(m, 0)
            u == Idle(c)
            e == [u EXCEPT !.MultipleSectors = c.SectorCount]
<1>1. 0 \in Channel /\ c \in DRIVE /\ Fine(0, 0, c, m.bm[0].DataReady, p)
  BY Places, GoodAt
<1>2. \/ SetMultiple(m, 0) = HardDiskCommandAborted(m, 0)
      \/ SetMultiple(m, 0) = Done(m, 0, e) /\ c.SectorCount # 0
         /\ ~(c.SectorCount > HARDDISK_SECTORS)
  BY DEF SetMultiple
<1>3. Steady(u, c) /\ u \in DRIVE /\ "DRQ" \notin u.Status /\ u.CurrentCommand = c.CurrentCommand
  BY <1>1, IdleFacts DEF Steady
<1>4. c.SectorCount \in 0..(REGISTER - 1) /\ c.CurrentCommand # "ATAPI_PACKET"
  BY <1>1 DEF DRIVE, Fine, Alien
<1>. HIDE DEF u
<1>5. /\ e \in DRIVE /\ e.MultipleSectors = c.SectorCount /\ e.BufferSize = u.BufferSize
      /\ e.CurrentCommand = u.CurrentCommand /\ e.Status = u.Status
      /\ e.Reset = u.Reset /\ e.ResetInProgress = u.ResetInProgress
      /\ e.Mode = u.Mode /\ e.DriveId = u.DriveId /\ e.IdentifySet = u.IdentifySet
  BY <1>3, <1>4 DEF DRIVE
<1>. HIDE DEF e
<1>6. ASSUME ~(c.SectorCount > HARDDISK_SECTORS) PROVE c.SectorCount <= MAX_MULTIPLE_SECTORS
  BY <1>4, <1>6, Widths, AtaAssumption DEF Honours
<1>7. ASSUME c.SectorCount # 0, ~(c.SectorCount > HARDDISK_SECTORS) PROVE Asks(e)
  <2>1. e.CurrentCommand \in Reads \cup Writes => e.BufferSize <= BufferTotalSize
    BY <1>1, <1>5, IdleFacts DEF Several, u
  <2>. QED BY <1>3, <1>4, <1>5, <1>6, <1>7, <2>1, Widths DEF Asks, Several
<1>8. ASSUME c.SectorCount # 0, ~(c.SectorCount > HARDDISK_SECTORS)
      PROVE  Fine(0, 0, e, m.bm[0].DataReady, p) /\ e.Reset = c.Reset
  BY <1>1, <1>3, <1>4, <1>5, <1>7, <1>8 DEF Fine, Steady, Replies, Identity, Alien
<1>. QED BY <1>1, <1>2, <1>8, ResultGood, AbortGood

LEMMA SetDriveParametersGood ==
    ASSUME NEW m, NEW p, Good(m, p), Dnum(m, 0) = 0
    PROVE  Good(SetDriveParameters(m, 0), p) /\ Dnum(SetDriveParameters(m, 0), 0) = 0
<1>. DEFINE c == Sel(m, 0)
            n == SetDriveParameters(m, 0)
<1>1. 0 \in Channel /\ c \in DRIVE /\ Fine(0, 0, c, m.bm[0].DataReady, p)
  BY Places, GoodAt
<1>2. n \in {HardDiskCommandAborted(m, 0), Exit(m), Done(m, 0, Idle(c))}
  BY DEF SetDriveParameters
<1>3. Good(Exit(m), p) /\ Dnum(Exit(m), 0) = 0
  BY ExitGood DEF Dnum
<1>4. Good(HardDiskCommandAborted(m, 0), p) /\ Dnum(HardDiskCommandAborted(m, 0), 0) = 0
  BY <1>1, AbortGood
<1>5. Fine(0, 0, Idle(c), m.bm[0].DataReady, p) /\ Idle(c).Reset = c.Reset
  BY <1>1, IdleFacts
<1>6. Good(Done(m, 0, Idle(c)), p) /\ Dnum(Done(m, 0, Idle(c)), 0) = 0
  BY <1>1, <1>5, ResultGood
<1>. HIDE DEF n
<1>. QED BY <1>2, <1>3, <1>4, <1>6 DEF n

LEMMA ReadNativeGood ==
    ASSUME NEW m, NEW p, Good(m, p), Dnum(m, 0) = 0, NEW cmd
    PROVE  Good(ReadNative(m, 0, cmd), p) /\ Dnum(ReadNative(m, 0, cmd), 0) = 0
<1>. DEFINE c == Sel(m, 0)
            t == HardDiskLba48Transform(c, Ext(cmd))
            l == LbaWritten(t, Capacity - 1)
            e == Turn(l, {}, {"RDY"})
<1>1. 0 \in Channel /\ c \in DRIVE /\ Fine(0, 0, c, m.bm[0].DataReady, p)
  BY Places, GoodAt
<1>2. /\ Steady(t, c) /\ t \in DRIVE /\ t.Status = c.Status
      /\ t.CurrentCommand = c.CurrentCommand /\ t.BufferIndex = c.BufferIndex
      /\ t.BufferSize = c.BufferSize /\ t.MultipleSectors = c.MultipleSectors
  <2>1. Ext(cmd) \in BOOLEAN
    BY DEF Ext
  <2>. QED BY <1>1, <2>1, TransformFacts DEF Steady
<1>3. ReadNative(m, 0, cmd) \in {HardDiskCommandAborted(m, 0), Done(m, 0, e)}
  BY DEF ReadNative
<1>. HIDE DEF t
<1>4. Moved(l, t)
  BY <1>2, Widths, LbaWrittenMoved
<1>5. l \in DRIVE
  BY <1>4 DEF Moved
<1>. HIDE DEF l
<1>6. /\ Steady(e, l) /\ Sizes(e, l) /\ e.Status = (l.Status \ {}) \cup {"RDY"}
      /\ e.CurrentCommand = l.CurrentCommand /\ e.BufferIndex = l.BufferIndex
  BY <1>5, TurnFacts DEF STATUS
<1>. HIDE DEF e
<1>7. "DRQ" \in e.Status <=> "DRQ" \in c.Status
  BY <1>2, <1>4, <1>6 DEF Moved
<1>8. Asks(e) /\ e.CurrentCommand # "ATAPI_PACKET"
  <2>1. Asks(c) /\ c.CurrentCommand # "ATAPI_PACKET"
    BY <1>1 DEF Fine, Alien
  <2>. QED BY <1>2, <1>4, <1>6, <1>7, <2>1 DEF Asks, Several, Moved, Sizes
<1>9. Steady(e, c)
  BY <1>2, <1>4, <1>6 DEF Steady, Moved
<1>10. Fine(0, 0, e, m.bm[0].DataReady, p) /\ e.Reset = c.Reset
  BY <1>1, <1>8, <1>9, DiskFine
<1>11. Good(Done(m, 0, e), p) /\ Dnum(Done(m, 0, e), 0) = 0
  BY <1>1, <1>10, ResultGood
<1>12. Good(HardDiskCommandAborted(m, 0), p) /\ Dnum(HardDiskCommandAborted(m, 0), 0) = 0
  BY <1>1, AbortGood
<1>. QED BY <1>3, <1>11, <1>12

\* What a drive that goes on asking needs.
Alike(e, c) ==
    /\ e \in DRIVE
    /\ "DRQ" \in e.Status <=> "DRQ" \in c.Status
    /\ e.CurrentCommand = c.CurrentCommand /\ e.BufferIndex = c.BufferIndex
    /\ e.BufferSize = c.BufferSize /\ e.MultipleSectors = c.MultipleSectors
    /\ e.NumberOfSectors = c.NumberOfSectors
    /\ e.SectorCount = c.SectorCount /\ e.CylinderNumber = c.CylinderNumber
    /\ e.DrqIndex = c.DrqIndex /\ e.DrqBytes = c.DrqBytes
    /\ e.TotalBytesRemaining = c.TotalBytesRemaining
    /\ e.Reset = c.Reset /\ e.ResetInProgress = c.ResetInProgress
LEMMA AlikeFine ==
    ASSUME NEW ch \in Channel, NEW c, NEW ready, NEW p, Fine(ch, 0, c, ready, p),
           NEW e, Alike(e, c), Identity(ch, e)
    PROVE  Fine(ch, 0, e, ready, p) /\ e.Reset = c.Reset
<1>1. Asks(e) /\ (p => Replies(e))
  BY DEF Fine, Alike, Asks, Several, Replies
<1>. QED BY <1>1 DEF Fine, Alike

LEMMA TurnAlike ==
    ASSUME NEW ch \in Channel, NEW c, NEW ready, NEW p, Fine(ch, 0, c, ready, p),
           NEW off, NEW on \in SUBSET STATUS, "DRQ" \notin off, "DRQ" \notin on
    PROVE  LET e == Turn(c, off, on)
           IN  Alike(e, c) /\ Fine(ch, 0, e, ready, p) /\ e.Reset = c.Reset /\ Here(e, c)
               /\ e.Features = c.Features
<1>. DEFINE e == Turn(c, off, on)
<1>1. c \in DRIVE
  BY DEF Fine
<1>2. /\ Steady(e, c) /\ Sizes(e, c) /\ Here(e, c)
      /\ e.Status = (c.Status \ off) \cup on
      /\ e.CurrentCommand = c.CurrentCommand /\ e.BufferIndex = c.BufferIndex
      /\ e.SectorCount = c.SectorCount /\ e.DrqIndex = c.DrqIndex
      /\ e.DrqBytes = c.DrqBytes /\ e.Features = c.Features
      /\ e.TotalBytesRemaining = c.TotalBytesRemaining
  BY <1>1, TurnFacts
<1>. HIDE DEF e
<1>3. Alike(e, c)
  BY <1>2 DEF Alike, Steady, Sizes, Here
<1>4. Identity(ch, e)
  BY <1>2 DEF Fine, Identity, Steady
<1>5. Fine(ch, 0, e, ready, p) /\ e.Reset = c.Reset
  BY <1>3, <1>4, AlikeFine
<1>. QED BY <1>2, <1>3, <1>5 DEF e

LEMMA FlagTyped ==
    ASSUME NEW c \in DRIVE, NEW v \in BOOLEAN
    PROVE  [c EXCEPT !.IdentifySet = v] \in DRIVE
BY DEF DRIVE

LEMMA SetFeatureGood ==
    ASSUME NEW m, NEW p, Good(m, p), NEW ch \in Channel, Dnum(m, ch) = 0
    PROVE  Good(SetFeature(m, ch), p) /\ Dnum(SetFeature(m, ch), ch) = 0
<1>. DEFINE b == Sel(m, ch)
            c == [b EXCEPT !.IdentifySet = FALSE]
            mode == TransferModes[c.SectorCount]
            u == Turn(c, {}, {"RDY"})
            e == [u EXCEPT !.Mode = mode]
            f == Turn(b, {}, {"RDY"})
            n == SetFeature(m, ch)
<1>1. b \in DRIVE /\ Fine(ch, 0, b, m.bm[ch].DataReady, p)
  BY GoodAt
<1>2. \/ n = Done(m, ch, e) /\ mode # "none"
      \/ n = HardDiskCommandAborted(Put(m, ch, c), ch)
      \/ n = Done(m, ch, f)
      \/ n = m
  BY DEF SetFeature
<1>3. Alike(c, b) /\ c.IdentifySet = FALSE
  <2>. HIDE DEF b
  <2>0. b \in DRIVE
    BY <1>1
  <2>1. c \in DRIVE
    BY <2>0, FlagTyped
  <2>3. c.IdentifySet = FALSE
    BY <2>0 DEF DRIVE
  <2>2. /\ c.Status = b.Status
        /\ c.CurrentCommand = b.CurrentCommand /\ c.BufferIndex = b.BufferIndex
        /\ c.BufferSize = b.BufferSize /\ c.MultipleSectors = b.MultipleSectors
        /\ c.NumberOfSectors = b.NumberOfSectors
        /\ c.SectorCount = b.SectorCount /\ c.CylinderNumber = b.CylinderNumber
        /\ c.DrqIndex = b.DrqIndex /\ c.DrqBytes = b.DrqBytes
        /\ c.TotalBytesRemaining = b.TotalBytesRemaining
        /\ c.Reset = b.Reset /\ c.ResetInProgress = b.ResetInProgress
    BY <1>1 DEF DRIVE
  <2>. HIDE DEF c
  <2>. QED BY <2>1, <2>2, <2>3 DEF Alike
<1>4. mode \in {"PIO", "MDMA", "UDMA", "none"}
  <2>1. c.SectorCount \in 0..(REGISTER - 1)
    BY <1>3 DEF Alike, DRIVE
  <2>. QED BY <2>1, AtaAssumption
<1>. HIDE DEF c, mode
<1>5. Fine(ch, 0, c, m.bm[ch].DataReady, p) /\ c.Reset = b.Reset
  BY <1>1, <1>3, AlikeFine DEF Identity
<1>6. Good(Put(m, ch, c), p) /\ Dnum(Put(m, ch, c), ch) = 0
  BY <1>5, ResultGood
<1>7. CASE n = HardDiskCommandAborted(Put(m, ch, c), ch)
  BY <1>6, <1>7, AbortGood DEF n
<1>8. CASE n = Done(m, ch, f)
  <2>1. Fine(ch, 0, f, m.bm[ch].DataReady, p) /\ f.Reset = b.Reset
    BY <1>1, TurnAlike DEF STATUS
  <2>. HIDE DEF f
  <2>. QED BY <1>8, <2>1, ResultGood
<1>9. CASE n = Done(m, ch, e) /\ mode # "none"
  <2>1. Fine(ch, 0, u, m.bm[ch].DataReady, p) /\ u.Reset = c.Reset
    BY <1>5, TurnAlike DEF STATUS
  <2>2. u.IdentifySet = FALSE
    <3>1. Steady(u, c)
      BY <1>3, TurnFacts DEF Alike, STATUS
    <3>. QED BY <1>3, <3>1 DEF Steady
  <2>. HIDE DEF u
  <2>3. u \in DRIVE
    BY <2>1 DEF Fine
  <2>4. e \in DRIVE /\ e.IdentifySet = FALSE
    BY <1>4, <1>9, <2>2, <2>3 DEF DRIVE
  <2>5. Alike(e, u)
    <3>1. /\ e.Status = u.Status
          /\ e.CurrentCommand = u.CurrentCommand /\ e.BufferIndex = u.BufferIndex
          /\ e.BufferSize = u.BufferSize /\ e.MultipleSectors = u.MultipleSectors
          /\ e.NumberOfSectors = u.NumberOfSectors
          /\ e.SectorCount = u.SectorCount /\ e.CylinderNumber = u.CylinderNumber
          /\ e.DrqIndex = u.DrqIndex /\ e.DrqBytes = u.DrqBytes
          /\ e.TotalBytesRemaining = u.TotalBytesRemaining
          /\ e.Reset = u.Reset /\ e.ResetInProgress = u.ResetInProgress
      BY <2>3 DEF DRIVE
    <3>. HIDE DEF e
    <3>. QED BY <2>4, <3>1 DEF Alike
  <2>. HIDE DEF e
  <2>6. Fine(ch, 0, e, m.bm[ch].DataReady, p) /\ e.Reset = b.Reset
    BY <1>5, <2>1, <2>4, <2>5, AlikeFine DEF Identity
  <2>. QED BY <1>9, <2>6, ResultGood
<1>10. CASE n = m
  BY <1>10
<1>. QED BY <1>2, <1>7, <1>8, <1>9, <1>10

\* The identity on record is the one of the mode.
LEMMA IdentifiedFine ==
    ASSUME NEW ch \in Channel, NEW c, NEW ready, NEW p, Fine(ch, 0, c, ready, p),
           NEW cmd \in {"IDENTIFY", "ATAPI_IDENTIFY"}, NEW id, id = {c.Mode} \cap Words(ch)
    PROVE  LET e == Identified(c, cmd, id)
           IN  Fine(ch, 0, e, ready, p) /\ e.Reset = c.Reset
<1>. DEFINE u == Turn(c, {"BSY"}, {"RDY", "DRQ"})
            i == IF c.IdentifySet THEN c.DriveId ELSE id
            e == [u EXCEPT !.CurrentCommand = cmd, !.IdentifySet = TRUE, !.DriveId = i]
<1>1. c \in DRIVE /\ Identity(ch, c) /\ Several(c) /\ cmd \in Commands /\ cmd \in Transfers
      /\ cmd \notin Reads \cup Writes \cup Multiples \cup {"ATAPI_PACKET"}
  BY DEF Fine, Asks, Commands, Transfers, Reads, Writes, Multiples
<1>2. Steady(u, c) /\ Sizes(u, c) /\ u \in DRIVE
  BY <1>1, TurnFacts DEF Steady, STATUS
<1>3. i = {c.Mode} \cap Words(ch) /\ i \in SUBSET {"MDMA", "UDMA"}
  BY <1>1 DEF Identity, Words
<1>4. Identified(c, cmd, id) = e
  <2>1. u.DriveId = c.DriveId
    BY <1>2 DEF Steady
  <2>. QED BY <2>1 DEF Identified
<1>. HIDE DEF i, u
<1>5. e \in DRIVE
  <2>. DEFINE v == [u EXCEPT !.CurrentCommand = cmd, !.IdentifySet = TRUE]
  <2>1. v \in DRIVE
    BY <1>1, <1>2 DEF DRIVE
  <2>2. e = [v EXCEPT !.DriveId = i]
    BY <1>2 DEF DRIVE
  <2>. HIDE DEF v, e
  <2>3. i \in SUBSET {"MDMA", "UDMA"}
    BY <1>3
  <2>. QED BY <2>1, <2>2, <2>3 DEF DRIVE
<1>6. /\ e.CurrentCommand = cmd /\ e.DriveId = i /\ e.Mode = u.Mode
      /\ e.NumberOfSectors = u.NumberOfSectors /\ e.MultipleSectors = u.MultipleSectors
      /\ e.Reset = u.Reset /\ e.ResetInProgress = u.ResetInProgress
  BY <1>2 DEF DRIVE
<1>. HIDE DEF e
<1>7. Asks(e) /\ Replies(e) /\ Identity(ch, e) /\ e.CurrentCommand \notin Alien(ch)
  BY <1>1, <1>2, <1>3, <1>6 DEF Asks, Several, Replies, Identity, Alien, Steady
<1>8. Fine(ch, 0, e, ready, p) /\ e.Reset = c.Reset
  BY <1>2, <1>5, <1>6, <1>7 DEF Fine, Steady, Sizes
<1>. QED BY <1>4, <1>8

LEMMA IdentifyGood ==
    ASSUME NEW m, NEW p, Good(m, p), NEW ch \in Channel, Dnum(m, ch) = 0
    PROVE  Good(Identify(m, ch), p) /\ Dnum(Identify(m, ch), ch) = 0
<1>. DEFINE c == Sel(m, ch)
            e == Identified(c, "IDENTIFY", DriveIdentity(c))
            a == HardDiskCommandAborted(m, ch)
<1>1. Fine(ch, 0, c, m.bm[ch].DataReady, p) /\ 0 \in Drive
  BY GoodAt, Places
<1>2. CASE ch = 0
  <2>1. Identify(m, ch) = Done(m, ch, e)
    BY <1>2 DEF Identify, DriveType
  <2>2. DriveIdentity(c) = {c.Mode} \cap Words(ch)
    BY <1>2 DEF DriveIdentity, Word63, Word88, Words
  <2>3. Fine(ch, 0, e, m.bm[ch].DataReady, p) /\ e.Reset = c.Reset
    BY <1>1, <2>2, IdentifiedFine
  <2>. QED BY <2>1, <2>3, ResultGood
<1>3. CASE ch = 1
  <2>1. Identify(m, ch) = HardDiskSetSignature(a, ch, 0) /\ DriveType(ch, 0) # "DISK"
    BY <1>3 DEF Identify, DriveType
  <2>2. Good(a, p) /\ Dnum(a, ch) = 0
    BY AbortGood
  <2>. HIDE DEF a
  <2>. QED BY <1>1, <2>1, <2>2, SignatureGood
<1>. QED BY <1>2, <1>3, Places

LEMMA BufferRewound ==
    ASSUME NEW ch \in Channel, NEW b, NEW ready, NEW p, Fine(ch, 0, b, ready, p)
    PROVE  LET c == [b EXCEPT !.BufferIndex = 0]
           IN  Fine(ch, 0, c, ready, p) /\ c.Reset = b.Reset /\ c.Mode = b.Mode
<1>. DEFINE c == [b EXCEPT !.BufferIndex = 0]
<1>1. b \in DRIVE /\ Asks(b)
  BY DEF Fine
<1>2. /\ c \in DRIVE /\ c.Status = b.Status
      /\ c.CurrentCommand = b.CurrentCommand /\ c.BufferIndex = 0
      /\ c.BufferSize = b.BufferSize /\ c.MultipleSectors = b.MultipleSectors
      /\ c.NumberOfSectors = b.NumberOfSectors
      /\ c.SectorCount = b.SectorCount /\ c.CylinderNumber = b.CylinderNumber
      /\ c.DrqIndex = b.DrqIndex /\ c.DrqBytes = b.DrqBytes
      /\ c.TotalBytesRemaining = b.TotalBytesRemaining
      /\ c.Reset = b.Reset /\ c.ResetInProgress = b.ResetInProgress
      /\ c.IdentifySet = b.IdentifySet /\ c.DriveId = b.DriveId /\ c.Mode = b.Mode
  BY <1>1 DEF DRIVE
<1>3. b.BufferIndex \in Nat /\ b.BufferSize \in Nat
  BY <1>1 DEF DRIVE
<1>. HIDE DEF c
<1>4. Asks(c)
  BY <1>1, <1>2, <1>3 DEF Asks, Several
<1>5. (p => Replies(c)) /\ Identity(ch, c)
  BY <1>2 DEF Fine, Replies, Identity
<1>6. Fine(ch, 0, c, ready, p)
  BY <1>2, <1>4, <1>5 DEF Fine
<1>. QED BY <1>2, <1>6 DEF c

LEMMA AtapiIdentifyGood ==
    ASSUME NEW m, NEW p, Good(m, p), Dnum(m, 1) = 0
    PROVE  Good(AtapiIdentify(m, 1), p) /\ Dnum(AtapiIdentify(m, 1), 1) = 0
<1>. DEFINE b == Sel(m, 1)
            c == [b EXCEPT !.BufferIndex = 0]
            e == Identified(c, "ATAPI_IDENTIFY", CdRomIdentity(c))
<1>1. Fine(1, 0, b, m.bm[1].DataReady, p) /\ 1 \in Channel
  BY GoodAt, Places
<1>2. Fine(1, 0, c, m.bm[1].DataReady, p) /\ c.Reset = b.Reset
  BY <1>1, BufferRewound
<1>3. AtapiIdentify(m, 1) = Done(m, 1, e)
  BY DEF AtapiIdentify
<1>. HIDE DEF c
<1>4. CdRomIdentity(c) = {c.Mode} \cap Words(1)
  BY DEF CdRomIdentity, Word63, Words
<1>5. Fine(1, 0, e, m.bm[1].DataReady, p) /\ e.Reset = c.Reset
  BY <1>1, <1>2, <1>4, IdentifiedFine
<1>. HIDE DEF e
<1>. QED BY <1>1, <1>2, <1>3, <1>5, ResultGood

LEMMA AtapiPacketGood ==
    ASSUME NEW m, NEW p, Good(m, p), Dnum(m, 1) = 0
    PROVE  Good(AtapiPacket(m, 1), p) /\ Dnum(AtapiPacket(m, 1), 1) = 0
<1>. DEFINE c == Sel(m, 1)
            u == Turn(c, {"BSY"}, {"DRQ"})
            dma == c.Features % 2 = 1
            e == [u EXCEPT !.PacketDma = dma, !.SectorCount = 1,
                           !.CurrentCommand = "ATAPI_PACKET", !.BufferIndex = 0]
<1>1. /\ Fine(1, 0, c, m.bm[1].DataReady, p) /\ c \in DRIVE /\ 1 \in Channel
      /\ "ATAPI_PACKET" \in Commands /\ "ATAPI_PACKET" \in Transfers
      /\ "ATAPI_PACKET" \notin Reads \cup Writes \cup Multiples
      /\ 1 \in 0..(REGISTER - 1)
  BY GoodAt, Places, Widths DEF Commands, Transfers, Reads, Writes, Multiples
<1>2. Steady(u, c) /\ Sizes(u, c) /\ u \in DRIVE
  BY <1>1, TurnFacts DEF Steady, STATUS
<1>3. AtapiPacket(m, 1) = Put(m, 1, e)
  BY DEF AtapiPacket
<1>4. dma \in BOOLEAN
  OBVIOUS
<1>. HIDE DEF u, dma, c
<1>5. e \in DRIVE
  <2>. DEFINE v == [u EXCEPT !.SectorCount = 1, !.CurrentCommand = "ATAPI_PACKET",
                             !.BufferIndex = 0]
  <2>1. v \in DRIVE
    BY <1>1, <1>2 DEF DRIVE
  <2>2. e = [v EXCEPT !.PacketDma = dma]
    BY <1>2 DEF DRIVE
  <2>. HIDE DEF v, e
  <2>. QED BY <1>4, <2>1, <2>2 DEF DRIVE
<1>6. /\ e.CurrentCommand = "ATAPI_PACKET" /\ e.SectorCount = 1
      /\ e.DriveId = u.DriveId /\ e.Mode = u.Mode /\ e.IdentifySet = u.IdentifySet
      /\ e.NumberOfSectors = u.NumberOfSectors /\ e.MultipleSectors = u.MultipleSectors
      /\ e.Reset = u.Reset /\ e.ResetInProgress = u.ResetInProgress
  BY <1>2 DEF DRIVE
<1>. HIDE DEF e
<1>7. Asks(e) /\ Replies(e) /\ Identity(1, e) /\ e.CurrentCommand \notin Alien(1)
  <2>1. 1 % 4 = 1
    OBVIOUS
  <2>. QED BY <1>1, <1>2, <1>6, <2>1 DEF Asks, Several, Replies, Identity, Alien, Steady, Fine
<1>8. Fine(1, 0, e, m.bm[1].DataReady, p) /\ e.Reset = c.Reset
  BY <1>1, <1>2, <1>5, <1>6, <1>7 DEF Fine, Steady, Sizes
<1>. QED BY <1>1, <1>3, <1>8, ResultGood DEF c

\* The drive gets its signature and asks for nothing.
LEMMA SignedStops ==
    ASSUME NEW m, NEW p, Good(m, p), NEW ch \in Channel, Dnum(m, ch) = 0,
           NEW off \in {{"DRQ"}, {"BSY", "DRQ"}}
    PROVE  LET n == HardDiskSetSignature(m, ch, 0)
               e == Turn(Sel(n, ch), off, {})
           IN  /\ Good(Put(n, ch, e), p) /\ Dnum(Put(n, ch, e), ch) = 0
               /\ Good(Done(n, ch, e), p) /\ Dnum(Done(n, ch, e), ch) = 0
<1>. DEFINE n == HardDiskSetSignature(m, ch, 0)
            c == Sel(n, ch)
            e == Turn(c, off, {})
<1>1. Good(n, p) /\ Dnum(n, ch) = 0
  BY SignatureGood, Places
<1>. HIDE DEF n
<1>2. c \in DRIVE /\ Fine(ch, 0, c, n.bm[ch].DataReady, p)
  BY <1>1, GoodAt
<1>. HIDE DEF c
<1>3. /\ Steady(e, c) /\ Sizes(e, c) /\ e.Status = (c.Status \ off) \cup {}
      /\ e.CurrentCommand = c.CurrentCommand
  BY <1>2, TurnFacts
<1>. HIDE DEF e
<1>4. Fine(ch, 0, e, n.bm[ch].DataReady, p) /\ e.Reset = c.Reset
  <2>1. Several(e)
    BY <1>2, <1>3, SeveralKept DEF Sizes
  <2>. QED BY <1>2, <1>3, <2>1, StopFine DEF Sizes
<1>5. /\ Good(Put(n, ch, e), p) /\ Dnum(Put(n, ch, e), ch) = 0
      /\ Good(Done(n, ch, e), p) /\ Dnum(Done(n, ch, e), ch) = 0
  BY <1>1, <1>4, ResultGood DEF c
<1>. QED BY <1>5 DEF e, c, n

\* The commands that only change a register or none.
Recalibrated(c) == [Idle(c) EXCEPT !.CylinderNumber = 0]
Powered(c) == [Idle(c) EXCEPT !.SectorCount = REGISTER - 1]
LEMMA IdleCommandsGood ==
    ASSUME NEW m, NEW p, Good(m, p), NEW ch \in Channel, Dnum(m, ch) = 0
    PROVE  LET c == Sel(m, ch)
               r == Done(m, ch, Recalibrated(c))
               w == Done(m, ch, Powered(c))
               f == Done(m, ch, Idle(c))
           IN  /\ Good(r, p) /\ Dnum(r, ch) = 0
               /\ Good(w, p) /\ Dnum(w, ch) = 0
               /\ Good(f, p) /\ Dnum(f, ch) = 0
<1>. DEFINE c == Sel(m, ch)
            i == Idle(c)
            r == [i EXCEPT !.CylinderNumber = 0]
            w == [i EXCEPT !.SectorCount = REGISTER - 1]
<1>1. Fine(ch, 0, c, m.bm[ch].DataReady, p)
  BY GoodAt
<1>2. /\ Fine(ch, 0, i, m.bm[ch].DataReady, p) /\ i.Reset = c.Reset
      /\ "DRQ" \notin i.Status /\ i \in DRIVE
  BY <1>1, IdleFacts DEF Steady
<1>3. 0 \in 0..(REGISTER * REGISTER - 1) /\ REGISTER - 1 \in 0..(REGISTER - 1)
  BY Widths
<1>. HIDE DEF i
<1>4. /\ r \in DRIVE /\ r.BufferSize = i.BufferSize
      /\ r.MultipleSectors = i.MultipleSectors /\ r.CurrentCommand = i.CurrentCommand
      /\ r.DriveId = i.DriveId /\ r.Mode = i.Mode /\ r.IdentifySet = i.IdentifySet
      /\ r.NumberOfSectors = i.NumberOfSectors /\ r.Status = i.Status
      /\ r.Reset = i.Reset /\ r.ResetInProgress = i.ResetInProgress
  BY <1>2, <1>3 DEF DRIVE
<1>5. /\ w \in DRIVE /\ w.BufferSize = i.BufferSize
      /\ w.MultipleSectors = i.MultipleSectors /\ w.CurrentCommand = i.CurrentCommand
      /\ w.DriveId = i.DriveId /\ w.Mode = i.Mode /\ w.IdentifySet = i.IdentifySet
      /\ w.NumberOfSectors = i.NumberOfSectors /\ w.Status = i.Status
      /\ w.Reset = i.Reset /\ w.ResetInProgress = i.ResetInProgress
  BY <1>2, <1>3 DEF DRIVE
<1>. HIDE DEF r, w
<1>6. Fine(ch, 0, r, m.bm[ch].DataReady, p) /\ r.Reset = c.Reset
  <2>1. Steady(r, i)
    BY <1>4 DEF Steady
  <2>2. Several(r)
    BY <1>2, <1>4, SeveralKept
  <2>. QED BY <1>2, <1>4, <2>1, <2>2, StopFine
<1>7. Fine(ch, 0, w, m.bm[ch].DataReady, p) /\ w.Reset = c.Reset
  <2>1. Steady(w, i)
    BY <1>5 DEF Steady
  <2>2. Several(w)
    BY <1>2, <1>5, SeveralKept
  <2>. QED BY <1>2, <1>5, <2>1, <2>2, StopFine
<1>8. Good(Done(m, ch, r), p) /\ Dnum(Done(m, ch, r), ch) = 0
  BY <1>6, ResultGood
<1>9. Good(Done(m, ch, w), p) /\ Dnum(Done(m, ch, w), ch) = 0
  BY <1>7, ResultGood
<1>10. Good(Done(m, ch, i), p) /\ Dnum(Done(m, ch, i), ch) = 0
  BY <1>2, ResultGood
<1>11. Recalibrated(c) = r /\ Powered(c) = w
  BY DEF Recalibrated, Powered, r, w, i
<1>. QED BY <1>8, <1>9, <1>10, <1>11 DEF i

LEMMA VerifyGood ==
    ASSUME NEW m, NEW p, Good(m, p), Dnum(m, 0) = 0, NEW cmd
    PROVE  LET n == Done(m, 0, Idle(HardDiskLba48Transform(Sel(m, 0), Ext(cmd))))
           IN  Good(n, p) /\ Dnum(n, 0) = 0
<1>. DEFINE c == Sel(m, 0)
            t == HardDiskLba48Transform(c, Ext(cmd))
            e == Idle(t)
<1>1. 0 \in Channel /\ c \in DRIVE /\ Fine(0, 0, c, m.bm[0].DataReady, p)
  BY Places, GoodAt
<1>2. Steady(t, c) /\ t \in DRIVE /\ t.CurrentCommand = c.CurrentCommand
      /\ t.MultipleSectors = c.MultipleSectors /\ t.BufferSize = c.BufferSize
  <2>1. Ext(cmd) \in BOOLEAN
    BY DEF Ext
  <2>. QED BY <1>1, <2>1, TransformFacts DEF Steady
<1>. HIDE DEF t
<1>3. /\ Steady(e, t) /\ Sizes(e, t) /\ e.CurrentCommand = t.CurrentCommand
      /\ e.Status = (t.Status \ {"BSY", "DRQ"}) \cup {"RDY"}
  BY <1>2, TurnFacts DEF Idle, STATUS
<1>. HIDE DEF e
<1>4. Steady(e, c) /\ "DRQ" \notin e.Status
  BY <1>2, <1>3 DEF Steady
<1>5. Fine(0, 0, e, m.bm[0].DataReady, p) /\ e.Reset = c.Reset
  <2>1. Several(e)
    BY <1>1, <1>2, <1>3, SeveralKept DEF Sizes
  <2>. QED BY <1>1, <1>2, <1>3, <1>4, <2>1, StopFine
<1>6. Good(Done(m, 0, e), p) /\ Dnum(Done(m, 0, e), 0) = 0
  BY <1>1, <1>5, ResultGood
<1>. QED BY <1>6 DEF e, t

LEMMA ExecuteGood ==
    ASSUME NEW m, NEW p, Good(m, p), NEW ch \in Channel, Dnum(m, ch) = 0,
           NEW cmd \in Commands, NEW present \in BOOLEAN, NEW taken, NEW dies,
           Honours(Sel(m, ch), cmd)
    PROVE  LET n == Execute(m, ch, cmd, present, taken, dies)
               t == HardDiskLba48Transform(Sel(m, ch), Ext(cmd))
           IN  /\ Good(n, p) /\ Dnum(n, ch) = 0
               /\ cmd \in Reads /\ n.ata[ch].Drive[0].CurrentCommand = cmd /\ t.Lba =>
                      ch = 0 /\ Tracks(n.ata[0].Drive[0], RequestOf(t))
<1>. DEFINE n == Execute(m, ch, cmd, present, taken, dies)
            t == HardDiskLba48Transform(Sel(m, ch), Ext(cmd))
            c == Sel(m, ch)
            A == HardDiskCommandAborted(m, ch)
<1>1. Good(A, p) /\ Dnum(A, ch) = 0 /\ A.ata[ch].Drive[0].CurrentCommand = NoCommand
  <2>1. Good(A, p) /\ Dnum(A, ch) = 0 /\ Sel(A, ch) = Aborted(c)
    BY AbortGood
  <2>2. c \in DRIVE
    BY GoodAt
  <2>. QED BY <2>1, <2>2, AbortedSteady DEF Sel
<1>2. CASE Foreign(ch, cmd)
  <2>1. n = A
    BY <1>2 DEF Execute, Foreign, DiskOnly, CdRomOnly, Reads, Writes, ReadDmas, WriteDmas
  <2>. HIDE DEF n, A
  <2>. QED BY <1>1, <2>1, NotACommand DEF n
<1>3. CASE ~Foreign(ch, cmd) /\ DiskOnly(cmd)
  <2>0. ch = 0
    BY <1>3, Places DEF Foreign, DriveType
  <2>1. CASE cmd \in Reads
    <3>1. n = ReadCommand(m, ch, cmd, dies)
      BY <1>3, <2>1 DEF Execute, Reads, Writes, ReadDmas, WriteDmas
    <3>. HIDE DEF n
    <3>. QED BY <2>0, <2>1, <3>1, ReadCommandGood DEF n
  <2>2. CASE cmd \in Writes
    <3>1. n = WriteCommand(m, ch, cmd, taken) /\ cmd \notin Reads
      BY <1>3, <2>2 DEF Execute, Reads, Writes, ReadDmas, WriteDmas
    <3>. HIDE DEF n
    <3>. QED BY <2>0, <2>2, <3>1, WriteCommandGood DEF n
  <2>3. CASE cmd \in ReadDmas \cup WriteDmas
    <3>1. n = DmaCommand(m, ch, cmd, present) /\ cmd \notin Reads
      BY <1>3, <2>3 DEF Execute, Reads, Writes, ReadDmas, WriteDmas
    <3>. HIDE DEF n
    <3>. QED BY <2>0, <2>3, <3>1, DmaCommandGood DEF n
  <2>4. CASE cmd = "RECALIBRATE"
    <3>1. n = Done(m, ch, Recalibrated(c)) /\ cmd \notin Reads
      BY <1>3, <2>4 DEF Execute, Reads, Writes, ReadDmas, WriteDmas, Recalibrated
    <3>. HIDE DEF n
    <3>. QED BY <3>1, IdleCommandsGood DEF n
  <2>5. CASE cmd \in {"VERIFY", "VERIFY_EXT"}
    <3>1. n = Done(m, ch, Idle(HardDiskLba48Transform(c, Ext(cmd)))) /\ cmd \notin Reads
      BY <1>3, <2>5 DEF Execute, Reads, Writes, ReadDmas, WriteDmas
    <3>. HIDE DEF n
    <3>. QED BY <2>0, <3>1, VerifyGood DEF n
  <2>6. CASE cmd = "SEEK"
    <3>1. n = SeekCommand(m, ch) /\ cmd \notin Reads
      BY <1>3, <2>6 DEF Execute, Reads, Writes, ReadDmas, WriteDmas
    <3>. HIDE DEF n
    <3>. QED BY <2>0, <3>1, SeekCommandGood DEF n
  <2>7. CASE cmd \in {"READ_NATIVE", "READ_NATIVE_EXT"}
    <3>1. n = ReadNative(m, ch, cmd) /\ cmd \notin Reads
      BY <1>3, <2>7 DEF Execute, Reads, Writes, ReadDmas, WriteDmas
    <3>. HIDE DEF n
    <3>. QED BY <2>0, <3>1, ReadNativeGood DEF n
  <2>8. CASE cmd = "SET_MULTIPLE"
    <3>1. n = SetMultiple(m, ch) /\ cmd \notin Reads
      BY <1>3, <2>8 DEF Execute, Reads, Writes, ReadDmas, WriteDmas
    <3>. HIDE DEF n
    <3>. QED BY <2>0, <2>8, <3>1, SetMultipleGood DEF n
  <2>9. CASE cmd = "SET_PARAMETERS"
    <3>1. n = SetDriveParameters(m, ch) /\ cmd \notin Reads
      BY <1>3, <2>9 DEF Execute, Reads, Writes, ReadDmas, WriteDmas
    <3>. HIDE DEF n
    <3>. QED BY <2>0, <3>1, SetDriveParametersGood DEF n
  <2>10. \/ cmd \in Reads \/ cmd \in Writes \/ cmd \in ReadDmas \cup WriteDmas
         \/ cmd = "RECALIBRATE" \/ cmd \in {"VERIFY", "VERIFY_EXT"} \/ cmd = "SEEK"
         \/ cmd \in {"READ_NATIVE", "READ_NATIVE_EXT"} \/ cmd = "SET_MULTIPLE"
         \/ cmd = "SET_PARAMETERS"
    BY <1>3 DEF DiskOnly
  <2>. HIDE DEF n, t
  <2>. QED BY <2>1, <2>2, <2>3, <2>4, <2>5, <2>6, <2>7, <2>8, <2>9, <2>10 DEF n, t
<1>4. CASE ~Foreign(ch, cmd) /\ CdRomOnly(cmd)
  <2>0. ch = 1
    BY <1>4, Places DEF Foreign, DriveType
  <2>1. CASE cmd = "ATAPI_PACKET"
    <3>1. n = AtapiPacket(m, ch) /\ cmd \notin Reads
      BY <1>4, <2>1 DEF Execute, Reads, Writes, ReadDmas, WriteDmas
    <3>. HIDE DEF n
    <3>. QED BY <2>0, <3>1, AtapiPacketGood DEF n
  <2>2. CASE cmd = "ATAPI_IDENTIFY"
    <3>1. n = AtapiIdentify(m, ch) /\ cmd \notin Reads
      BY <1>4, <2>2 DEF Execute, Reads, Writes, ReadDmas, WriteDmas
    <3>. HIDE DEF n
    <3>. QED BY <2>0, <3>1, AtapiIdentifyGood DEF n
  <2>3. CASE cmd = "ATAPI_RESET"
    <3>1. n = AtapiReset(m, ch) /\ cmd \notin Reads
      BY <1>4, <2>3 DEF Execute, Reads, Writes, ReadDmas, WriteDmas
    <3>2. Good(AtapiReset(m, ch), p) /\ Dnum(AtapiReset(m, ch), ch) = 0
      BY SignedStops DEF AtapiReset
    <3>. HIDE DEF n
    <3>. QED BY <3>1, <3>2 DEF n
  <2>4. cmd \in {"ATAPI_PACKET", "ATAPI_IDENTIFY", "ATAPI_RESET"}
    BY <1>4 DEF CdRomOnly
  <2>. HIDE DEF n, t
  <2>. QED BY <2>1, <2>2, <2>3, <2>4 DEF n, t
<1>5. CASE ~Foreign(ch, cmd) /\ ~DiskOnly(cmd) /\ ~CdRomOnly(cmd)
  <2>0. cmd \in {"IDENTIFY", "SET_FEATURE", "DIAGNOSTIC", "CHECK_POWER", "FLUSH_CACHE",
                 "ATAPI_SERVICE", "UNKNOWN"} /\ cmd \notin Reads
    BY <1>5 DEF DiskOnly, CdRomOnly, Commands, Transfers, Reads, Writes, ReadDmas, WriteDmas
  <2>1. CASE cmd = "IDENTIFY"
    <3>1. n = Identify(m, ch)
      BY <1>5, <2>1 DEF Execute, Reads, Writes, ReadDmas, WriteDmas
    <3>. HIDE DEF n
    <3>. QED BY <2>0, <3>1, IdentifyGood DEF n
  <2>2. CASE cmd = "SET_FEATURE"
    <3>1. n = SetFeature(m, ch)
      BY <1>5, <2>2 DEF Execute, Reads, Writes, ReadDmas, WriteDmas
    <3>. HIDE DEF n
    <3>. QED BY <2>0, <3>1, SetFeatureGood DEF n
  <2>3. CASE cmd = "DIAGNOSTIC"
    <3>1. n = Diagnostic(m, ch)
      BY <1>5, <2>3 DEF Execute, Reads, Writes, ReadDmas, WriteDmas
    <3>2. Good(Diagnostic(m, ch), p) /\ Dnum(Diagnostic(m, ch), ch) = 0
      BY SignedStops DEF Diagnostic
    <3>. HIDE DEF n
    <3>. QED BY <2>0, <3>1, <3>2 DEF n
  <2>4. CASE cmd = "CHECK_POWER"
    <3>1. n = Done(m, ch, Powered(c))
      BY <1>5, <2>4 DEF Execute, Reads, Writes, ReadDmas, WriteDmas, Powered
    <3>. HIDE DEF n
    <3>. QED BY <2>0, <3>1, IdleCommandsGood DEF n
  <2>5. CASE cmd = "FLUSH_CACHE"
    <3>1. n = Done(m, ch, Idle(c))
      BY <1>5, <2>5 DEF Execute, Reads, Writes, ReadDmas, WriteDmas
    <3>. HIDE DEF n
    <3>. QED BY <2>0, <3>1, IdleCommandsGood DEF n
  <2>6. CASE cmd \in {"ATAPI_SERVICE", "UNKNOWN"}
    <3>1. n = A
      BY <1>5, <2>6 DEF Execute, Reads, Writes, ReadDmas, WriteDmas
    <3>. HIDE DEF n, A
    <3>. QED BY <1>1, <2>0, <3>1 DEF n
  <2>. HIDE DEF n, t
  <2>. QED BY <2>0, <2>1, <2>2, <2>3, <2>4, <2>5, <2>6 DEF n, t
<1>. HIDE DEF n, t
<1>. QED BY <1>2, <1>3, <1>4, <1>5 DEF n, t

LEMMA WriteCommandRegisterGood ==
    ASSUME NEW m, NEW p, Good(m, p), NEW ch \in Channel,
           NEW cmd \in Commands, NEW present \in BOOLEAN, NEW taken, NEW dies,
           Honours(Sel(m, ch), cmd)
    PROVE  LET n == WriteCommandRegister(m, ch, cmd, present, taken, dies)
               t == HardDiskLba48Transform(Sel(m, ch), Ext(cmd))
           IN  /\ Good(n, p)
               /\ \/ n.ata = m.ata
                  \/ /\ Dnum(n, ch) = 0
                     /\ cmd \in Reads /\ n.ata[ch].Drive[0].CurrentCommand = cmd /\ t.Lba =>
                            ch = 0 /\ Tracks(n.ata[0].Drive[0], RequestOf(t))
<1>. DEFINE n == WriteCommandRegister(m, ch, cmd, present, taken, dies)
            l == PicLowerIrq(m, ch)
            b == Sel(l, ch)
            e == Turn(b, {"ERR"}, {})
            k == Put(l, ch, e)
            x == Execute(k, ch, cmd, present, taken, dies)
            t == HardDiskLba48Transform(Sel(m, ch), Ext(cmd))
            u == HardDiskLba48Transform(e, Ext(cmd))
<1>1. /\ Good(l, p) /\ l.ata = m.ata /\ Dnum(l, ch) = Dnum(m, ch) /\ b = Sel(m, ch)
      /\ Dnum(m, ch) \in Drive
  BY LowerGood, GoodAt
<1>2. CASE Dnum(m, ch) = 1
  BY <1>2 DEF WriteCommandRegister
<1>3. CASE Dnum(m, ch) = 0 /\ "BSY" \in b.Status
  <2>1. n = l
    BY <1>3 DEF WriteCommandRegister
  <2>. HIDE DEF n, l
  <2>. QED BY <1>1, <2>1 DEF n
<1>4. CASE Dnum(m, ch) = 0 /\ "BSY" \notin b.Status
  <2>1. n = x
    BY <1>4 DEF WriteCommandRegister
  <2>. HIDE DEF n, l, x
  <2>2. Fine(ch, 0, b, l.bm[ch].DataReady, p) /\ b \in DRIVE
    BY <1>1, <1>4, GoodAt
  <2>3. Fine(ch, 0, e, l.bm[ch].DataReady, p) /\ e.Reset = b.Reset
    BY <2>2, TurnAlike
  <2>4. Good(k, p) /\ Dnum(k, ch) = 0 /\ Sel(k, ch) = e
    BY <1>1, <1>4, <2>3, PutGood
  <2>41. Honours(e, cmd)
    <3>1. e.SectorCount = b.SectorCount
      BY <2>2, TurnFacts
    <3>. HIDE DEF e, b
    <3>. QED BY <1>1, <3>1 DEF Honours
  <2>5. Good(x, p) /\ Dnum(x, ch) = 0
        /\ (cmd \in Reads /\ x.ata[ch].Drive[0].CurrentCommand = cmd /\ u.Lba =>
                ch = 0 /\ Tracks(x.ata[0].Drive[0], RequestOf(u)))
    <3>. HIDE DEF k, e
    <3>. QED BY <2>4, <2>41, ExecuteGood DEF x, u
  <2>6. RequestOf(u) = RequestOf(t) /\ u.Lba = t.Lba
    <3>1. Here(e, b) /\ e.SectorCount = b.SectorCount /\ e \in DRIVE
      BY <2>2, TurnFacts DEF Steady
    <3>2. Ext(cmd) \in BOOLEAN
      BY DEF Ext
    <3>. HIDE DEF e, b
    <3>3. /\ u.Lba = e.Lba /\ u.Lba48 = Ext(cmd) /\ u.CylinderNumber = e.CylinderNumber
          /\ u.HeadNumber = e.HeadNumber /\ u.SectorNumber = e.SectorNumber
      BY <3>1, <3>2, TransformFacts
    <3>4. /\ t.Lba = b.Lba /\ t.Lba48 = Ext(cmd) /\ t.CylinderNumber = b.CylinderNumber
          /\ t.HeadNumber = b.HeadNumber /\ t.SectorNumber = b.SectorNumber
      BY <1>1, <2>2, <3>2, TransformFacts
    <3>5. u.NumberOfSectors = t.NumberOfSectors
      BY <1>1, <2>2, <3>1 DEF HardDiskLba48Transform, DRIVE
    <3>. HIDE DEF u, t
    <3>6. Here(u, t)
      BY <3>1, <3>3, <3>4 DEF Here
    <3>. QED BY <3>5, <3>6, SameAddress DEF RequestOf, Here
  <2>. HIDE DEF u, t
  <2>. QED BY <2>1, <2>5, <2>6 DEF n, t
<1>. QED BY <1>1, <1>2, <1>3, <1>4, Places

-----------------------------------------------------------------------------
(***************************************************************************)
(* The data port.  A drive may be without room between two of the steps of *)
(* a handler, so the steps are put together before the machine is looked   *)
(* at.                                                                     *)
(***************************************************************************)

\* All but the status and the buffer.
Kept(e, c) ==
    /\ Steady(e, c) /\ Here(e, c)
    /\ e.NumberOfSectors = c.NumberOfSectors /\ e.MultipleSectors = c.MultipleSectors
    /\ e.CurrentCommand = c.CurrentCommand /\ e.SectorCount = c.SectorCount
    /\ e.DrqIndex = c.DrqIndex /\ e.DrqBytes = c.DrqBytes
    /\ e.TotalBytesRemaining = c.TotalBytesRemaining
LEMMA KeptAgain ==
    ASSUME NEW e, NEW u, NEW c, Kept(e, u), Kept(u, c)
    PROVE  Kept(e, c)
BY DEF Kept, Steady, Here
LEMMA TurnKept ==
    ASSUME NEW c \in DRIVE, NEW off, NEW on \in SUBSET STATUS
    PROVE  LET e == Turn(c, off, on)
           IN  /\ Kept(e, c) /\ e.Status = (c.Status \ off) \cup on
               /\ e.BufferIndex = c.BufferIndex /\ e.BufferSize = c.BufferSize
BY TurnFacts DEF Kept, Sizes

LEMMA KeptFine ==
    ASSUME NEW ch \in Channel, NEW c, NEW ready, NEW p, Fine(ch, 0, c, ready, p),
           NEW e, Kept(e, c),
           "DRQ" \in e.Status =>
               /\ "DRQ" \in c.Status
               /\ c.CurrentCommand \in Reads \cup Writes =>
                      e.BufferIndex < e.BufferSize /\ e.BufferSize = c.BufferSize,
           \/ e.BufferSize = c.BufferSize \/ e.BufferSize <= BufferTotalSize
           \/ c.CurrentCommand \notin Reads \cup Writes \/ ch = 1
    PROVE  Fine(ch, 0, e, ready, p) /\ e.Reset = c.Reset
<1>1. Asks(e)
  BY DEF Fine, Kept, Asks, Several, Alien
<1>2. (p => Replies(e)) /\ Identity(ch, e)
  BY DEF Fine, Kept, Replies, Identity, Steady, Here
<1>. QED BY <1>1, <1>2 DEF Fine, Kept, Steady

Buffered(c, i, z) == [c EXCEPT !.BufferIndex = i, !.BufferSize = z]
LEMMA BufferedKept ==
    ASSUME NEW c \in DRIVE, NEW i \in Nat, NEW z \in Nat
    PROVE  LET e == Buffered(c, i, z)
           IN  /\ Kept(e, c) /\ e.Status = c.Status
               /\ e.BufferIndex = i /\ e.BufferSize = z
<1>. DEFINE e == Buffered(c, i, z)
<1>1. e \in DRIVE
  BY DEF DRIVE, Buffered
<1>2. /\ e.Reset = c.Reset /\ e.ResetInProgress = c.ResetInProgress
      /\ e.Mode = c.Mode /\ e.DriveId = c.DriveId /\ e.IdentifySet = c.IdentifySet
      /\ e.NumberOfSectors = c.NumberOfSectors /\ e.MultipleSectors = c.MultipleSectors
      /\ e.Status = c.Status /\ e.CurrentCommand = c.CurrentCommand
      /\ e.BufferIndex = i /\ e.BufferSize = z
  BY DEF DRIVE, Buffered
<1>3. /\ e.Lba = c.Lba /\ e.Lba48 = c.Lba48
      /\ e.CylinderNumber = c.CylinderNumber /\ e.HeadNumber = c.HeadNumber
      /\ e.SectorNumber = c.SectorNumber /\ e.SectorCount = c.SectorCount
      /\ e.DrqIndex = c.DrqIndex /\ e.DrqBytes = c.DrqBytes
      /\ e.TotalBytesRemaining = c.TotalBytesRemaining
  BY DEF DRIVE, Buffered
<1>. HIDE DEF e
<1>. QED BY <1>1, <1>2, <1>3 DEF Kept, Steady, Here, e

LEMMA BufferedIs ==
    ASSUME NEW c \in DRIVE, NEW i, NEW z
    PROVE  /\ [c EXCEPT !.BufferIndex = i] = Buffered(c, i, c.BufferSize)
           /\ [c EXCEPT !.BufferSize = z] = Buffered(c, c.BufferIndex, z)
BY DEF DRIVE, Buffered

LEMMA ResizedKept ==
    ASSUME NEW c \in DRIVE
    PROVE  LET e == Resized(c)
               cmd == c.CurrentCommand
           IN  /\ Kept(e, c) /\ e.Status = c.Status /\ e.BufferIndex = c.BufferIndex
               /\ e.BufferSize = IF cmd \in Multiples THEN BlockSize(c, cmd) ELSE c.BufferSize
<1>. DEFINE e == Resized(c)
            b == BlockSize(c, c.CurrentCommand)
<1>1. b \in Nat
  BY BlockSizeFacts
<1>2. c.BufferIndex \in Nat /\ c.BufferSize \in Nat
  BY DEF DRIVE
<1>3. CASE c.CurrentCommand \in Multiples
  <2>1. e = Buffered(c, c.BufferIndex, b)
    BY <1>3, BufferedIs DEF Resized
  <2>. HIDE DEF e, b
  <2>. QED BY <1>1, <1>2, <1>3, <2>1, BufferedKept DEF e, b
<1>4. CASE c.CurrentCommand \notin Multiples
  <2>1. e = c
    BY <1>4 DEF Resized
  <2>2. Kept(c, c)
    BY DEF Kept, Steady, Here
  <2>. QED BY <1>4, <2>1, <2>2
<1>. QED BY <1>3, <1>4

\* A monitor that is gone still finishes the handler.
LEMMA PutExit ==
    ASSUME NEW m \in MACHINE, NEW ch \in Channel, NEW c
    PROVE  Exit(Put(m, ch, c)) = Put(Exit(m), ch, c) /\ Exit(m) \in MACHINE
           /\ Dnum(Exit(m), ch) = Dnum(m, ch) /\ Exit(m).bm = m.bm
<1>. DEFINE a == [m.ata EXCEPT ![ch].Drive[Dnum(m, ch)] = c]
            x == Exit(m)
<1>1. x.ata = m.ata /\ x \in MACHINE /\ x.bm = m.bm /\ Dnum(x, ch) = Dnum(m, ch)
  BY DEF Exit, MACHINE, Dnum
<1>2. Put(m, ch, c) = [m EXCEPT !.ata = a]
  BY DEF Put
<1>3. Put(x, ch, c) = [x EXCEPT !.ata = [x.ata EXCEPT ![ch].Drive[Dnum(x, ch)] = c]]
  BY DEF Put
<1>4. Put(x, ch, c) = [x EXCEPT !.ata = a]
  BY <1>1, <1>3
<1>. HIDE DEF a
<1>5. Exit(Put(m, ch, c)) = [x EXCEPT !.ata = a]
  BY <1>2 DEF Exit, MACHINE
<1>. QED BY <1>1, <1>4, <1>5

LEMMA PutSel ==
    ASSUME NEW m \in MACHINE, NEW ch \in Channel, NEW c \in DRIVE
    PROVE  Sel(Put(m, ch, c), ch) = c /\ Dnum(Put(m, ch, c), ch) = Dnum(m, ch)
           /\ Put(m, ch, c) \in MACHINE /\ Put(m, ch, c).bm = m.bm
<1>. DEFINE d == Dnum(m, ch)
            n == PutAt(m, ch, d, c)
<1>1. d \in Drive
  BY DEF MACHINE, ATA_CHANNEL, Dnum
<1>2. n.ata[ch].DriveSelect = m.ata[ch].DriveSelect /\ n.ata[ch].Drive[d] = c
      /\ n \in MACHINE /\ n.bm = m.bm
  BY <1>1, PutAtFacts
<1>3. Put(m, ch, c) = n
  BY PutIsPutAt
<1>. HIDE DEF n
<1>. QED BY <1>2, <1>3 DEF Sel, Dnum

\* The sectors of a buffer are read, and the monitor is there still or not.
LEMMA SectorsRead ==
    ASSUME NEW m, NEW p, Good(m, p), NEW s \in DRIVE, NEW dies
    PROVE  LET w == After(s, SectorsOf(s))
           IN  /\ Moved(w, s)
               /\ \E k : /\ HardDiskReadSector(Put(m, 0, s), 0, dies) = Put(k, 0, w)
                         /\ Good(k, p) /\ k.ata = m.ata /\ k.bm = m.bm
<1>. DEFINE w == After(s, SectorsOf(s))
            a == Put(m, 0, s)
            n == Put(a, 0, w)
            x == Exit(m)
<1>0. 0 \in Channel /\ m \in MACHINE
  BY Places DEF Good
<1>1. Moved(w, s)
  BY SectorsOfNat, AfterMoved
<1>2. Sel(a, 0) = s
  BY <1>0, PutSel
<1>3. HardDiskReadSector(a, 0, dies) = Put(a, 0, w) \/ HardDiskReadSector(a, 0, dies) = Exit(Put(a, 0, w))
  <2>. HIDE DEF a
  <2>. QED BY <1>2 DEF HardDiskReadSector
<1>4. Put(a, 0, w) = Put(m, 0, w)
  BY <1>0, PutTwice
<1>5. Exit(Put(m, 0, w)) = Put(x, 0, w)
  BY <1>0, PutExit
<1>6. Good(x, p) /\ x.ata = m.ata /\ x.bm = m.bm
  BY ExitGood
<1>. HIDE DEF x, w, a
<1>7. HardDiskReadSector(a, 0, dies) = Put(m, 0, w) \/ HardDiskReadSector(a, 0, dies) = Put(x, 0, w)
  BY <1>3, <1>4, <1>5
<1>. QED BY <1>1, <1>6, <1>7 DEF a, w

LEMMA AtKept ==
    ASSUME NEW e, NEW c, Kept(e, c), NEW r
    PROVE  At(e, r) <=> At(c, r)
<1>1. HardDiskCalculateLogicalAddress(e) = HardDiskCalculateLogicalAddress(c)
  BY SameAddress DEF Kept
<1>2. e.Lba = c.Lba /\ e.NumberOfSectors = c.NumberOfSectors
  BY DEF Kept, Here
<1>. QED BY <1>1, <1>2 DEF At

\* The next block of a read, or its end.
LEMMA ReadBlockGood ==
    ASSUME NEW m, NEW p, Good(m, p), Dnum(m, 0) = 0, NEW i \in Nat, NEW dies,
           "DRQ" \in Sel(m, 0).Status, Sel(m, 0).CurrentCommand \in Reads
    PROVE  LET c == Sel(m, 0)
               n == ReadBlock(Put(m, 0, Buffered(c, i, c.BufferSize)), 0, dies)
           IN  /\ Good(n, p) /\ Dnum(n, 0) = 0
               /\ \A r : Tracks(c, r) => Tracks(n.ata[0].Drive[0], r)
<1>. DEFINE c == Sel(m, 0)
            cmd == c.CurrentCommand
            b == Buffered(c, i, c.BufferSize)
            a == Put(m, 0, b)
            z == Resized(b)
            u == Turn(z, {"BSY", "ERR"}, {"RDY"})
            v == Turn(u, {}, {"DRQ"})
            w == After(v, SectorsOf(v))
            x == Buffered(w, 0, w.BufferSize)
            y == Turn(u, {"DRQ"}, {})
            l == HardDiskReadSector(Put(a, 0, v), 0, dies)
            n == ReadBlock(a, 0, dies)
<1>1. /\ 0 \in Channel /\ c \in DRIVE /\ Fine(0, 0, c, m.bm[0].DataReady, p)
      /\ m \in MACHINE /\ c.BufferSize \in Nat /\ c.BufferIndex \in Nat
  BY Places, GoodAt DEF DRIVE
<1>2. "DRQ" \in c.Status /\ cmd \in Reads /\ cmd # "ATAPI_PACKET"
      /\ cmd \in Transfers
  BY DEF Reads, Transfers
<1>3. Kept(b, c) /\ b.Status = c.Status /\ b.BufferSize = c.BufferSize /\ b \in DRIVE
  <2>1. Kept(b, c) /\ b.Status = c.Status /\ b.BufferSize = c.BufferSize
    BY <1>1, BufferedKept
  <2>. HIDE DEF b, c
  <2>. QED BY <2>1 DEF Kept, Steady
<1>4. Sel(a, 0) = b
  BY <1>1, <1>3, PutSel
<1>5. n = IF u.NumberOfSectors # 0
          THEN Done(l, 0, [Sel(l, 0) EXCEPT !.BufferIndex = 0])
          ELSE Put(a, 0, y)
  <2>. HIDE DEF b, c, n
  <2>1. Sel(a, 0) = b
    BY <1>4
  <2>. HIDE DEF a
  <2>2. n = IF u.NumberOfSectors # 0
            THEN Done(l, 0, [Sel(l, 0) EXCEPT !.BufferIndex = 0])
            ELSE Put(a, 0, y)
    BY <2>1, Zenon DEF ReadBlock, n
  <2>. QED BY <2>2
<1>. HIDE DEF b
<1>6. /\ Kept(z, b) /\ z.Status = b.Status /\ z \in DRIVE
      /\ z.BufferSize = IF cmd \in Multiples THEN BlockSize(b, cmd) ELSE c.BufferSize
  <2>1. b.CurrentCommand = cmd
    BY <1>3 DEF Kept
  <2>2. /\ Kept(z, b) /\ z.Status = b.Status
        /\ z.BufferSize = IF b.CurrentCommand \in Multiples
                          THEN BlockSize(b, b.CurrentCommand) ELSE b.BufferSize
    BY <1>3, ResizedKept
  <2>. HIDE DEF z
  <2>. QED BY <1>3, <2>1, <2>2 DEF Kept, Steady
<1>. HIDE DEF z, c
<1>7. Kept(u, z) /\ u.BufferSize = z.BufferSize /\ u \in DRIVE
  BY <1>6, TurnKept DEF STATUS, Kept, Steady
<1>. HIDE DEF u
<1>8. Kept(u, c)
  BY <1>3, <1>6, <1>7, KeptAgain
<1>9. CASE u.NumberOfSectors # 0
  <2>1. /\ Kept(v, u) /\ v.BufferSize = u.BufferSize /\ v \in DRIVE
        /\ v.Status = (u.Status \ {}) \cup {"DRQ"}
    BY <1>7, TurnKept DEF STATUS, Kept, Steady
  <2>. HIDE DEF v
  <2>2. Kept(v, c) /\ "DRQ" \in v.Status
    BY <1>8, <2>1, KeptAgain
  <2>3. /\ v.NumberOfSectors # 0 /\ v.NumberOfSectors = b.NumberOfSectors
        /\ v.NumberOfSectors \in Nat /\ v.CurrentCommand = cmd
        /\ b.NumberOfSectors = c.NumberOfSectors /\ b.MultipleSectors = c.MultipleSectors
    BY <1>3, <1>9, <2>1, <2>2 DEF Kept, DRIVE
  <2>4. cmd \in Multiples => b.MultipleSectors > 0
    BY <1>1, <2>3 DEF Fine, Asks, Several
  <2>5. v.BufferSize > 0 /\ (cmd \in Multiples => SectorsOf(v) \in 1..v.NumberOfSectors)
    <3>1. CASE cmd \in Multiples
      <4>. DEFINE B == BlockSize(b, cmd)
      <4>1. /\ B > 0 /\ Blocks(b, cmd) \in 1..b.NumberOfSectors
            /\ (B + HARDDISK_SECTOR_SIZE - 1) \div HARDDISK_SECTOR_SIZE = Blocks(b, cmd)
        BY <1>3, <2>3, <2>4, BlockSizeFacts
      <4>2. v.BufferSize = B
        BY <1>6, <1>7, <2>1, <3>1
      <4>. HIDE DEF B
      <4>. QED BY <2>3, <4>1, <4>2 DEF SectorsOf
    <3>2. CASE cmd \notin Multiples
      <4>1. c.BufferIndex < c.BufferSize
        BY <1>1, <1>2 DEF Fine, Asks
      <4>. QED BY <1>1, <1>6, <1>7, <2>1, <3>2, <4>1
    <3>. QED BY <3>1, <3>2
  <2>51. v.BufferSize <= BufferTotalSize /\ c.MultipleSectors <= MAX_MULTIPLE_SECTORS
    <3>1. c.MultipleSectors <= MAX_MULTIPLE_SECTORS /\ c.BufferSize <= BufferTotalSize
      BY <1>1, <1>2 DEF Fine, Asks, Several
    <3>2. BlockSize(b, cmd) <= BufferTotalSize
      BY <1>3, <2>3, <3>1, BlockSizeFacts
    <3>. QED BY <1>6, <1>7, <2>1, <3>1, <3>2
  <2>6. PICK k : /\ HardDiskReadSector(Put(m, 0, v), 0, dies) = Put(k, 0, w)
                 /\ Good(k, p) /\ k.ata = m.ata /\ k.bm = m.bm
    BY <2>1, SectorsRead
  <2>7. Moved(w, v)
    BY <2>1, SectorsRead
  <2>8. l = Put(k, 0, w)
    BY <1>1, <2>6, PutTwice
  <2>9. ASSUME NEW r, Tracks(c, r) PROVE At(w, r)
    <3>1. At(v, r) /\ r.first \in Nat /\ r.count \in Nat
      BY <2>2, <2>9, AtKept, Widths DEF Tracks
    <3>2. SectorsOf(v) \in 0..v.NumberOfSectors
      <4>1. CASE cmd \in Multiples
        BY <2>3, <2>5, <4>1
      <4>2. CASE cmd \notin Multiples
        <5>1. v.BufferSize = HARDDISK_SECTOR_SIZE
          BY <1>6, <1>7, <2>1, <2>9, <4>2 DEF Tracks
        <5>2. HARDDISK_SECTOR_SIZE \in Nat \ {0}
          BY Widths
        <5>3. (HARDDISK_SECTOR_SIZE * 1 + HARDDISK_SECTOR_SIZE - 1) \div HARDDISK_SECTOR_SIZE = 1
          BY <5>2, BlocksOf
        <5>4. HARDDISK_SECTOR_SIZE * 1 = HARDDISK_SECTOR_SIZE
          BY <5>2
        <5>5. SectorsOf(v) = 1
          BY <5>1, <5>3, <5>4, Zenon DEF SectorsOf
        <5>. QED BY <2>3, <5>5
      <4>. QED BY <4>1, <4>2
    <3>. QED BY <2>1, <3>1, <3>2, AfterAt
  <2>. HIDE DEF w, l, a
  <2>10. w \in DRIVE /\ k \in MACHINE /\ w.BufferSize \in Nat
    BY <2>6, <2>7 DEF Moved, Good, DRIVE
  <2>11. Sel(l, 0) = w
    BY <1>1, <2>8, <2>10, PutSel
  <2>12. [w EXCEPT !.BufferIndex = 0] = x
    BY <2>10, BufferedIs
  <2>13. n = Done(k, 0, x)
    <3>1. n = Done(l, 0, x)
      BY <1>5, <1>9, <2>11, <2>12
    <3>. QED BY <1>1, <2>8, <2>10, <3>1, PutTwice DEF Done
  <2>14. Kept(x, w) /\ x.Status = w.Status /\ x.BufferIndex = 0 /\ x.BufferSize = w.BufferSize
    BY <2>10, BufferedKept
  <2>. HIDE DEF x, n
  <2>15. Steady(x, c)
    BY <2>2, <2>7, <2>14 DEF Kept, Steady, Moved
  <2>16. /\ "DRQ" \in x.Status /\ x.CurrentCommand = cmd /\ x.BufferSize = v.BufferSize
         /\ x.MultipleSectors = c.MultipleSectors
    BY <2>2, <2>3, <2>7, <2>14 DEF Kept, Moved
  <2>17. Asks(x)
    BY <1>2, <2>3, <2>4, <2>5, <2>51, <2>14, <2>16 DEF Asks, Several
  <2>18. Fine(0, 0, x, k.bm[0].DataReady, p) /\ x.Reset = c.Reset
    BY <1>1, <1>2, <2>6, <2>15, <2>16, <2>17, DiskFine
  <2>19. Sel(k, 0) = c /\ Dnum(k, 0) = 0
    BY <2>6 DEF Sel, Dnum, c
  <2>20. Good(n, p) /\ Dnum(n, 0) = 0 /\ Sel(n, 0) = x
    BY <1>1, <2>6, <2>13, <2>18, <2>19, DoneGood
  <2>21. n.ata[0].Drive[0] = x
    BY <2>20 DEF Sel
  <2>22. ASSUME NEW r, Tracks(c, r) PROVE Tracks(x, r)
    <3>1. At(x, r)
      BY <2>9, <2>14, <2>22, AtKept
    <3>2. cmd \notin Multiples => x.BufferSize = HARDDISK_SECTOR_SIZE
      BY <1>6, <1>7, <2>1, <2>16, <2>22 DEF Tracks
    <3>. QED BY <1>2, <2>16, <2>22, <3>1, <3>2 DEF Tracks
  <2>. QED BY <2>20, <2>21, <2>22 DEF n, a, b, c
<1>10. CASE u.NumberOfSectors = 0
  <2>1. n = Put(m, 0, y)
    <3>1. n = Put(a, 0, y)
      BY <1>5, <1>10
    <3>. QED BY <1>1, <3>1, PutTwice
  <2>2. /\ Kept(y, u) /\ y.BufferSize = u.BufferSize
        /\ y.Status = (u.Status \ {"DRQ"}) \cup {}
    BY <1>7, TurnKept
  <2>. HIDE DEF y, n
  <2>3. Kept(y, c) /\ "DRQ" \notin y.Status
    BY <1>8, <2>2, KeptAgain
  <2>4. Fine(0, 0, y, m.bm[0].DataReady, p) /\ y.Reset = c.Reset
    <3>1. c.MultipleSectors <= MAX_MULTIPLE_SECTORS /\ b.MultipleSectors = c.MultipleSectors
      BY <1>1, <1>3 DEF Fine, Asks, Several, Kept
    <3>2. y.BufferSize = c.BufferSize \/ y.BufferSize <= BufferTotalSize
      BY <1>3, <1>6, <1>7, <2>2, <3>1, BlockSizeFacts
    <3>. QED BY <1>1, <2>3, <3>2, KeptFine
  <2>5. Good(n, p) /\ Dnum(n, 0) = 0 /\ Sel(n, 0) = y
    BY <1>1, <2>1, <2>4, PutGood DEF c
  <2>6. n.ata[0].Drive[0] = y
    BY <2>5 DEF Sel
  <2>7. ASSUME NEW r, Tracks(c, r) PROVE Tracks(y, r)
    <3>1. At(y, r)
      BY <2>3, <2>7, AtKept DEF Tracks
    <3>2. y.CurrentCommand = cmd /\ y.NumberOfSectors = 0
      BY <1>10, <2>2, <2>3 DEF Kept
    <3>3. cmd \notin Multiples => y.BufferSize = HARDDISK_SECTOR_SIZE
      BY <1>6, <1>7, <2>2, <2>7 DEF Tracks
    <3>. QED BY <1>2, <2>7, <3>1, <3>2, <3>3 DEF Tracks
  <2>. QED BY <2>5, <2>6, <2>7 DEF n, a, b, c
<1>. QED BY <1>9, <1>10

LEMMA ReadDataGood ==
    ASSUME NEW m, NEW p, Good(m, p), Dnum(m, 0) = 0, NEW Length \in Nat \ {0}, NEW dies,
           "DRQ" \in Sel(m, 0).Status, Sel(m, 0).CurrentCommand \in Reads
    PROVE  LET n == ReadData(m, 0, Length, dies)
           IN  /\ Good(n, p) /\ Dnum(n, 0) = 0
               /\ \A r : Tracks(Sel(m, 0), r) => Tracks(n.ata[0].Drive[0], r)
<1>. DEFINE c == Sel(m, 0)
            i == c.BufferIndex + Length
            b == Buffered(c, i, c.BufferSize)
            n == ReadData(m, 0, Length, dies)
<1>1. /\ 0 \in Channel /\ c \in DRIVE /\ Fine(0, 0, c, m.bm[0].DataReady, p)
      /\ c.BufferSize \in Nat /\ c.BufferIndex \in Nat /\ m.ata[0].Drive[0] = c
  BY Places, GoodAt DEF DRIVE
<1>2. c.BufferIndex < c.BufferSize
  BY <1>1 DEF Fine, Asks
<1>3. [c EXCEPT !.BufferIndex = @ + Length] = b /\ b.BufferIndex = i /\ i \in Nat
  <2>1. i \in Nat
    BY <1>1
  <2>2. [c EXCEPT !.BufferIndex = i] = b
    BY <1>1, BufferedIs
  <2>3. b.BufferIndex = i
    BY <1>1, <2>1, BufferedKept
  <2>. QED BY <2>1, <2>2, <2>3
<1>4. \/ n = m
      \/ n = Put(m, 0, b) /\ c.BufferSize > i
      \/ n = ReadBlock(Put(m, 0, b), 0, dies)
  <2>. HIDE DEF b, c, i, n
  <2>1. n = CASE c.BufferIndex >= c.BufferSize -> Exit(m)
              [] c.BufferIndex < c.BufferSize /\ c.BufferSize < i -> m
              [] c.BufferSize > i -> Put(m, 0, b)
              [] c.BufferSize = i -> ReadBlock(Put(m, 0, b), 0, dies)
    BY <1>3 DEF ReadData, n, c
  <2>. QED BY <1>1, <1>2, <1>3, <2>1
<1>5. CASE n = m
  BY <1>1, <1>5
<1>6. CASE n = Put(m, 0, b) /\ c.BufferSize > i
  <2>1. Kept(b, c) /\ b.Status = c.Status /\ b.BufferIndex = i /\ b.BufferSize = c.BufferSize
    BY <1>1, <1>3, BufferedKept
  <2>. HIDE DEF b, n, c
  <2>2. Fine(0, 0, b, m.bm[0].DataReady, p) /\ b.Reset = c.Reset
    BY <1>1, <1>3, <1>6, <2>1, KeptFine
  <2>3. Good(n, p) /\ Dnum(n, 0) = 0 /\ Sel(n, 0) = b
    BY <1>1, <1>6, <2>2, PutGood DEF c
  <2>4. n.ata[0].Drive[0] = b
    BY <2>3 DEF Sel
  <2>5. ASSUME NEW r, Tracks(c, r) PROVE Tracks(b, r)
    <3>1. At(b, r)
      BY <2>1, <2>5, AtKept DEF Tracks
    <3>. QED BY <2>1, <2>5, <3>1 DEF Tracks, Kept
  <2>. QED BY <2>3, <2>4, <2>5 DEF n, c
<1>7. CASE n = ReadBlock(Put(m, 0, b), 0, dies)
  <2>. HIDE DEF n
  <2>1. /\ Good(n, p) /\ Dnum(n, 0) = 0
        /\ \A r : Tracks(c, r) => Tracks(n.ata[0].Drive[0], r)
    BY <1>3, <1>7, ReadBlockGood
  <2>. QED BY <2>1 DEF n
<1>. QED BY <1>4, <1>5, <1>6, <1>7

LEMMA ReadIdentityGood ==
    ASSUME NEW m, NEW p, Good(m, p), NEW ch \in Channel, Dnum(m, ch) = 0, NEW Length \in Nat,
           Sel(m, ch).CurrentCommand \in {"IDENTIFY", "ATAPI_IDENTIFY"}
    PROVE  LET n == ReadIdentity(m, ch, Length)
           IN  Good(n, p) /\ Dnum(n, ch) = 0
<1>. DEFINE c == Sel(m, ch)
            u == Turn(c, {"BSY", "ERR"}, {"RDY"})
            off == IF u.BufferIndex + Length >= HARDDISK_SECTOR_SIZE THEN {"DRQ"} ELSE {}
            v == Turn(u, off, {})
            e == Buffered(v, v.BufferIndex + Length, v.BufferSize)
<1>1. c \in DRIVE /\ Fine(ch, 0, c, m.bm[ch].DataReady, p)
  BY GoodAt
<1>2. c.CurrentCommand \notin Reads \cup Writes
  BY DEF Reads, Writes
<1>3. Kept(u, c) /\ u.Status = (c.Status \ {"BSY", "ERR"}) \cup {"RDY"} /\ u \in DRIVE
  <2>1. Kept(u, c) /\ u.Status = (c.Status \ {"BSY", "ERR"}) \cup {"RDY"}
    BY <1>1, TurnKept DEF STATUS
  <2>. HIDE DEF u, c
  <2>. QED BY <2>1 DEF Kept, Steady
<1>4. ReadIdentity(m, ch, Length) = Put(m, ch, [v EXCEPT !.BufferIndex = @ + Length])
  BY DEF ReadIdentity
<1>. HIDE DEF u, c, off
<1>5. Kept(v, u) /\ v.Status = (u.Status \ off) \cup {} /\ v \in DRIVE
  <2>1. Kept(v, u) /\ v.Status = (u.Status \ off) \cup {}
    BY <1>3, TurnKept
  <2>. HIDE DEF v
  <2>. QED BY <2>1 DEF Kept, Steady
<1>. HIDE DEF v
<1>6. v.BufferIndex \in Nat /\ v.BufferSize \in Nat /\ v.BufferIndex + Length \in Nat
  BY <1>5 DEF DRIVE
<1>7. [v EXCEPT !.BufferIndex = @ + Length] = e /\ Kept(e, v) /\ e.Status = v.Status
  <2>1. [v EXCEPT !.BufferIndex = v.BufferIndex + Length] = e
    BY <1>5, BufferedIs
  <2>2. Kept(e, v) /\ e.Status = v.Status
    BY <1>5, <1>6, BufferedKept
  <2>. QED BY <2>1, <2>2
<1>. HIDE DEF e
<1>8. Kept(e, c)
  BY <1>3, <1>5, <1>7, KeptAgain
<1>9. "DRQ" \in e.Status => "DRQ" \in c.Status
  BY <1>3, <1>5, <1>7
<1>10. Fine(ch, 0, e, m.bm[ch].DataReady, p) /\ e.Reset = c.Reset
  BY <1>1, <1>2, <1>8, <1>9, KeptFine
<1>. QED BY <1>4, <1>7, <1>10, PutGood DEF c

\* What the packet commands leave alone.
Held(e, c) ==
    /\ Steady(e, c)
    /\ e.NumberOfSectors = c.NumberOfSectors /\ e.MultipleSectors = c.MultipleSectors
    /\ e.CurrentCommand = c.CurrentCommand
LEMMA HeldAgain ==
    ASSUME NEW e, NEW u, NEW c, Held(e, u), Held(u, c)
    PROVE  Held(e, c)
BY DEF Held, Steady
LEMMA HeldSelf ==
    ASSUME NEW c \in DRIVE
    PROVE  Held(c, c)
BY DEF Held, Steady
LEMMA HeldFine ==
    ASSUME NEW c, NEW ready, NEW p, Fine(1, 0, c, ready, p),
           NEW e, Held(e, c), NEW q, q => Replies(e),
           "DRQ" \in e.Status => c.CurrentCommand = "ATAPI_PACKET"
    PROVE  Fine(1, 0, e, ready, q) /\ e.Reset = c.Reset
<1>1. "ATAPI_PACKET" \in Transfers /\ "ATAPI_PACKET" \notin Reads \cup Writes
  BY DEF Transfers, Reads, Writes
<1>2. Asks(e)
  BY <1>1 DEF Fine, Held, Asks, Several, Alien
<1>3. Identity(1, e)
  BY DEF Fine, Held, Identity, Steady
<1>. QED BY <1>2, <1>3 DEF Fine, Held, Steady

LEMMA TurnHeld ==
    ASSUME NEW c \in DRIVE, NEW off, NEW on \in SUBSET STATUS
    PROVE  LET e == Turn(c, off, on)
           IN  /\ Held(e, c) /\ e \in DRIVE /\ e.Status = (c.Status \ off) \cup on
               /\ e.SectorCount = c.SectorCount /\ e.CylinderNumber = c.CylinderNumber
               /\ e.DrqIndex = c.DrqIndex /\ e.DrqBytes = c.DrqBytes
               /\ e.TotalBytesRemaining = c.TotalBytesRemaining
<1>. DEFINE e == Turn(c, off, on)
<1>1. Kept(e, c) /\ e.Status = (c.Status \ off) \cup on
  BY TurnKept
<1>. HIDE DEF e
<1>2. Kept(e, c) => Held(e, c) /\ e \in DRIVE
  BY DEF Kept, Held, Steady
<1>. QED BY <1>1, <1>2 DEF Kept, Here, e

LEMMA ReasonHeld ==
    ASSUME NEW c \in DRIVE, NEW a \in 0..1, NEW b \in 0..1
    PROVE  LET e == Reason(c, a, b)
           IN  /\ Held(e, c) /\ e \in DRIVE /\ e.Status = c.Status
               /\ e.BufferSize = c.BufferSize
               /\ e.SectorCount % 4 = a + 2 * b
               /\ e.CylinderNumber = c.CylinderNumber
               /\ e.DrqIndex = c.DrqIndex /\ e.DrqBytes = c.DrqBytes
               /\ e.TotalBytesRemaining = c.TotalBytesRemaining
               /\ e.PacketDma = c.PacketDma
<1>. DEFINE x == c.SectorCount - (c.SectorCount % 4) + a + 2 * b
            e == [c EXCEPT !.SectorCount = x]
<1>1. c.SectorCount \in 0..(REGISTER - 1) /\ REGISTER \in Nat /\ REGISTER % 4 = 0
  BY Widths DEF DRIVE
<1>2. x \in 0..(REGISTER - 1) /\ x % 4 = a + 2 * b
  BY <1>1, ReasonBits
<1>3. Reason(c, a, b) = e
  BY DEF Reason
<1>. HIDE DEF x
<1>4. /\ e \in DRIVE /\ e.SectorCount = x /\ e.Status = c.Status
      /\ e.Reset = c.Reset /\ e.ResetInProgress = c.ResetInProgress
      /\ e.Mode = c.Mode /\ e.DriveId = c.DriveId /\ e.IdentifySet = c.IdentifySet
      /\ e.NumberOfSectors = c.NumberOfSectors /\ e.MultipleSectors = c.MultipleSectors
      /\ e.CurrentCommand = c.CurrentCommand
  BY <1>2 DEF DRIVE
<1>5. /\ e.CylinderNumber = c.CylinderNumber
      /\ e.DrqIndex = c.DrqIndex /\ e.DrqBytes = c.DrqBytes
      /\ e.TotalBytesRemaining = c.TotalBytesRemaining /\ e.PacketDma = c.PacketDma
      /\ e.BufferSize = c.BufferSize
  BY DEF DRIVE
<1>. HIDE DEF e
<1>6. Held(e, c)
  BY <1>4 DEF Held, Steady
<1>. QED BY <1>2, <1>3, <1>4, <1>5, <1>6

\* The registers of a chunk.
Chunked(c, cylinder, index, bytes, total) ==
    [c EXCEPT !.CylinderNumber = cylinder, !.DrqIndex = index, !.DrqBytes = bytes,
              !.TotalBytesRemaining = total]
HasChunk(e, c, cylinder, index, bytes, total) ==
    /\ Held(e, c) /\ e \in DRIVE /\ e.Status = c.Status
    /\ e.SectorCount = c.SectorCount
    /\ e.CylinderNumber = cylinder /\ e.DrqIndex = index /\ e.DrqBytes = bytes
    /\ e.TotalBytesRemaining = total
LEMMA ChunkedHeld ==
    ASSUME NEW c \in DRIVE, NEW cylinder \in 0..(REGISTER * REGISTER - 1),
           NEW index \in Nat, NEW bytes \in Nat, NEW total \in 0..(DWORD - 1)
    PROVE  HasChunk(Chunked(c, cylinder, index, bytes, total), c,
                    cylinder, index, bytes, total)
<1>. DEFINE e == Chunked(c, cylinder, index, bytes, total)
<1>1. e \in DRIVE
  BY DEF DRIVE, Chunked
<1>2. /\ e.Status = c.Status
      /\ e.Reset = c.Reset /\ e.ResetInProgress = c.ResetInProgress
      /\ e.Mode = c.Mode /\ e.DriveId = c.DriveId /\ e.IdentifySet = c.IdentifySet
      /\ e.NumberOfSectors = c.NumberOfSectors /\ e.MultipleSectors = c.MultipleSectors
      /\ e.CurrentCommand = c.CurrentCommand
  BY DEF DRIVE, Chunked
<1>3. /\ e.SectorCount = c.SectorCount
      /\ e.CylinderNumber = cylinder /\ e.DrqIndex = index /\ e.DrqBytes = bytes
      /\ e.TotalBytesRemaining = total
  BY DEF DRIVE, Chunked
<1>. HIDE DEF e
<1>4. Held(e, c)
  BY <1>1, <1>2 DEF Held, Steady
<1>. QED BY <1>1, <1>2, <1>3, <1>4 DEF e, HasChunk

\* What is left of a reply when a chunk has been read.
LEMMA ChunkGood ==
    ASSUME NEW c \in DRIVE, NEW q,
           q => c.CylinderNumber > 0
    PROVE  LET e == Chunk(c)
           IN  /\ Held(e, c) /\ e \in DRIVE
               /\ q => Replies(e)
<1>. DEFINE left == (c.TotalBytesRemaining + DWORD - c.DrqBytes) % DWORD
            next == Minimum(left, c.CylinderNumber)
            d == [c EXCEPT !.DrqIndex = 0, !.TotalBytesRemaining = left]
            dd == Chunked(c, c.CylinderNumber, 0, c.DrqBytes, left)
            t == Turn(d, {"BSY"}, {"DRQ"})
            r == Reason(t, 0, 1)
            e == [r EXCEPT !.CylinderNumber = next, !.DrqBytes = next]
            ee == Chunked(r, next, r.DrqIndex, next, r.TotalBytesRemaining)
            u == Turn(d, {"BSY", "DRQ", "ERR"}, {"RDY"})
            f == Reason(u, 1, 1)
<1>1. /\ c.TotalBytesRemaining \in 0..(DWORD - 1) /\ c.DrqBytes \in Nat /\ DWORD \in Nat \ {0}
      /\ c.CylinderNumber \in 0..(REGISTER * REGISTER - 1) /\ REGISTER * REGISTER \in Nat
  BY Widths DEF DRIVE
<1>2. left \in 0..(DWORD - 1)
  <2>1. c.TotalBytesRemaining + DWORD - c.DrqBytes \in Int
    BY <1>1
  <2>. QED BY <1>1, <2>1, ModIn
<1>3. Chunk(c) = IF left > 0 THEN e ELSE f
  BY DEF Chunk
<1>4. d = dd
  BY DEF Chunked, DRIVE
<1>. HIDE DEF left
<1>5. next \in 0..(REGISTER * REGISTER - 1) /\ next \in Nat /\ next <= left
      /\ (left > 0 /\ c.CylinderNumber > 0 => next > 0)
  BY <1>1, <1>2 DEF Minimum
<1>6. /\ Held(d, c) /\ d \in DRIVE /\ d.Status = c.Status
      /\ d.DrqIndex = 0 /\ d.TotalBytesRemaining = left
  <2>1. 0 \in Nat
    OBVIOUS
  <2>2. HasChunk(dd, c, c.CylinderNumber, 0, c.DrqBytes, left)
    BY <1>1, <1>2, <2>1, ChunkedHeld
  <2>. HIDE DEF d, dd
  <2>. QED BY <1>4, <2>2 DEF HasChunk
<1>. HIDE DEF d, dd, next
<1>7. CASE left > 0
  <2>1. Held(t, d) /\ t \in DRIVE /\ t.DrqIndex = 0 /\ t.TotalBytesRemaining = left
    BY <1>6, TurnHeld DEF STATUS
  <2>. HIDE DEF t
  <2>2. /\ Held(r, t) /\ r \in DRIVE /\ r.SectorCount % 4 = 2
        /\ r.DrqIndex = 0 /\ r.TotalBytesRemaining = left
    BY <2>1, ReasonHeld
  <2>. HIDE DEF r
  <2>3. e = ee
    BY <2>2 DEF Chunked, DRIVE
  <2>4. /\ Held(e, r) /\ e \in DRIVE /\ e.SectorCount = r.SectorCount
        /\ e.CylinderNumber = next /\ e.DrqIndex = 0 /\ e.DrqBytes = next
        /\ e.TotalBytesRemaining = left
    <3>1. r.DrqIndex \in Nat /\ r.TotalBytesRemaining \in 0..(DWORD - 1)
      BY <1>2, <2>2
    <3>2. HasChunk(ee, r, next, r.DrqIndex, next, r.TotalBytesRemaining)
      BY <1>5, <2>2, <3>1, ChunkedHeld
    <3>. HIDE DEF e, ee
    <3>. QED BY <2>2, <2>3, <3>2 DEF HasChunk
  <2>. HIDE DEF e, ee
  <2>5. Held(e, c)
    BY <1>6, <2>1, <2>2, <2>4, HeldAgain
  <2>6. q => Replies(e)
    BY <1>1, <1>5, <1>7, <2>2, <2>4 DEF Replies
  <2>. QED BY <1>3, <1>7, <2>4, <2>5, <2>6
<1>8. CASE ~(left > 0)
  <2>1. Held(u, d) /\ u \in DRIVE /\ u.Status = (d.Status \ {"BSY", "DRQ", "ERR"}) \cup {"RDY"}
    BY <1>6, TurnHeld DEF STATUS
  <2>. HIDE DEF u
  <2>2. Held(f, u) /\ f \in DRIVE /\ f.Status = u.Status
    BY <2>1, ReasonHeld
  <2>. HIDE DEF f
  <2>3. Held(f, c)
    BY <1>6, <2>1, <2>2, HeldAgain
  <2>4. Replies(f)
    BY <2>1, <2>2 DEF Replies
  <2>. QED BY <1>3, <1>8, <2>2, <2>3, <2>4
<1>. QED BY <1>7, <1>8

LEMMA LoadedKept ==
    ASSUME NEW c \in DRIVE
    PROVE  LET e == [c EXCEPT !.BufferIndex = 0, !.LbAddress = @ + 1,
                              !.RemainingBlocks = Minus1(@, DWORD)]
           IN  Kept(e, c) /\ e \in DRIVE /\ e.Status = c.Status
<1>. DEFINE l == c.LbAddress + 1
            b == Minus1(c.RemainingBlocks, DWORD)
            e == [c EXCEPT !.BufferIndex = 0, !.LbAddress = l, !.RemainingBlocks = b]
<1>1. l \in Nat
  BY DEF DRIVE
<1>2. b \in Nat
  <2>1. c.RemainingBlocks + DWORD - 1 \in Int /\ DWORD \in Nat \ {0}
    BY Widths DEF DRIVE
  <2>2. b \in 0..(DWORD - 1)
    BY <2>1, ModIn DEF Minus1
  <2>. QED BY <2>1, <2>2
<1>. HIDE DEF l, b
<1>3. e \in DRIVE
  BY <1>1, <1>2 DEF DRIVE
<1>4. /\ e.Reset = c.Reset /\ e.ResetInProgress = c.ResetInProgress
      /\ e.Mode = c.Mode /\ e.DriveId = c.DriveId /\ e.IdentifySet = c.IdentifySet
      /\ e.NumberOfSectors = c.NumberOfSectors /\ e.MultipleSectors = c.MultipleSectors
      /\ e.Status = c.Status /\ e.CurrentCommand = c.CurrentCommand
  BY DEF DRIVE
<1>5. /\ e.Lba = c.Lba /\ e.Lba48 = c.Lba48
      /\ e.CylinderNumber = c.CylinderNumber /\ e.HeadNumber = c.HeadNumber
      /\ e.SectorNumber = c.SectorNumber /\ e.SectorCount = c.SectorCount
      /\ e.DrqIndex = c.DrqIndex /\ e.DrqBytes = c.DrqBytes
      /\ e.TotalBytesRemaining = c.TotalBytesRemaining
  BY DEF DRIVE
<1>. HIDE DEF e
<1>. QED BY <1>3, <1>4, <1>5 DEF Kept, Steady, Here, e, l, b

Handed(c, Length) == [c EXCEPT !.BufferIndex = @ + Length, !.DrqIndex = @ + Length]
LEMMA HandedHeld ==
    ASSUME NEW c \in DRIVE, NEW Length \in Nat
    PROVE  LET e == Handed(c, Length)
           IN  /\ Held(e, c) /\ e \in DRIVE /\ e.Status = c.Status
               /\ e.SectorCount = c.SectorCount /\ e.CylinderNumber = c.CylinderNumber
               /\ e.DrqBytes = c.DrqBytes /\ e.TotalBytesRemaining = c.TotalBytesRemaining
               /\ e.DrqIndex \in Nat /\ e.DrqBytes \in Nat
<1>. DEFINE i == c.BufferIndex + Length
            j == c.DrqIndex + Length
            e == [c EXCEPT !.BufferIndex = i, !.DrqIndex = j]
<1>1. i \in Nat /\ j \in Nat /\ c.DrqBytes \in Nat
  <2>1. c.BufferIndex \in Nat /\ c.DrqIndex \in Nat /\ c.DrqBytes \in Nat
    BY DEF DRIVE
  <2>. QED BY <2>1
<1>2. Handed(c, Length) = e
  BY DEF Handed
<1>. HIDE DEF i, j
<1>3. e \in DRIVE
  BY <1>1 DEF DRIVE
<1>4. /\ e.Reset = c.Reset /\ e.ResetInProgress = c.ResetInProgress
      /\ e.Mode = c.Mode /\ e.DriveId = c.DriveId /\ e.IdentifySet = c.IdentifySet
      /\ e.NumberOfSectors = c.NumberOfSectors /\ e.MultipleSectors = c.MultipleSectors
      /\ e.CurrentCommand = c.CurrentCommand
  BY DEF DRIVE
<1>5. /\ e.Status = c.Status
      /\ e.SectorCount = c.SectorCount /\ e.CylinderNumber = c.CylinderNumber
      /\ e.DrqBytes = c.DrqBytes /\ e.TotalBytesRemaining = c.TotalBytesRemaining
      /\ e.DrqIndex = j
  BY DEF DRIVE
<1>. HIDE DEF e
<1>6. Held(e, c)
  BY <1>3, <1>4 DEF Held, Steady
<1>. QED BY <1>1, <1>2, <1>3, <1>5, <1>6

LEMMA ReadPacketDataGood ==
    ASSUME NEW m, Good(m, TRUE), Dnum(m, 1) = 0, NEW Length \in Nat, NEW q,
           "DRQ" \in Sel(m, 1).Status, Sel(m, 1).CurrentCommand = "ATAPI_PACKET",
           q => Sel(m, 1).SectorCount % 4 >= 2
    PROVE  Good(ReadPacketData(m, 1, Length), q)
<1>. DEFINE c == Sel(m, 1)
            loads == c.BufferIndex = c.BufferSize /\ c.AtapiCommand = "READ"
            f == IF loads THEN [c EXCEPT !.BufferIndex = 0, !.LbAddress = @ + 1,
                                         !.RemainingBlocks = Minus1(@, DWORD)]
                 ELSE c
            e == Handed(f, Length)
            n == ReadPacketData(m, 1, Length)
<1>1. 1 \in Channel /\ c \in DRIVE /\ Fine(1, 0, c, m.bm[1].DataReady, TRUE)
  <2>1. 1 \in Channel
    BY Places
  <2>. QED BY <2>1, GoodAt, Zenon
<1>2. Good(m, q)
  BY GoodWeaker
<1>3. q => /\ c.SectorCount % 4 = 2 /\ c.DrqBytes <= c.TotalBytesRemaining
           /\ c.CylinderNumber > 0
  <2>1. Replies(c) /\ c.SectorCount \in Nat
    BY <1>1, Widths DEF Fine, DRIVE
  <2>2. c.SectorCount % 4 \in 0..3
    BY <2>1
  <2>3. c.SectorCount % 4 # 3
    BY <2>1 DEF Replies
  <2>4. q => c.SectorCount % 4 = 2
    BY <2>2, <2>3
  <2>. QED BY <2>1, <2>4 DEF Replies
<1>4. Kept(f, c) /\ f \in DRIVE /\ f.Status = c.Status
  <2>1. CASE loads
    <3>. DEFINE g == [c EXCEPT !.BufferIndex = 0, !.LbAddress = @ + 1,
                               !.RemainingBlocks = Minus1(@, DWORD)]
    <3>1. Kept(g, c) /\ g \in DRIVE /\ g.Status = c.Status
      BY <1>1, LoadedKept
    <3>2. f = g
      BY <2>1
    <3>. HIDE DEF f, g
    <3>. QED BY <3>1, <3>2
  <2>2. CASE ~loads
    BY <1>1, <2>2 DEF Kept, Steady, Here
  <2>. QED BY <2>1, <2>2
<1>5. \/ n = m
      \/ n = Exit(m)
      \/ n = Done(m, 1, Chunk(e))
      \/ n = Put(m, 1, e) /\ ~(e.DrqIndex >= e.DrqBytes)
  BY DEF ReadPacketData, Handed
<1>0. Fine(1, 0, c, m.bm[1].DataReady, q) /\ c.CurrentCommand = "ATAPI_PACKET"
  <2>1. 1 \in Channel
    BY Places
  <2>. QED BY <1>2, <2>1, GoodAt, Zenon
<1>. HIDE DEF f, c, n
<1>6. /\ Held(e, f) /\ e \in DRIVE /\ e.Status = f.Status
      /\ e.SectorCount = f.SectorCount /\ e.CylinderNumber = f.CylinderNumber
      /\ e.DrqBytes = f.DrqBytes /\ e.TotalBytesRemaining = f.TotalBytesRemaining
      /\ e.DrqIndex \in Nat /\ e.DrqBytes \in Nat
  BY <1>4, HandedHeld
<1>. HIDE DEF e
<1>7. Held(e, c)
  BY <1>4, <1>6 DEF Held, Kept, Steady
<1>8. /\ e.SectorCount = c.SectorCount /\ e.CylinderNumber = c.CylinderNumber
      /\ e.DrqBytes = c.DrqBytes /\ e.TotalBytesRemaining = c.TotalBytesRemaining
  BY <1>4, <1>6 DEF Kept, Here
<1>9. CASE n = m
  BY <1>2, <1>9 DEF n
<1>10. CASE n = Exit(m)
  BY <1>2, <1>10, ExitGood DEF n
<1>11. CASE n = Done(m, 1, Chunk(e))
  <2>. DEFINE h == Chunk(e)
  <2>1. Held(h, e) /\ (q => Replies(h))
    BY <1>3, <1>6, <1>8, ChunkGood
  <2>. HIDE DEF h
  <2>2. Held(h, c)
    BY <1>7, <2>1, HeldAgain
  <2>3. Fine(1, 0, h, m.bm[1].DataReady, q) /\ h.Reset = c.Reset
    BY <1>0, <1>1, <2>1, <2>2, HeldFine
  <2>4. Good(Done(m, 1, h), q)
    BY <1>1, <1>2, <2>3, DoneGood DEF c
  <2>. QED BY <1>11, <2>4 DEF h, n
<1>12. CASE n = Put(m, 1, e) /\ ~(e.DrqIndex >= e.DrqBytes)
  <2>1. q => Replies(e)
    BY <1>3, <1>6, <1>8, <1>12 DEF Replies
  <2>2. Fine(1, 0, e, m.bm[1].DataReady, q) /\ e.Reset = c.Reset
    BY <1>0, <1>1, <1>7, <2>1, HeldFine
  <2>3. Good(Put(m, 1, e), q)
    BY <1>1, <1>2, <2>2, PutGood DEF c
  <2>. QED BY <1>12, <2>3 DEF n
<1>. QED BY <1>5, <1>9, <1>10, <1>11, <1>12 DEF n

LEMMA PortIoRead0Good ==
    ASSUME NEW m, Good(m, TRUE), NEW ch \in Channel, NEW Length \in Nat \ {0}, NEW dies,
           NEW q, q /\ Sel(m, ch).CurrentCommand = "ATAPI_PACKET" =>
                      Sel(m, ch).SectorCount % 4 >= 2
    PROVE  LET n == PortIoRead0(m, ch, Length, dies)
           IN  /\ Good(n, q)
               /\ ch = 0 /\ Dnum(m, 0) = 0 =>
                      /\ Dnum(n, 0) = 0
                      /\ \A r : Tracks(Sel(m, 0), r) => Tracks(n.ata[0].Drive[0], r)
<1>. DEFINE c == Sel(m, ch)
            cmd == c.CurrentCommand
            n == PortIoRead0(m, ch, Length, dies)
<1>1. /\ Good(m, q) /\ Dnum(m, ch) \in Drive
      /\ Fine(ch, Dnum(m, ch), c, m.bm[ch].DataReady, TRUE)
      /\ c = m.ata[ch].Drive[Dnum(m, ch)]
  <2>1. Good(m, q)
    BY GoodWeaker
  <2>. QED BY <2>1, GoodAt, Zenon
<1>2. /\ "DRQ" \notin c.Status => n = m
      /\ "DRQ" \in c.Status /\ cmd \in Reads => n = ReadData(m, ch, Length, dies)
      /\ "DRQ" \in c.Status /\ cmd \in {"IDENTIFY", "ATAPI_IDENTIFY"} =>
             n = ReadIdentity(m, ch, Length)
      /\ "DRQ" \in c.Status /\ cmd = "ATAPI_PACKET" => n = ReadPacketData(m, ch, Length)
      /\ cmd \notin Reads \cup {"IDENTIFY", "ATAPI_IDENTIFY", "ATAPI_PACKET"} => n = m
  BY DEF PortIoRead0, Reads
<1>. HIDE DEF n
<1>3. CASE n = m
  <2>1. ch = 0 /\ Dnum(m, 0) = 0 => Sel(m, 0) = n.ata[0].Drive[0]
    BY <1>1, <1>3
  <2>. QED BY <1>1, <1>3, <2>1 DEF n
<1>4. CASE "DRQ" \in c.Status
  <2>1. Dnum(m, ch) = 0
    BY <1>1, <1>4, Places DEF Fine, Silent
  <2>2. CASE cmd \in Reads
    <3>1. ch = 0
      BY <1>1, <2>2, Places DEF Fine, Alien
    <3>2. /\ Good(n, q) /\ Dnum(n, 0) = 0
          /\ \A r : Tracks(Sel(m, 0), r) => Tracks(n.ata[0].Drive[0], r)
      BY <1>1, <1>2, <1>4, <2>1, <2>2, <3>1, ReadDataGood
    <3>. QED BY <3>2 DEF n
  <2>3. CASE cmd \in {"IDENTIFY", "ATAPI_IDENTIFY"}
    <3>1. Good(n, q) /\ Dnum(n, ch) = 0
      BY <1>1, <1>2, <1>4, <2>1, <2>3, ReadIdentityGood
    <3>2. cmd \notin Reads
      BY <2>3 DEF Reads
    <3>3. ch = 0 => \A r : ~Tracks(Sel(m, 0), r)
      BY <3>2 DEF Tracks
    <3>. QED BY <3>1, <3>3 DEF n
  <2>4. CASE cmd = "ATAPI_PACKET"
    <3>1. ch = 1
      BY <1>1, <2>4, Places DEF Fine, Alien
    <3>2. /\ Dnum(m, 1) = 0 /\ "DRQ" \in Sel(m, 1).Status /\ Length \in Nat
          /\ Sel(m, 1).CurrentCommand = "ATAPI_PACKET"
          /\ q => Sel(m, 1).SectorCount % 4 >= 2
      BY <1>4, <2>1, <2>4, <3>1
    <3>3. Good(ReadPacketData(m, 1, Length), q)
      BY <3>2, ReadPacketDataGood, Zenon
    <3>. QED BY <1>2, <1>4, <2>4, <3>1, <3>3 DEF n
  <2>5. CASE cmd \notin Reads \cup {"IDENTIFY", "ATAPI_IDENTIFY", "ATAPI_PACKET"}
    BY <1>2, <1>3, <2>5
  <2>. QED BY <2>2, <2>3, <2>4, <2>5
<1>. QED BY <1>2, <1>3, <1>4

LEMMA DivPositive ==
    ASSUME NEW z \in Nat \ {0}, NEW S \in Nat \ {0}
    PROVE  (z + S - 1) \div S # 0
<1>. DEFINE x == z + S - 1
<1>1. x \in Int /\ x >= S
  OBVIOUS
<1>. HIDE DEF x
<1>2. x % S = x - S * (x \div S) /\ x % S \in 0..(S - 1) /\ x \div S \in Int
  BY <1>1, DivMod, Zenon
<1>3. SUFFICES ASSUME x \div S = 0 PROVE FALSE
  BY DEF x
<1>4. S * (x \div S) = 0
  BY <1>3
<1>. QED BY <1>1, <1>2, <1>4

\* The guest has filled the buffer of a write.
LEMMA WriteBlockGood ==
    ASSUME NEW m, NEW p, Good(m, p), Dnum(m, 0) = 0, NEW i \in Nat, NEW taken,
           Sel(m, 0).CurrentCommand \in Writes,
           Sel(m, 0).BufferIndex < Sel(m, 0).BufferSize
    PROVE  LET c == Sel(m, 0)
               n == WriteBlock(Put(m, 0, Buffered(c, i, c.BufferSize)), 0, taken)
           IN  Good(n, p)
<1>. DEFINE c == Sel(m, 0)
            cmd == c.CurrentCommand
            b == Buffered(c, i, c.BufferSize)
            a == Put(m, 0, b)
            g == Written(b, taken)
            k == HardDiskWriteSector(a, 0, taken)
            z == Resized(g.c)
            y == [z EXCEPT !.BufferIndex = 0]
            x == IF y.NumberOfSectors # 0 THEN Turn(y, {"BSY", "ERR"}, {"RDY", "DRQ"})
                 ELSE Turn(y, {"BSY", "DRQ", "ERR"}, {"RDY"})
            n == WriteBlock(a, 0, taken)
<1>1. /\ 0 \in Channel /\ c \in DRIVE /\ Fine(0, 0, c, m.bm[0].DataReady, p)
      /\ m \in MACHINE /\ c.BufferSize \in Nat \ {0}
  <2>1. 0 \in Channel /\ c \in DRIVE /\ Fine(0, 0, c, m.bm[0].DataReady, p)
        /\ m \in MACHINE
    BY Places, GoodAt
  <2>2. c.BufferIndex \in Nat /\ c.BufferSize \in Nat
    BY <2>1 DEF DRIVE
  <2>. QED BY <2>1, <2>2
<1>2. cmd \in Writes /\ cmd # "ATAPI_PACKET" /\ cmd \in Transfers
  BY DEF Writes, Transfers
<1>3. Kept(b, c) /\ b.BufferSize = c.BufferSize /\ b.Status = c.Status
  BY <1>1, BufferedKept
<1>. HIDE DEF b
<1>4. b \in DRIVE /\ b.CurrentCommand = cmd /\ b.MultipleSectors = c.MultipleSectors
  BY <1>3 DEF Kept, Steady
<1>5. Sel(a, 0) = b
  BY <1>1, <1>4, PutSel
<1>6. SectorsOf(b) # 0
  <2>1. b.BufferSize \in Nat \ {0} /\ HARDDISK_SECTOR_SIZE \in Nat \ {0}
    BY <1>1, <1>3, Widths
  <2>. QED BY <2>1, DivPositive DEF SectorsOf
<1>7. Moved(g.c, b)
  BY <1>4, WrittenMoved
<1>8. /\ k = IF g.all THEN Put(a, 0, g.c) ELSE HardDiskCommandAborted(Put(a, 0, g.c), 0)
      /\ WriteSectorFails(a, 0, taken) <=> ~g.all
  <2>. HIDE DEF a
  <2>. QED BY <1>5, <1>6 DEF HardDiskWriteSector, WriteSectorFails
<1>9. Put(a, 0, g.c) = Put(m, 0, g.c)
  BY <1>1, PutTwice
<1>. HIDE DEF g
<1>10. CASE ~g.all
  <2>1. Steady(g.c, c)
    BY <1>3, <1>7 DEF Moved, Kept, Steady
  <2>. DEFINE v == g.c
              l == HardDiskCommandAborted(Put(m, 0, v), 0)
  <2>. HIDE DEF v
  <2>2. Good(l, p)
    BY <1>1, <2>1, PutAbortGood DEF v
  <2>3. n = l
    <3>. HIDE DEF k, a
    <3>1. n = k
      BY <1>8, <1>10, Zenon DEF WriteBlock, k
    <3>. QED BY <1>8, <1>9, <1>10, <3>1 DEF v
  <2>. HIDE DEF n, l
  <2>4. Good(n, p)
    BY <2>2, <2>3
  <2>. QED BY <2>4 DEF n, a, b, c
<1>11. CASE g.all
  <2>. DEFINE v == g.c
  <2>1. v \in DRIVE /\ k = Put(m, 0, v)
    BY <1>7, <1>8, <1>9, <1>11 DEF Moved
  <2>2. Sel(k, 0) = v
    BY <1>1, <2>1, PutSel
  <2>3. n = Done(k, 0, x)
    <3>. HIDE DEF k, a
    <3>1. n = LET h == [Resized(Sel(k, 0)) EXCEPT !.BufferIndex = 0]
              IN  Done(k, 0, IF h.NumberOfSectors # 0
                             THEN Turn(h, {"BSY", "ERR"}, {"RDY", "DRQ"})
                             ELSE Turn(h, {"BSY", "DRQ", "ERR"}, {"RDY"}))
      BY <1>8, <1>11, Zenon DEF WriteBlock, k
    <3>. QED BY <2>2, <3>1
  <2>4. n = Done(m, 0, x)
    BY <1>1, <2>1, <2>3, PutTwice DEF Done
  <2>. HIDE DEF v, n, k
  <2>5. /\ Kept(z, v) /\ z.BufferSize = IF v.CurrentCommand \in Multiples
                                        THEN BlockSize(v, v.CurrentCommand) ELSE v.BufferSize
    BY <2>1, ResizedKept DEF v
  <2>6. /\ v.CurrentCommand = cmd /\ v.MultipleSectors = c.MultipleSectors
        /\ v.BufferSize = c.BufferSize /\ Steady(v, c)
    BY <1>3, <1>4, <1>7 DEF Moved, Kept, Steady, v
  <2>. HIDE DEF z
  <2>7. z \in DRIVE /\ z.BufferSize \in Nat
    BY <2>5 DEF Kept, Steady, DRIVE
  <2>8. Kept(y, z) /\ y.BufferIndex = 0 /\ y.BufferSize = z.BufferSize
    <3>. DEFINE h == Buffered(z, 0, z.BufferSize)
    <3>1. y = h
      BY <2>7, BufferedIs
    <3>2. Kept(h, z) /\ h.BufferIndex = 0 /\ h.BufferSize = z.BufferSize
      BY <2>7, BufferedKept
    <3>. HIDE DEF y, h
    <3>. QED BY <3>1, <3>2
  <2>. HIDE DEF y
  <2>9. y \in DRIVE
    BY <2>8 DEF Kept, Steady
  <2>10. Kept(y, v)
    BY <2>5, <2>8, KeptAgain
  <2>11. /\ Kept(x, y) /\ x.BufferIndex = 0 /\ x.BufferSize = z.BufferSize
         /\ "DRQ" \in x.Status => y.NumberOfSectors # 0
    <3>1. CASE y.NumberOfSectors # 0
      <4>. DEFINE t == Turn(y, {"BSY", "ERR"}, {"RDY", "DRQ"})
      <4>1. Kept(t, y) /\ t.BufferIndex = y.BufferIndex /\ t.BufferSize = y.BufferSize
        BY <2>9, TurnKept DEF STATUS
      <4>2. x = t
        BY <3>1
      <4>. HIDE DEF x, t
      <4>. QED BY <2>8, <3>1, <4>1, <4>2
    <3>2. CASE ~(y.NumberOfSectors # 0)
      <4>. DEFINE t == Turn(y, {"BSY", "DRQ", "ERR"}, {"RDY"})
      <4>1. Kept(t, y) /\ t.BufferIndex = y.BufferIndex /\ t.BufferSize = y.BufferSize
            /\ t.Status = (y.Status \ {"BSY", "DRQ", "ERR"}) \cup {"RDY"}
        BY <2>9, TurnKept DEF STATUS
      <4>2. x = t
        BY <3>2
      <4>. HIDE DEF x, t
      <4>. QED BY <2>8, <4>1, <4>2
    <3>. QED BY <3>1, <3>2
  <2>. HIDE DEF x
  <2>12. Kept(x, v)
    BY <2>10, <2>11, KeptAgain
  <2>13. Steady(x, c) /\ x.CurrentCommand = cmd /\ x.MultipleSectors = c.MultipleSectors
    BY <2>6, <2>12 DEF Kept, Steady
  <2>14. cmd \in Multiples => c.MultipleSectors > 0
    BY <1>1 DEF Fine, Asks, Several
  <2>15. v.NumberOfSectors # 0 => x.BufferSize > 0
    <3>1. CASE cmd \in Multiples
      <4>1. v.NumberOfSectors # 0 => BlockSize(v, cmd) > 0
        BY <2>1, <2>6, <2>14, BlockSizeFacts DEF v
      <4>. QED BY <2>5, <2>6, <2>11, <3>1, <4>1
    <3>2. CASE cmd \notin Multiples
      BY <1>1, <2>5, <2>6, <2>11, <3>2
    <3>. QED BY <3>1, <3>2
  <2>151. x.BufferSize <= BufferTotalSize /\ c.MultipleSectors <= MAX_MULTIPLE_SECTORS
    <3>1. c.MultipleSectors <= MAX_MULTIPLE_SECTORS /\ c.BufferSize <= BufferTotalSize
      BY <1>1, <1>2 DEF Fine, Asks, Several
    <3>2. BlockSize(v, cmd) <= BufferTotalSize
      BY <2>1, <2>6, <3>1, BlockSizeFacts DEF v
    <3>. QED BY <2>5, <2>6, <2>11, <3>1, <3>2
  <2>16. Asks(x)
    BY <2>151, <1>2, <2>10, <2>11, <2>13, <2>14, <2>15 DEF Asks, Several, Kept
  <2>17. Fine(0, 0, x, m.bm[0].DataReady, p) /\ x.Reset = c.Reset
    BY <1>1, <1>2, <2>13, <2>16, DiskFine
  <2>18. Good(n, p)
    BY <1>1, <2>4, <2>17, DoneGood DEF c
  <2>. QED BY <2>18 DEF n, a, b, c
<1>. QED BY <1>10, <1>11 DEF n, a, b, c

LEMMA WriteDataGood ==
    ASSUME NEW m, NEW p, Good(m, p), Dnum(m, 0) = 0, NEW Length \in Nat, NEW taken,
           Sel(m, 0).CurrentCommand \in Writes
    PROVE  Good(WriteData(m, 0, Length, taken), p)
<1>. DEFINE c == Sel(m, 0)
            i == c.BufferIndex + Length
            b == Buffered(c, i, c.BufferSize)
            n == WriteData(m, 0, Length, taken)
<1>1. /\ 0 \in Channel /\ c \in DRIVE /\ Fine(0, 0, c, m.bm[0].DataReady, p)
      /\ c.BufferSize \in Nat /\ c.BufferIndex \in Nat
  BY Places, GoodAt DEF DRIVE
<1>2. i \in Nat
  BY <1>1
<1>3. [c EXCEPT !.BufferIndex = i] = b
  BY <1>1, BufferedIs
<1>4. Kept(b, c) /\ b.Status = c.Status /\ b.BufferIndex = i /\ b.BufferSize = c.BufferSize
  BY <1>1, <1>2, BufferedKept
<1>5. \/ n = Exit(m)
      \/ n = Put(m, 0, b) /\ c.BufferSize > i
      \/ n = WriteBlock(Put(m, 0, b), 0, taken) /\ c.BufferIndex < c.BufferSize
  <2>. HIDE DEF b, c, n
  <2>1. [c EXCEPT !.BufferIndex = @ + Length] = b
    BY <1>3
  <2>. HIDE DEF i
  <2>2. n = CASE c.BufferIndex >= c.BufferSize -> Exit(m)
              [] c.BufferIndex < c.BufferSize /\ c.BufferSize > i -> Put(m, 0, b)
              [] OTHER -> WriteBlock(Put(m, 0, b), 0, taken)
    BY <1>4, <2>1 DEF WriteData, n, c
  <2>. QED BY <1>1, <1>2, <2>2
<1>6. CASE n = Exit(m)
  BY <1>6, ExitGood
<1>7. CASE n = Put(m, 0, b) /\ c.BufferSize > i
  <2>. HIDE DEF b, n, c
  <2>1. Fine(0, 0, b, m.bm[0].DataReady, p) /\ b.Reset = c.Reset
    BY <1>1, <1>2, <1>4, <1>7, KeptFine
  <2>2. Good(n, p)
    BY <1>1, <1>7, <2>1, PutGood DEF c
  <2>. QED BY <2>2 DEF n
<1>8. CASE n = WriteBlock(Put(m, 0, b), 0, taken) /\ c.BufferIndex < c.BufferSize
  <2>. HIDE DEF n
  <2>1. Good(n, p)
    BY <1>2, <1>8, WriteBlockGood
  <2>. QED BY <2>1 DEF n
<1>. QED BY <1>5, <1>6, <1>7, <1>8

-----------------------------------------------------------------------------
(***************************************************************************)
(* The packets.                                                            *)
(***************************************************************************)

\* A drive in a packet that the guest has given a limit.
Packets(m, p) ==
    /\ Good(m, p) /\ Dnum(m, 1) = 0
    /\ Sel(m, 1).CurrentCommand = "ATAPI_PACKET"
    /\ p => Sel(m, 1).CylinderNumber > 1
LEMMA PacketsAt ==
    ASSUME NEW m, NEW p, Packets(m, p)
    PROVE  /\ 1 \in Channel /\ m \in MACHINE /\ Good(m, p) /\ Dnum(m, 1) = 0
           /\ Sel(m, 1) \in DRIVE
           /\ Fine(1, 0, Sel(m, 1), m.bm[1].DataReady, p)
           /\ Sel(m, 1).CurrentCommand = "ATAPI_PACKET"
           /\ p => Sel(m, 1).CylinderNumber > 1
BY Places, GoodAt DEF Packets

\* A packet that ends at once.
LEMMA PacketDone ==
    ASSUME NEW m, NEW p, Packets(m, p), NEW off, NEW on \in SUBSET STATUS,
           "DRQ" \in off, "DRQ" \notin on
    PROVE  LET e == Reason(Turn(Sel(m, 1), off, on), 1, 1)
           IN  Packets(Done(m, 1, e), p)
<1>. DEFINE c == Sel(m, 1)
            u == Turn(c, off, on)
            e == Reason(u, 1, 1)
            n == Done(m, 1, e)
<1>1. /\ 1 \in Channel /\ Good(m, p) /\ Dnum(m, 1) = 0 /\ c \in DRIVE
      /\ Fine(1, 0, c, m.bm[1].DataReady, p)
      /\ c.CurrentCommand = "ATAPI_PACKET" /\ (p => c.CylinderNumber > 1)
  BY PacketsAt
<1>. HIDE DEF c
<1>2. /\ Held(u, c) /\ u \in DRIVE /\ u.Status = (c.Status \ off) \cup on
      /\ u.CylinderNumber = c.CylinderNumber
  BY <1>1, TurnHeld
<1>. HIDE DEF u
<1>3. Held(e, u) /\ e.Status = u.Status /\ e.CylinderNumber = u.CylinderNumber
  BY <1>2, ReasonHeld
<1>. HIDE DEF e
<1>4. Held(e, c) /\ "DRQ" \notin e.Status
  BY <1>2, <1>3, HeldAgain
<1>5. Replies(e)
  BY <1>4 DEF Replies
<1>6. Fine(1, 0, e, m.bm[1].DataReady, p) /\ e.Reset = c.Reset
  BY <1>1, <1>4, <1>5, HeldFine
<1>7. Good(n, p) /\ Dnum(n, 1) = 0 /\ Sel(n, 1) = e
  BY <1>1, <1>6, DoneGood DEF c
<1>. HIDE DEF n
<1>8. Packets(n, p)
  BY <1>1, <1>2, <1>3, <1>4, <1>7 DEF Packets, Held
<1>. QED BY <1>8 DEF n, e, u, c

LEMMA AtapiErrorGood ==
    ASSUME NEW m, NEW p, Packets(m, p)
    PROVE  Packets(HardDiskAtapiError(m, 1), p)
BY PacketDone DEF HardDiskAtapiError, STATUS
LEMMA AtapiNopGood ==
    ASSUME NEW m, NEW p, Packets(m, p)
    PROVE  Packets(AtapiNop(m, 1), p)
BY PacketDone DEF AtapiNop, HardDiskCommandNop, Done, STATUS

\* The first chunk of a reply or a read.
Prepared(c, command, chunk, total) ==
    [Turn(c, {"DRQ", "ERR"}, {"BSY", "RDY"}) EXCEPT
        !.BufferIndex = 0, !.DrqIndex = 0, !.CylinderNumber = chunk,
        !.AtapiCommand = command, !.DrqBytes = chunk, !.TotalBytesRemaining = total]
IsPrepared(e, c, chunk, total) ==
    /\ Held(e, c) /\ e \in DRIVE /\ "DRQ" \notin e.Status
    /\ e.DrqIndex = 0 /\ e.DrqBytes = chunk /\ e.CylinderNumber = chunk
    /\ e.TotalBytesRemaining = total
LEMMA PreparedFacts ==
    ASSUME NEW c \in DRIVE, NEW command \in {"REPLY", "READ"},
           NEW chunk \in 0..(REGISTER * REGISTER - 1), NEW total \in 0..(DWORD - 1)
    PROVE  IsPrepared(Prepared(c, command, chunk, total), c, chunk, total)
<1>. DEFINE u == Turn(c, {"DRQ", "ERR"}, {"BSY", "RDY"})
            e == [u EXCEPT !.BufferIndex = 0, !.DrqIndex = 0, !.CylinderNumber = chunk,
                           !.AtapiCommand = command, !.DrqBytes = chunk,
                           !.TotalBytesRemaining = total]
<1>1. Held(u, c) /\ u \in DRIVE /\ u.Status = (c.Status \ {"DRQ", "ERR"}) \cup {"BSY", "RDY"}
  BY TurnHeld DEF STATUS
<1>2. Prepared(c, command, chunk, total) = e
  BY DEF Prepared
<1>3. chunk \in Nat
  BY Widths
<1>. HIDE DEF u
<1>4. e \in DRIVE
  BY <1>1, <1>3 DEF DRIVE
<1>5. /\ e.Reset = u.Reset /\ e.ResetInProgress = u.ResetInProgress
      /\ e.Mode = u.Mode /\ e.DriveId = u.DriveId /\ e.IdentifySet = u.IdentifySet
      /\ e.NumberOfSectors = u.NumberOfSectors /\ e.MultipleSectors = u.MultipleSectors
      /\ e.CurrentCommand = u.CurrentCommand /\ e.Status = u.Status
  BY <1>1 DEF DRIVE
<1>6. /\ e.DrqIndex = 0 /\ e.DrqBytes = chunk /\ e.CylinderNumber = chunk
      /\ e.TotalBytesRemaining = total
  BY <1>1 DEF DRIVE
<1>. HIDE DEF e
<1>7. Held(e, c)
  BY <1>1, <1>4, <1>5 DEF Held, Steady
<1>8. "DRQ" \notin e.Status
  BY <1>1, <1>5
<1>. QED BY <1>2, <1>4, <1>6, <1>7, <1>8 DEF IsPrepared

\* A limit above one is a limit still when it has been made even; the chunk is
\* within the limit and what is left, and not empty when something was asked for.
SetUp(e, c, req) ==
    /\ Held(e, c) /\ e \in DRIVE
    /\ c.CylinderNumber > 1 =>
           /\ "DRQ" \notin e.Status /\ e.DrqIndex = 0
           /\ e.DrqBytes <= e.TotalBytesRemaining
           /\ req > 0 => e.DrqBytes > 0 /\ e.CylinderNumber > 0
LEMMA InitAtapiFacts ==
    ASSUME NEW c \in DRIVE, NEW command \in {"REPLY", "READ"}, NEW req \in 0..(DWORD - 1),
           NEW alloc \in Nat
    PROVE  SetUp(HardDiskInitAtapiCommand(c, command, req, alloc), c, req)
<1>. DEFINE limit == EvenLimit(c, alloc)
            room == IF alloc = 0 THEN limit ELSE alloc
            chunk == Minimum(Minimum(limit, req), room)
            total == Minimum(req, room)
            f == [c EXCEPT !.CylinderNumber = limit]
            g == Prepared(c, command, chunk, total)
            e == HardDiskInitAtapiCommand(c, command, req, alloc)
            T == REGISTER * REGISTER
<1>1. e = IF ~c.PacketDma /\ limit = 0 THEN f ELSE g
  BY DEF HardDiskInitAtapiCommand, Prepared
<1>2. c.CylinderNumber \in 0..(T - 1) /\ T \in Nat \ {0} /\ DWORD \in Nat \ {0}
  BY Widths DEF DRIVE
<1>. HIDE DEF T
<1>3. limit \in 0..(T - 1) /\ limit <= c.CylinderNumber
      /\ (c.CylinderNumber > 1 => limit > 0)
  <2>1. c.CylinderNumber % 2 = 1 => c.CylinderNumber > 0
    BY <1>2
  <2>. QED BY <1>2, <2>1 DEF EvenLimit
<1>. HIDE DEF limit
<1>4. room \in Nat /\ (limit > 0 => room > 0)
  BY <1>2, <1>3
<1>. HIDE DEF room
<1>5. chunk \in 0..(T - 1) /\ total \in 0..(DWORD - 1) /\ chunk <= total
      /\ (limit > 0 /\ req > 0 => chunk > 0)
  BY <1>2, <1>3, <1>4 DEF Minimum
<1>. HIDE DEF chunk, total, e
<1>6. CASE ~c.PacketDma /\ limit = 0
  <2>1. f \in DRIVE
    BY <1>3 DEF DRIVE, T
  <2>2. /\ f.Reset = c.Reset /\ f.ResetInProgress = c.ResetInProgress
        /\ f.Mode = c.Mode /\ f.DriveId = c.DriveId /\ f.IdentifySet = c.IdentifySet
        /\ f.NumberOfSectors = c.NumberOfSectors /\ f.MultipleSectors = c.MultipleSectors
        /\ f.CurrentCommand = c.CurrentCommand
    BY DEF DRIVE
  <2>. HIDE DEF f
  <2>3. Held(f, c)
    BY <2>1, <2>2 DEF Held, Steady
  <2>4. ~(c.CylinderNumber > 1)
    BY <1>3, <1>6
  <2>5. SetUp(e, c, req)
    BY <1>1, <1>6, <2>1, <2>3, <2>4 DEF SetUp
  <2>. QED BY <2>5 DEF e
<1>7. CASE ~(~c.PacketDma /\ limit = 0)
  <2>1. IsPrepared(g, c, chunk, total)
    BY <1>5, PreparedFacts DEF T
  <2>. HIDE DEF g
  <2>2. SetUp(e, c, req)
    BY <1>1, <1>3, <1>5, <1>7, <2>1 DEF SetUp, IsPrepared
  <2>. QED BY <2>2 DEF e
<1>. QED BY <1>6, <1>7

LEMMA ReplyGood ==
    ASSUME NEW m, NEW p, Packets(m, p), NEW req \in 1..(DWORD - 1), NEW alloc \in Nat
    PROVE  Good(Reply(m, 1, req, alloc), p)
<1>. DEFINE c == Sel(m, 1)
            i == HardDiskInitAtapiCommand(c, "REPLY", req, alloc)
            k == Put(m, 1, i)
            u == Turn(i, {"BSY", "ERR"}, {"DRQ"})
            r == Reason(u, 0, 1)
            a == Put(m, 1, r)
            n == Reply(m, 1, req, alloc)
            x == [a EXCEPT !.bm[1].DataReady = TRUE]
<1>1. /\ 1 \in Channel /\ m \in MACHINE /\ Good(m, p) /\ Dnum(m, 1) = 0 /\ c \in DRIVE
      /\ Fine(1, 0, c, m.bm[1].DataReady, p)
      /\ c.CurrentCommand = "ATAPI_PACKET" /\ (p => c.CylinderNumber > 1)
  BY PacketsAt
<1>2. SetUp(i, c, req)
  <2>1. req \in 0..(DWORD - 1) /\ "REPLY" \in {"REPLY", "READ"}
    BY Widths
  <2>. QED BY <1>1, <2>1, InitAtapiFacts
<1>. HIDE DEF i
<1>3. i \in DRIVE
  BY <1>2 DEF SetUp
<1>4. Sel(k, 1) = i
  BY <1>1, <1>3, PutSel
<1>5. n = IF r.PacketDma THEN [Put(k, 1, r) EXCEPT !.bm[1].DataReady = TRUE]
          ELSE Done(k, 1, r)
  <2>1. n = HardDiskReadySendAtapi(k, 1)
    BY DEF Reply, i
  <2>. HIDE DEF k, n
  <2>. QED BY <1>4, <2>1 DEF HardDiskReadySendAtapi
<1>6. Put(k, 1, r) = a /\ Done(k, 1, r) = Done(m, 1, r)
  BY <1>1, PutTwice DEF Done
<1>. HIDE DEF k, n, c
<1>7. /\ Held(u, i) /\ u \in DRIVE
      /\ u.CylinderNumber = i.CylinderNumber
      /\ u.DrqIndex = i.DrqIndex /\ u.DrqBytes = i.DrqBytes
      /\ u.TotalBytesRemaining = i.TotalBytesRemaining
  BY <1>3, TurnHeld DEF STATUS
<1>. HIDE DEF u
<1>8. /\ Held(r, u) /\ r \in DRIVE /\ r.SectorCount % 4 = 2
      /\ r.CylinderNumber = u.CylinderNumber
      /\ r.DrqIndex = u.DrqIndex /\ r.DrqBytes = u.DrqBytes
      /\ r.TotalBytesRemaining = u.TotalBytesRemaining
  BY <1>7, ReasonHeld
<1>. HIDE DEF r
<1>9. Held(r, c)
  BY <1>2, <1>7, <1>8, HeldAgain DEF SetUp
<1>10. p => Replies(r)
  <2>1. req > 0
    OBVIOUS
  <2>. QED BY <1>1, <1>2, <1>7, <1>8, <2>1 DEF SetUp, Replies
<1>11. Fine(1, 0, r, m.bm[1].DataReady, p) /\ r.Reset = c.Reset
  BY <1>1, <1>9, <1>10, HeldFine
<1>12. Good(a, p) /\ a.bm = m.bm
  BY <1>1, <1>11, PutGood DEF c
<1>13. Good(Done(m, 1, r), p)
  BY <1>1, <1>11, DoneGood DEF c
<1>14. Good(x, p)
  <2>. HIDE DEF a
  <2>. DEFINE B == [a.bm EXCEPT ![1].DataReady = TRUE]
  <2>1. a \in MACHINE /\ a.bm \in [Channel -> BMDMA]
    BY <1>12 DEF Good, MACHINE
  <2>2. B \in [Channel -> BMDMA] /\ \A ch \in Channel : a.bm[ch].DataReady => B[ch].DataReady
    <3>. DEFINE w == TRUE
                v == [a.bm[1] EXCEPT !.DataReady = w]
    <3>1. w \in BOOLEAN /\ w
      OBVIOUS
    <3>. HIDE DEF w
    <3>2. a.bm[1] \in BMDMA
      BY <1>1, <2>1
    <3>3. v \in BMDMA
      BY <3>1, <3>2 DEF BMDMA
    <3>4. v.DataReady = w
      BY <3>2 DEF BMDMA
    <3>5. B = [a.bm EXCEPT ![1] = v]
      BY DEF w
    <3>. HIDE DEF v, B
    <3>. QED BY <1>1, <2>1, <3>1, <3>3, <3>4, <3>5
  <2>3. x = [a EXCEPT !.bm = B]
    OBVIOUS
  <2>. HIDE DEF B
  <2>4. x \in MACHINE /\ x.ata = a.ata /\ x.bm = B
    BY <2>1, <2>2, <2>3 DEF MACHINE
  <2>. QED BY <1>12, <2>2, <2>4, RestGood
<1>15. Good(n, p)
  BY <1>5, <1>6, <1>13, <1>14
<1>. QED BY <1>15 DEF n

\* A read that is set up has nothing to hand over yet.
LEMMA ReadSetUpGood ==
    ASSUME NEW m, NEW p, Packets(m, p), NEW lba \in Nat, NEW blocks \in Nat, NEW size \in Nat
    PROVE  Good(ReadSetUp(m, 1, lba, blocks, size), p)
<1>. DEFINE c == Sel(m, 1)
            bytes == Bytes(blocks, size)
            i == HardDiskInitAtapiCommand(c, "READ", bytes, bytes)
            e == [i EXCEPT !.BufferIndex = size, !.BufferSize = size,
                           !.RemainingBlocks = blocks, !.LbAddress = lba]
<1>1. /\ 1 \in Channel /\ Good(m, p) /\ Dnum(m, 1) = 0 /\ c \in DRIVE
      /\ Fine(1, 0, c, m.bm[1].DataReady, p)
      /\ c.CurrentCommand = "ATAPI_PACKET" /\ (p => c.CylinderNumber > 1)
  BY PacketsAt
<1>2. bytes \in 0..(DWORD - 1) /\ bytes \in Nat
  <2>1. blocks * size \in Int /\ DWORD \in Nat \ {0}
    BY Widths
  <2>2. bytes \in 0..(DWORD - 1)
    <3>. DEFINE product == blocks * size
    <3>1. product \in Int
      BY <2>1
    <3>2. bytes = product % DWORD
      BY DEF Bytes
    <3>. HIDE DEF product, bytes
    <3>. QED BY <2>1, <3>1, <3>2, ModIn
  <2>. QED BY <2>1, <2>2
<1>3. ReadSetUp(m, 1, lba, blocks, size) = Put(m, 1, e)
  BY DEF ReadSetUp
<1>. HIDE DEF bytes, c
<1>4. SetUp(i, c, bytes)
  BY <1>1, <1>2, InitAtapiFacts
<1>. HIDE DEF i
<1>5. i \in DRIVE /\ Held(i, c) /\ (p => "DRQ" \notin i.Status)
  BY <1>1, <1>4 DEF SetUp
<1>6. e \in DRIVE
  BY <1>5 DEF DRIVE
<1>7. /\ e.Reset = i.Reset /\ e.ResetInProgress = i.ResetInProgress
      /\ e.Mode = i.Mode /\ e.DriveId = i.DriveId /\ e.IdentifySet = i.IdentifySet
      /\ e.NumberOfSectors = i.NumberOfSectors /\ e.MultipleSectors = i.MultipleSectors
      /\ e.CurrentCommand = i.CurrentCommand /\ e.Status = i.Status
  BY <1>5 DEF DRIVE
<1>. HIDE DEF e
<1>8. Held(e, c)
  BY <1>5, <1>6, <1>7 DEF Held, Steady
<1>9. p => Replies(e)
  BY <1>5, <1>7 DEF Replies
<1>10. Fine(1, 0, e, m.bm[1].DataReady, p) /\ e.Reset = c.Reset
  BY <1>1, <1>8, <1>9, HeldFine
<1>11. Good(Put(m, 1, e), p)
  BY <1>1, <1>10, PutGood DEF c
<1>. QED BY <1>3, <1>11

LEMMA PacketSizes ==
    /\ CDROM_FRAMESIZE \in Nat /\ CDROM_RAWSIZE \in Nat /\ PACKET_SIZE \in Nat
    /\ CdCapacity \in Nat
    /\ \A r \in {"MECHANISM_STATUS", "error recovery", "capabilities", "INQUIRY",
                 "REQUEST_SENSE", "READ_CAPACITY", "EVENT_HEADER", "MEDIA_EVENT"} :
           ReplyLength[r] \in 1..(DWORD - 1) /\ ReplyLength[r] \in Nat
<1>1. /\ {PACKET_SIZE, CDROM_FRAMESIZE} \subseteq Nat \ {0} /\ CDROM_RAWSIZE \in Nat
      /\ CdCapacity \in Nat
      /\ ReplyLength \in [{"MECHANISM_STATUS", "error recovery", "capabilities", "INQUIRY",
                           "REQUEST_SENSE", "READ_CAPACITY", "EVENT_HEADER", "MEDIA_EVENT"}
                              -> 1..(DWORD - 1)]
  BY AtapiAssumption
<1>2. PACKET_SIZE \in Nat /\ CDROM_FRAMESIZE \in Nat /\ DWORD \in Nat
  BY <1>1, Widths
<1>3. 1..(DWORD - 1) \subseteq Nat
  BY <1>2
<1>. QED BY <1>1, <1>2, <1>3

LEMMA PacketFields ==
    ASSUME NEW k, Packet(k)
    PROVE  k.len \in 0..(DWORD - 1) /\ k.lba \in 0..(DWORD - 1)
           /\ k.len \in Nat /\ k.lba \in Nat /\ (k.len # 0 => k.len \in 1..(DWORD - 1))
BY Widths DEF Packet

LEMMA ReadPacketGood ==
    ASSUME NEW m, NEW p, Packets(m, p), NEW k, Packet(k)
    PROVE  Good(ReadPacket(m, 1, k), p)
<1>. DEFINE blocks == ReadLength(k)
            e == IF ReadWrong(k) THEN HardDiskAtapiError(m, 1) ELSE m
            n == IF blocks = 0 \/ BeyondLast(blocks) THEN AtapiNop(e, 1) ELSE e
<1>1. Packets(e, p)
  BY AtapiErrorGood
<1>. HIDE DEF e
<1>2. Packets(n, p)
  BY <1>1, AtapiNopGood
<1>3. blocks \in Nat
  <2>1. CdCapacity - k.lba \in Int /\ DWORD \in Nat \ {0} /\ k.len \in Nat
    <3>1. CdCapacity \in Nat /\ k.lba \in Nat /\ k.len \in Nat
      BY PacketSizes, PacketFields
    <3>. QED BY <3>1, Widths
  <2>2. (CdCapacity - k.lba) % DWORD \in 0..(DWORD - 1)
    BY <2>1, ModIn
  <2>3. (CdCapacity - k.lba) % DWORD \in Nat
    BY <2>1, <2>2
  <2>. QED BY <2>1, <2>3 DEF ReadLength
<1>4. ReadPacket(m, 1, k) = ReadSetUp(n, 1, k.lba, blocks, CDROM_FRAMESIZE)
  BY DEF ReadPacket, e
<1>. HIDE DEF n, blocks
<1>. QED BY <1>2, <1>3, <1>4, ReadSetUpGood, PacketSizes, PacketFields, ZenonT(30)

LEMMA ReadCdGood ==
    ASSUME NEW m, NEW p, Packets(m, p), NEW k, Packet(k)
    PROVE  Good(ReadCd(m, 1, k), p)
<1>1. k.len \in Nat /\ k.lba \in Nat
  BY PacketFields
<1>2. \/ ReadCd(m, 1, k) = AtapiNop(m, 1)
      \/ ReadCd(m, 1, k) = HardDiskAtapiError(m, 1)
      \/ ReadCd(m, 1, k) = ReadSetUp(m, 1, k.lba, k.len, CDROM_FRAMESIZE)
      \/ ReadCd(m, 1, k) = ReadSetUp(m, 1, k.lba, k.len, CDROM_RAWSIZE)
  <2>. DEFINE a == AtapiNop(m, 1)
              b == ReadSetUp(m, 1, k.lba, k.len, CDROM_FRAMESIZE)
              r == ReadSetUp(m, 1, k.lba, k.len, CDROM_RAWSIZE)
              e == HardDiskAtapiError(m, 1)
              len == k.len
              none == k.field = "none"
              user == k.field = "user data"
              raw == k.field = "raw"
  <2>1. ReadCd(m, 1, k) = CASE len = 0 \/ none -> a
                            [] len > 0 /\ user -> b
                            [] len > 0 /\ raw -> r
                            [] OTHER -> e
    BY Zenon DEF ReadCd
  <2>2. len \in Nat
    BY <1>1
  <2>3. ~(none /\ user) /\ ~(none /\ raw) /\ ~(user /\ raw)
    BY Zenon
  <2>. HIDE DEF a, b, r, e, len, none, user, raw
  <2>4. \/ ReadCd(m, 1, k) = a
        \/ ReadCd(m, 1, k) = b
        \/ ReadCd(m, 1, k) = r
        \/ ReadCd(m, 1, k) = e
    BY <2>1, <2>2, <2>3
  <2>. QED BY <2>4 DEF a, b, r, e
<1>3. Good(AtapiNop(m, 1), p) /\ Good(HardDiskAtapiError(m, 1), p)
  BY AtapiNopGood, AtapiErrorGood DEF Packets
<1>4. /\ Good(ReadSetUp(m, 1, k.lba, k.len, CDROM_FRAMESIZE), p)
      /\ Good(ReadSetUp(m, 1, k.lba, k.len, CDROM_RAWSIZE), p)
  BY <1>1, ReadSetUpGood, PacketSizes
<1>. QED BY <1>2, <1>3, <1>4

LEMMA SeekPacketGood ==
    ASSUME NEW m, NEW p, Packets(m, p), NEW k, Packet(k)
    PROVE  Good(SeekPacket(m, 1, k), p)
<1>. DEFINE c == Sel(m, 1)
            e == [c EXCEPT !.LbAddress = k.lba]
            n == Put(m, 1, e)
<1>1. /\ 1 \in Channel /\ Good(m, p) /\ Dnum(m, 1) = 0 /\ c \in DRIVE
      /\ Fine(1, 0, c, m.bm[1].DataReady, p)
      /\ c.CurrentCommand = "ATAPI_PACKET" /\ (p => c.CylinderNumber > 1)
      /\ k.lba \in Nat
  BY PacketsAt, PacketFields
<1>2. \/ SeekPacket(m, 1, k) = HardDiskAtapiError(m, 1)
      \/ SeekPacket(m, 1, k) = AtapiNop(n, 1)
  BY DEF SeekPacket
<1>. HIDE DEF c
<1>3. e \in DRIVE
  BY <1>1 DEF DRIVE
<1>4. /\ e.Reset = c.Reset /\ e.ResetInProgress = c.ResetInProgress
      /\ e.Mode = c.Mode /\ e.DriveId = c.DriveId /\ e.IdentifySet = c.IdentifySet
      /\ e.NumberOfSectors = c.NumberOfSectors /\ e.MultipleSectors = c.MultipleSectors
      /\ e.Status = c.Status /\ e.CurrentCommand = c.CurrentCommand
  BY <1>1 DEF DRIVE
<1>5. /\ e.Lba = c.Lba /\ e.Lba48 = c.Lba48
      /\ e.CylinderNumber = c.CylinderNumber /\ e.HeadNumber = c.HeadNumber
      /\ e.SectorNumber = c.SectorNumber /\ e.SectorCount = c.SectorCount
      /\ e.DrqIndex = c.DrqIndex /\ e.DrqBytes = c.DrqBytes
      /\ e.TotalBytesRemaining = c.TotalBytesRemaining
  BY <1>1 DEF DRIVE
<1>. HIDE DEF e
<1>6. Kept(e, c) /\ c.CurrentCommand \notin Reads \cup Writes
  BY <1>1, <1>3, <1>4, <1>5 DEF Kept, Steady, Here, Reads, Writes
<1>7. Fine(1, 0, e, m.bm[1].DataReady, p) /\ e.Reset = c.Reset
  BY <1>1, <1>4, <1>6, KeptFine
<1>8. Good(n, p) /\ Dnum(n, 1) = 0 /\ Sel(n, 1) = e
  BY <1>1, <1>7, PutGood DEF c
<1>. HIDE DEF n
<1>9. Packets(n, p)
  BY <1>1, <1>4, <1>5, <1>8 DEF Packets
<1>10. Good(AtapiNop(n, 1), p) /\ Good(HardDiskAtapiError(m, 1), p)
  BY <1>9, AtapiNopGood, AtapiErrorGood DEF Packets
<1>. QED BY <1>2, <1>10

LEMMA PerformGood ==
    ASSUME NEW m, NEW p, Packets(m, p), NEW k, Packet(k)
    PROVE  Good(Perform(m, 1, k), p)
<1>1. /\ Good(AtapiNop(m, 1), p) /\ Good(HardDiskAtapiError(m, 1), p)
      /\ Good(m, p) /\ Good(Exit(m), p)
  BY AtapiNopGood, AtapiErrorGood, ExitGood DEF Packets
<1>2. Good(MechanismStatus(m, 1, k), p)
  BY <1>1, ReplyGood, PacketFields, PacketSizes DEF MechanismStatus
<1>3. Good(ModeSense(m, 1, k), p)
  BY <1>1, ReplyGood, PacketFields, PacketSizes DEF ModeSense
<1>4. Good(Inquiry(m, 1, k), p) /\ Good(RequestSense(m, 1, k), p)
  BY <1>1, ReplyGood, PacketFields, PacketSizes DEF Inquiry, RequestSense
<1>5. Good(ReadCapacity(m, 1), p)
  BY <1>1, ReplyGood, PacketFields, PacketSizes DEF ReadCapacity
<1>6. Good(ReadToc(m, 1, k), p)
  BY <1>1, ReplyGood, PacketFields, PacketSizes DEF ReadToc, CdRomReadToc
<1>7. Good(ReadSubChannel(m, 1, k), p)
  BY <1>1, ReplyGood, PacketFields, PacketSizes DEF ReadSubChannel
<1>8. Good(GetEventStatus(m, 1, k), p)
  BY <1>1, ReplyGood, PacketFields, PacketSizes DEF GetEventStatus
<1>9. Good(ReadPacket(m, 1, k), p) /\ Good(ReadCd(m, 1, k), p) /\ Good(SeekPacket(m, 1, k), p)
  BY ReadPacketGood, ReadCdGood, SeekPacketGood
<1>10. k.op \in PacketOp
  BY DEF Packet
<1>. QED BY <1>1, <1>2, <1>3, <1>4, <1>5, <1>6, <1>7, <1>8, <1>9, <1>10
            DEF Perform, PacketOp

LEMMA WritePacketGood ==
    ASSUME NEW m, NEW p, Good(m, p), Dnum(m, 1) = 0, NEW Length \in Nat, NEW k, Packet(k),
           Sel(m, 1).CurrentCommand = "ATAPI_PACKET", p => Sel(m, 1).CylinderNumber > 1
    PROVE  Good(WritePacket(m, 1, Length, k), p)
<1>. DEFINE c == Sel(m, 1)
            i == c.BufferIndex + Length
            b == Buffered(c, i, c.BufferSize)
            s == Buffered(c, i, CDROM_FRAMESIZE)
            n == WritePacket(m, 1, Length, k)
<1>1. /\ 1 \in Channel /\ c \in DRIVE /\ Fine(1, 0, c, m.bm[1].DataReady, p)
      /\ c.BufferSize \in Nat /\ c.BufferIndex \in Nat
      /\ c.CurrentCommand \notin Reads \cup Writes
  BY Places, GoodAt DEF DRIVE, Reads, Writes
<1>2. i \in Nat
  BY <1>1
<1>3. Kept(b, c) /\ b.Status = c.Status
  BY <1>1, <1>2, BufferedKept
<1>4. Kept(s, c) /\ s.Status = c.Status
  <2>1. CDROM_FRAMESIZE \in Nat
    BY PacketSizes
  <2>. QED BY <1>1, <1>2, <2>1, BufferedKept
<1>5. [c EXCEPT !.BufferIndex = i] = b /\ [b EXCEPT !.BufferSize = CDROM_FRAMESIZE] = s
  BY <1>1, ZenonT(30) DEF Buffered, DRIVE
<1>6. n = m \/ n = Put(m, 1, b) \/ n = Perform(Put(m, 1, s), 1, k)
  <2>. HIDE DEF b, c, n, s
  <2>1. [c EXCEPT !.BufferIndex = @ + Length] = b
    BY <1>5
  <2>. HIDE DEF i
  <2>2. n = CASE c.BufferIndex > PACKET_SIZE -> m
              [] c.BufferIndex <= PACKET_SIZE /\ b.BufferIndex < PACKET_SIZE -> Put(m, 1, b)
              [] OTHER -> Perform(Put(m, 1, s), 1, k)
    BY <1>5, <2>1 DEF WritePacket, n, c
  <2>3. PACKET_SIZE \in Nat
    BY PacketSizes
  <2>. QED BY <1>1, <2>2, <2>3
<1>. HIDE DEF b, s, c, n
<1>7. Fine(1, 0, b, m.bm[1].DataReady, p) /\ b.Reset = c.Reset
  BY <1>1, <1>3, KeptFine
<1>8. Fine(1, 0, s, m.bm[1].DataReady, p) /\ s.Reset = c.Reset
  BY <1>1, <1>4, KeptFine
<1>9. Good(Put(m, 1, b), p)
  BY <1>1, <1>7, PutGood DEF c
<1>. DEFINE l == Put(m, 1, s)
<1>10. Good(l, p) /\ Dnum(l, 1) = 0 /\ Sel(l, 1) = s
  BY <1>1, <1>8, PutGood DEF c
<1>. HIDE DEF l
<1>11. Packets(l, p)
  BY <1>4, <1>10 DEF Packets, Kept, Here, c
<1>12. Good(Perform(l, 1, k), p)
  BY <1>11, PerformGood
<1>13. Good(n, p)
  BY <1>6, <1>9, <1>12 DEF l
<1>. QED BY <1>13 DEF n

LEMMA PortIoWrite0Good ==
    ASSUME NEW m, NEW p, Good(m, p), NEW ch \in Channel, NEW Length \in Nat, NEW taken,
           NEW k, Packet(k),
           p /\ Sel(m, ch).CurrentCommand = "ATAPI_PACKET" => Sel(m, ch).CylinderNumber > 1
    PROVE  Good(PortIoWrite0(m, ch, Length, taken, k), p)
<1>. DEFINE c == Sel(m, ch)
            cmd == c.CurrentCommand
            n == PortIoWrite0(m, ch, Length, taken, k)
<1>1. /\ cmd \in Writes => n = WriteData(m, ch, Length, taken)
      /\ cmd = "ATAPI_PACKET" => n = WritePacket(m, ch, Length, k)
      /\ cmd \notin Writes \cup {"ATAPI_PACKET"} => n = m
  BY DEF PortIoWrite0, Writes
<1>2. Dnum(m, ch) \in Drive /\ Fine(ch, Dnum(m, ch), c, m.bm[ch].DataReady, p)
  BY GoodAt
<1>3. cmd # NoCommand => Dnum(m, ch) = 0
  BY <1>2, Places DEF Fine, Silent
<1>4. NoCommand \notin Writes \cup {"ATAPI_PACKET"}
  BY DEF NoCommand, Writes
<1>5. (cmd \in Writes => ch = 0) /\ (cmd = "ATAPI_PACKET" => ch = 1)
  BY <1>2, Places DEF Fine, Alien
<1>. HIDE DEF n
<1>6. CASE cmd \in Writes
  <2>1. Good(WriteData(m, 0, Length, taken), p)
    BY <1>3, <1>4, <1>5, <1>6, WriteDataGood
  <2>. QED BY <1>1, <1>5, <1>6, <2>1 DEF n
<1>7. CASE cmd = "ATAPI_PACKET"
  <2>1. Good(WritePacket(m, 1, Length, k), p)
    BY <1>3, <1>4, <1>5, <1>7, WritePacketGood
  <2>. QED BY <1>1, <1>5, <1>7, <2>1 DEF n
<1>8. CASE cmd \notin Writes \cup {"ATAPI_PACKET"}
  BY <1>1, <1>8 DEF n
<1>. QED BY <1>6, <1>7, <1>8

-----------------------------------------------------------------------------
(***************************************************************************)
(* The bus master.                                                         *)
(***************************************************************************)

LEMMA MastersAgain ==
    ASSUME NEW a, NEW n, NEW m, NEW p, Good(m, p), Masters(a, n), Masters(n, m)
    PROVE  Masters(a, m)
<1>1. m.bm \in [Channel -> BMDMA]
  BY DEF Good, MACHINE
<1>2. ASSUME NEW x \in Channel
      PROVE  a.bm[x] = [m.bm[x] EXCEPT !.Status = a.bm[x].Status]
  <2>. DEFINE b == m.bm[x]
              s == n.bm[x].Status
              t == a.bm[x].Status
  <2>1. n.bm[x] = [b EXCEPT !.Status = s] /\ a.bm[x] = [n.bm[x] EXCEPT !.Status = t]
    BY DEF Masters
  <2>2. b \in BMDMA
    BY <1>1
  <2>. HIDE DEF b, s, t
  <2>3. a.bm[x] = [b EXCEPT !.Status = t]
    BY <2>1, <2>2 DEF BMDMA
  <2>. QED BY <2>3 DEF b, t
<1>. QED BY <1>2 DEF Masters

\* What stays with a bus master that has another status.
LEMMA MastersAt ==
    ASSUME NEW n, NEW m, NEW p, Good(m, p), Masters(n, m), NEW x \in Channel
    PROVE  /\ n.bm[x].Write = m.bm[x].Write /\ n.bm[x].DataReady = m.bm[x].DataReady
           /\ n.bm[x].PrdCurrent = m.bm[x].PrdCurrent
           /\ n.bm[x].BufferOffset = m.bm[x].BufferOffset
<1>1. m.bm[x] \in BMDMA /\ n.bm[x] = [m.bm[x] EXCEPT !.Status = n.bm[x].Status]
  BY DEF Good, MACHINE, Masters
<1>. QED BY <1>1 DEF BMDMA

BmAt(m, ch, b) == [m EXCEPT !.bm[ch] = b]
LEMMA BmAtGood ==
    ASSUME NEW m, NEW p, Good(m, p), NEW ch \in Channel, NEW b \in BMDMA,
           m.bm[ch].DataReady => b.DataReady
    PROVE  /\ Good(BmAt(m, ch, b), p) /\ BmAt(m, ch, b).ata = m.ata
           /\ BmAt(m, ch, b).bm[ch] = b
<1>. DEFINE n == BmAt(m, ch, b)
            B == [m.bm EXCEPT ![ch] = b]
<1>1. m \in MACHINE /\ m.bm \in [Channel -> BMDMA]
  BY DEF Good, MACHINE
<1>2. B \in [Channel -> BMDMA] /\ B[ch] = b
      /\ \A x \in Channel : m.bm[x].DataReady => B[x].DataReady
  BY <1>1
<1>3. n = [m EXCEPT !.bm = B]
  BY DEF BmAt
<1>. HIDE DEF B, n
<1>4. n \in MACHINE /\ n.ata = m.ata /\ n.exited = m.exited /\ n.bm = B
  BY <1>1, <1>2, <1>3 DEF MACHINE
<1>5. Good(n, p)
  BY <1>2, <1>4, RestGood
<1>. QED BY <1>2, <1>4, <1>5 DEF n, B

LEMMA WriteBmTableGood ==
    ASSUME NEW m, NEW p, Good(m, p), NEW ch \in Channel
    PROVE  Good(WriteBmTable(m, ch, 1), p) /\ WriteBmTable(m, ch, 1).ata = m.ata
<1>. DEFINE b == [m.bm[ch] EXCEPT !.PrdTable = 1]
<1>1. m.bm[ch] \in BMDMA
  BY DEF Good, MACHINE
<1>2. b \in BMDMA /\ (m.bm[ch].DataReady => b.DataReady)
  BY <1>1 DEF BMDMA
<1>3. WriteBmTable(m, ch, 1) = BmAt(m, ch, b)
  BY DEF WriteBmTable, BmAt
<1>. HIDE DEF b
<1>4. Good(BmAt(m, ch, b), p) /\ BmAt(m, ch, b).ata = m.ata
  BY <1>2, BmAtGood
<1>. QED BY <1>3, <1>4

LEMMA WriteBmStatusGood ==
    ASSUME NEW m, NEW p, Good(m, p), NEW ch \in Channel
    PROVE  Good(WriteBmStatus(m, ch, TRUE), p) /\ WriteBmStatus(m, ch, TRUE).ata = m.ata
<1>. DEFINE b == [m.bm[ch] EXCEPT !.Status = @ \ {"IRQ"}]
<1>1. m.bm[ch] \in BMDMA
  BY DEF Good, MACHINE
<1>2. b \in BMDMA /\ (m.bm[ch].DataReady => b.DataReady)
  BY <1>1 DEF BMDMA
<1>3. WriteBmStatus(m, ch, TRUE) = BmAt(m, ch, b)
  BY DEF WriteBmStatus, BmAt
<1>. HIDE DEF b
<1>4. Good(BmAt(m, ch, b), p) /\ BmAt(m, ch, b).ata = m.ata
  BY <1>2, BmAtGood
<1>. QED BY <1>3, <1>4

LEMMA WriteBmCommandGood ==
    ASSUME NEW m, NEW p, Good(m, p), NEW ch \in Channel, NEW start \in BOOLEAN,
           NEW write \in BOOLEAN
    PROVE  /\ Good(WriteBmCommand(m, ch, start, write), p)
           /\ WriteBmCommand(m, ch, start, write).ata = m.ata
<1>. DEFINE b == m.bm[ch]
            w == [b EXCEPT !.Write = write]
            s == [w EXCEPT !.Start = TRUE, !.Status = b.Status \cup {"ACTIVE"},
                           !.PrdCurrent = b.PrdTable, !.BufferOffset = 0]
            t == [w EXCEPT !.Start = FALSE, !.Status = b.Status \ {"ACTIVE"}]
            n == WriteBmCommand(m, ch, start, write)
<1>1. b \in BMDMA
  BY DEF Good, MACHINE
<1>2. IDE_BUFFER_SIZE \in Nat /\ Len(PrdTable) \in Nat /\ 1 \in 0..Len(PrdTable)
  <2>1. /\ IDE_BUFFER_SIZE \in Nat /\ PrdTable # <<>>
        /\ PrdTable \in Seq([size : 1..IDE_BUFFER_SIZE, last : BOOLEAN])
    BY IdeAssumption
  <2>. HIDE DEF b, n
  <2>2. Len(PrdTable) \in Nat
    BY <2>1
  <2>3. Len(PrdTable) # 0
    BY <2>1
  <2>. QED BY <2>1, <2>2, <2>3
<1>3. b.PrdTable \in 0..Len(PrdTable) /\ 0 \in 0..IDE_BUFFER_SIZE /\ b.PrdTable \in 0..1
  BY <1>1, <1>2 DEF BMDMA
<1>4. n = BmAt(m, ch, s) \/ n = BmAt(m, ch, t) \/ n = m
  <2>1. [b EXCEPT !.Start = TRUE, !.Write = write, !.Status = @ \cup {"ACTIVE"},
                  !.PrdCurrent = b.PrdTable, !.BufferOffset = 0] = s
    BY <1>1 DEF BMDMA
  <2>2. [b EXCEPT !.Start = FALSE, !.Write = write, !.Status = @ \ {"ACTIVE"}] = t
    BY <1>1 DEF BMDMA
  <2>3. n = CASE start /\ ~b.Start -> BmAt(m, ch, s)
              [] ~start /\ b.Start -> BmAt(m, ch, t)
              [] OTHER -> m
    BY <2>1, <2>2, Zenon DEF WriteBmCommand, BmAt
  <2>. HIDE DEF n, s, t, b
  <2>. QED BY <2>3
<1>. HIDE DEF b
<1>5. w \in BMDMA /\ w.DataReady = b.DataReady
  <2>. DEFINE v == write
  <2>1. v \in BOOLEAN
    OBVIOUS
  <2>. HIDE DEF v
  <2>2. [b EXCEPT !.Write = v] \in BMDMA /\ [b EXCEPT !.Write = v].DataReady = b.DataReady
    BY <1>1, <2>1 DEF BMDMA
  <2>. QED BY <2>2 DEF v
<1>6. b.Status \in SUBSET {"ACTIVE", "IRQ"}
  BY <1>1 DEF BMDMA
<1>. HIDE DEF w
<1>7. s \in BMDMA /\ s.DataReady = b.DataReady
  BY <1>2, <1>3, <1>5, <1>6 DEF BMDMA
<1>8. t \in BMDMA /\ t.DataReady = b.DataReady
  BY <1>5, <1>6 DEF BMDMA
<1>. HIDE DEF s, t, n
<1>9. Good(BmAt(m, ch, s), p) /\ BmAt(m, ch, s).ata = m.ata
  <2>1. m.bm[ch].DataReady => s.DataReady
    BY <1>7 DEF b
  <2>. QED BY <1>7, <2>1, BmAtGood
<1>10. Good(BmAt(m, ch, t), p) /\ BmAt(m, ch, t).ata = m.ata
  <2>1. m.bm[ch].DataReady => t.DataReady
    BY <1>8 DEF b
  <2>. QED BY <1>8, <2>1, BmAtGood
<1>11. Good(n, p) /\ n.ata = m.ata
  BY <1>4, <1>9, <1>10
<1>. QED BY <1>11 DEF n

\* The end of a transfer takes back what the drive reported.
LEMMA BdmaCompleteGood ==
    ASSUME NEW m, NEW p, Good(m, p), NEW ch \in Channel
    PROVE  Good(HardDiskBdmaComplete(m, ch), p)
<1>. DEFINE c == Sel(m, ch)
            d == Dnum(m, ch)
            u == Turn(c, {"BSY", "DRQ", "ERR"}, {"RDY"})
            e == IF DriveType(ch, d) = "CDROM" THEN Reason(u, 1, 1) ELSE u
<1>1. c \in DRIVE /\ Fine(ch, d, c, m.bm[ch].DataReady, p) /\ d \in Drive
  BY GoodAt
<1>2. HardDiskBdmaComplete(m, ch) = Done(m, ch, e)
  BY DEF HardDiskBdmaComplete
<1>. HIDE DEF c, d
<1>3. {"RDY"} \in SUBSET STATUS
  BY DEF STATUS
<1>4. Held(u, c) /\ u \in DRIVE /\ u.BufferSize = c.BufferSize /\ u.Status = (c.Status \ {"BSY", "DRQ", "ERR"}) \cup {"RDY"}
  BY <1>1, <1>3, TurnHeld, TurnKept
<1>. HIDE DEF u
<1>5. /\ Held(Reason(u, 1, 1), u) /\ Reason(u, 1, 1).Status = u.Status
      /\ Reason(u, 1, 1).BufferSize = u.BufferSize
  BY <1>4, ReasonHeld
<1>6. Held(e, c) /\ e.Status = u.Status /\ e.BufferSize = c.BufferSize
  BY <1>4, <1>5, HeldAgain
<1>. HIDE DEF e
<1>7. "DRQ" \notin e.Status /\ "ERR" \notin e.Status
  BY <1>4, <1>6
<1>8. /\ e \in DRIVE /\ e.Reset = c.Reset /\ e.ResetInProgress = c.ResetInProgress
      /\ e.Mode = c.Mode /\ e.DriveId = c.DriveId /\ e.IdentifySet = c.IdentifySet
      /\ e.NumberOfSectors = c.NumberOfSectors /\ e.MultipleSectors = c.MultipleSectors
      /\ e.CurrentCommand = c.CurrentCommand /\ e.BufferSize = c.BufferSize
  BY <1>6 DEF Held, Steady
<1>9. Several(e)
  BY <1>1, <1>8, SeveralKept
<1>10. d = 0 => Identity(ch, e)
  BY <1>1, <1>8 DEF Fine, Identity
<1>11. Fine(ch, d, e, m.bm[ch].DataReady, p)
  BY <1>1, <1>7, <1>8, <1>9, <1>10, EndFine
<1>12. Good(Done(m, ch, e), p)
  BY <1>8, <1>11, DoneGood DEF c, d
<1>. QED BY <1>2, <1>12

\* A command is of the drive that is there, and a count of the disk.
LEMMA InCommand ==
    ASSUME NEW m, NEW p, Good(m, p), NEW ch \in Channel
    PROVE  /\ Sel(m, ch).CurrentCommand # NoCommand => Dnum(m, ch) = 0
           /\ Sel(m, ch).NumberOfSectors # 0 => ch = 0 /\ Dnum(m, ch) = 0
<1>1. Dnum(m, ch) \in Drive /\ Fine(ch, Dnum(m, ch), Sel(m, ch), m.bm[ch].DataReady, p)
  BY GoodAt
<1>. QED BY <1>1, Places DEF Fine, Silent

LEMMA BmdmaWriteSectorGood ==
    ASSUME NEW m, NEW p, Good(m, p), NEW ch \in Channel, NEW taken
    PROVE  LET r == HardDiskBmdmaWriteSector(m, ch, taken)
           IN  Good(r.m, p) /\ Masters(r.m, m)
<1>. DEFINE c == Sel(m, ch)
            r == HardDiskBmdmaWriteSector(m, ch, taken)
<1>1. /\ c.CurrentCommand \in WriteDmas => r.m = HardDiskCommandAborted(m, ch)
      /\ c.CurrentCommand \notin WriteDmas /\ c.NumberOfSectors = 0 => r.m = m
      /\ c.CurrentCommand \notin WriteDmas /\ c.NumberOfSectors # 0
             => r.m = HardDiskWriteSector(m, ch, taken)
  BY DEF HardDiskBmdmaWriteSector, Result
<1>. HIDE DEF r
<1>2. CASE c.CurrentCommand \in WriteDmas
  <2>1. Dnum(m, ch) = 0
    BY <1>2, InCommand DEF WriteDmas, NoCommand
  <2>2. /\ Good(HardDiskCommandAborted(m, ch), p)
        /\ Masters(HardDiskCommandAborted(m, ch), m)
    BY <2>1, AbortGood DEF Masters
  <2>3. Good(r.m, p) /\ Masters(r.m, m)
    BY <1>1, <1>2, <2>2
  <2>. QED BY <2>3 DEF r
<1>3. CASE c.CurrentCommand \notin WriteDmas /\ c.NumberOfSectors = 0
  <2>1. r.m = m
    BY <1>1, <1>3
  <2>2. Good(r.m, p) /\ Masters(r.m, m)
    BY <2>1, MastersSame
  <2>. QED BY <2>2 DEF r
<1>4. CASE c.CurrentCommand \notin WriteDmas /\ c.NumberOfSectors # 0
  <2>1. ch = 0 /\ Dnum(m, 0) = 0
    BY <1>4, InCommand
  <2>2. Good(HardDiskWriteSector(m, 0, taken), p) /\ Masters(HardDiskWriteSector(m, 0, taken), m)
    BY <2>1, WriteSectorGood
  <2>3. Good(r.m, p) /\ Masters(r.m, m)
    BY <1>1, <1>4, <2>1, <2>2
  <2>. QED BY <2>3 DEF r
<1>. QED BY <1>2, <1>3, <1>4

\* A block that went to memory leaves the buffer alone.
Advanced(c) == [c EXCEPT !.LbAddress = @ + 1, !.RemainingBlocks = Minus1(@, DWORD)]
LEMMA AdvancedKept ==
    ASSUME NEW c \in DRIVE
    PROVE  /\ Kept(Advanced(c), c) /\ Advanced(c).Status = c.Status
           /\ Advanced(c).BufferIndex = c.BufferIndex /\ Advanced(c).BufferSize = c.BufferSize
<1>. DEFINE l == c.LbAddress + 1
            b == Minus1(c.RemainingBlocks, DWORD)
            e == [c EXCEPT !.LbAddress = l, !.RemainingBlocks = b]
<1>1. l \in Nat
  BY DEF DRIVE
<1>2. b \in Nat
  <2>1. c.RemainingBlocks + DWORD - 1 \in Int /\ DWORD \in Nat \ {0}
    BY Widths DEF DRIVE
  <2>2. b \in 0..(DWORD - 1)
    BY <2>1, ModIn DEF Minus1
  <2>. QED BY <2>1, <2>2
<1>3. Advanced(c) = e
  BY DEF Advanced
<1>. HIDE DEF l, b
<1>4. e \in DRIVE
  BY <1>1, <1>2 DEF DRIVE
<1>5. /\ e.Reset = c.Reset /\ e.ResetInProgress = c.ResetInProgress
      /\ e.Mode = c.Mode /\ e.DriveId = c.DriveId /\ e.IdentifySet = c.IdentifySet
      /\ e.NumberOfSectors = c.NumberOfSectors /\ e.MultipleSectors = c.MultipleSectors
      /\ e.Status = c.Status /\ e.CurrentCommand = c.CurrentCommand
      /\ e.BufferIndex = c.BufferIndex /\ e.BufferSize = c.BufferSize
  BY DEF DRIVE
<1>6. /\ e.Lba = c.Lba /\ e.Lba48 = c.Lba48
      /\ e.CylinderNumber = c.CylinderNumber /\ e.HeadNumber = c.HeadNumber
      /\ e.SectorNumber = c.SectorNumber /\ e.SectorCount = c.SectorCount
      /\ e.DrqIndex = c.DrqIndex /\ e.DrqBytes = c.DrqBytes
      /\ e.TotalBytesRemaining = c.TotalBytesRemaining
  BY DEF DRIVE
<1>. HIDE DEF e
<1>. QED BY <1>3, <1>4, <1>5, <1>6 DEF Kept, Steady, Here

LEMMA BmdmaReadSectorGood ==
    ASSUME NEW m, NEW p, Good(m, p), NEW ch \in Channel, NEW dies, m.bm[ch].DataReady
    PROVE  LET r == HardDiskBmdmaReadSector(m, ch, dies)
           IN  Good(r.m, p) /\ Masters(r.m, m)
<1>. DEFINE c == Sel(m, ch)
            r == HardDiskBmdmaReadSector(m, ch, dies)
            a == Put(m, ch, Advanced(c))
            reads == c.CurrentCommand \in ReadDmas /\ c.NumberOfSectors # 0
            packet == c.CurrentCommand = "ATAPI_PACKET"
<1>1. \/ r.m = m
      \/ reads /\ r.m = HardDiskReadSector(m, ch, dies)
      \/ packet /\ r.m = a
      \/ r.m = HardDiskCommandAborted(m, ch)
  <2>. DEFINE h == HardDiskReadSector(m, ch, dies)
              b == HardDiskCommandAborted(m, ch)
              rd == c.CurrentCommand \in ReadDmas
              none == c.NumberOfSectors = 0
              dma == c.PacketDma
              move == c.AtapiCommand = "READ"
              off == CdRomReadBlock(c.LbAddress) = 0
              ok == SectorsOf(c) > 0
  <2>1. r = CASE rd -> IF none THEN Result(m, FALSE) ELSE Result(h, ok)
              [] packet /\ dma /\ move ->
                     IF off THEN Result(m, FALSE) ELSE Result(a, TRUE)
              [] packet /\ dma /\ ~move -> Result(m, TRUE)
              [] OTHER -> Result(b, FALSE)
    BY Zenon DEF HardDiskBmdmaReadSector, Advanced
  <2>2. ~(rd /\ packet)
    BY DEF ReadDmas
  <2>3. reads <=> rd /\ ~none
    OBVIOUS
  <2>. HIDE DEF h, b, rd, none, dma, move, off, ok, packet, reads, a, r
  <2>4. \/ r = Result(m, FALSE) \/ r = Result(m, TRUE)
        \/ (reads /\ r = Result(h, ok))
        \/ (packet /\ r = Result(a, TRUE))
        \/ r = Result(b, FALSE)
    BY <2>1, <2>2, <2>3
  <2>. QED BY <2>4 DEF Result, h, b
<1>. HIDE DEF r
<1>2. CASE r.m = m
  <2>1. Good(r.m, p) /\ Masters(r.m, m)
    BY <1>2, MastersSame
  <2>. QED BY <2>1 DEF r
<1>3. CASE reads /\ r.m = HardDiskReadSector(m, ch, dies)
  <2>1. ch = 0 /\ Dnum(m, 0) = 0
    BY <1>3, InCommand
  <2>2. Good(HardDiskReadSector(m, 0, dies), p) /\ Masters(HardDiskReadSector(m, 0, dies), m)
    BY <2>1, ReadSectorGood
  <2>3. Good(r.m, p) /\ Masters(r.m, m)
    BY <1>3, <2>1, <2>2
  <2>. QED BY <2>3 DEF r
<1>4. CASE packet /\ r.m = a
  <2>. DEFINE e == Advanced(c)
  <2>1. Dnum(m, ch) = 0
    BY <1>4, InCommand DEF NoCommand
  <2>2. c \in DRIVE /\ Fine(ch, 0, c, m.bm[ch].DataReady, p)
    BY <2>1, GoodAt
  <2>3. /\ Kept(e, c) /\ e.Status = c.Status
        /\ e.BufferIndex = c.BufferIndex /\ e.BufferSize = c.BufferSize
    BY <2>2, AdvancedKept
  <2>4. c.CurrentCommand \notin Reads \cup Writes
    BY <1>4 DEF Reads, Writes
  <2>. HIDE DEF e
  <2>5. Fine(ch, 0, e, m.bm[ch].DataReady, p) /\ e.Reset = c.Reset
    BY <2>2, <2>3, <2>4, KeptFine
  <2>6. Good(Put(m, ch, e), p) /\ Put(m, ch, e).bm = m.bm
    BY <2>1, <2>5, PutGood
  <2>7. Good(a, p) /\ a.bm = m.bm
    BY <2>6 DEF e
  <2>8. Masters(a, m)
    BY <2>7, MastersSame
  <2>9. Good(r.m, p) /\ Masters(r.m, m)
    BY <1>4, <2>7, <2>8
  <2>. QED BY <2>9 DEF r
<1>5. CASE r.m = HardDiskCommandAborted(m, ch)
  <2>1. /\ Good(HardDiskCommandAborted(m, ch), p)
        /\ Masters(HardDiskCommandAborted(m, ch), m)
    BY AbortGood DEF Masters
  <2>2. Good(r.m, p) /\ Masters(r.m, m)
    BY <1>5, <2>1
  <2>. QED BY <2>2 DEF r
<1>. QED BY <1>1, <1>2, <1>3, <1>4, <1>5

\* The rounds over the sectors of an entry.
SectorsTo(g, n, m, ch, taken, dies) ==
    g = [i \in 0..n |-> IF i = 0 THEN Result(m, FALSE)
                        ELSE SectorRound(g[i - 1], ch, taken, dies)]
LEMMA SectorsRounds ==
    ASSUME NEW m, NEW ch, NEW taken, NEW dies, NEW n \in Nat
    PROVE  \E g : SectorsTo(g, n, m, ch, taken, dies)
<1>. DEFINE c == Result(m, FALSE)
            F(x) == SectorRound(x, ch, taken, dies)
            S == {i \in Nat : \E g : SectorsTo(g, i, m, ch, taken, dies)}
<1>1. 0 \in S
  <2>. DEFINE g == [i \in 0..0 |-> c]
  <2>1. SectorsTo(g, 0, m, ch, taken, dies)
    <3>. HIDE DEF c
    <3>1. g = [i \in 0..0 |-> IF i = 0 THEN c ELSE F(g[i - 1])]
      OBVIOUS
    <3>. QED BY <3>1 DEF SectorsTo, c
  <2>. QED BY <2>1
<1>2. ASSUME NEW k \in 0..n, k \in S, k < n PROVE k + 1 \in S
  <2>1. PICK g : SectorsTo(g, k, m, ch, taken, dies)
    BY <1>2
  <2>2. g = [i \in 0..k |-> IF i = 0 THEN c ELSE F(g[i - 1])]
    BY <2>1 DEF SectorsTo
  <2>. DEFINE h == [i \in 0..(k + 1) |-> IF i = k + 1 THEN F(g[k]) ELSE g[i]]
              r == [i \in 0..(k + 1) |-> IF i = 0 THEN c ELSE F(h[i - 1])]
  <2>. HIDE DEF c
  <2>3. ASSUME NEW i \in 0..(k + 1) PROVE h[i] = r[i]
    <3>1. CASE i = 0
      <4>1. h[i] = g[0] /\ 0 \in 0..k
        BY <3>1
      <4>2. g[0] = c
        BY <2>2, <4>1
      <4>. QED BY <3>1, <4>1, <4>2
    <3>2. CASE i = k + 1
      <4>1. i # 0 /\ i - 1 = k /\ h[i - 1] = g[k]
        BY <3>2
      <4>. QED BY <3>2, <4>1
    <3>3. CASE i # 0 /\ i # k + 1
      <4>1. i \in 0..k /\ i - 1 \in 0..k /\ i # k + 1 /\ i - 1 # k + 1
        BY <3>3
      <4>2. h[i] = g[i] /\ h[i - 1] = g[i - 1]
        BY <4>1
      <4>3. g[i] = F(g[i - 1])
        BY <2>2, <3>3, <4>1
      <4>. QED BY <3>3, <4>2, <4>3
    <3>. QED BY <3>1, <3>2, <3>3
  <2>4. h = r
    BY <2>3
  <2>5. SectorsTo(h, k + 1, m, ch, taken, dies)
    BY <2>4 DEF SectorsTo, c
  <2>. QED BY <2>5
<1>. HIDE DEF S
<1>3. n \in S
  BY <1>1, <1>2, UpTo
<1>. QED BY <1>3 DEF S

SectorsBy(g, n, m, ch, taken, dies) ==
    /\ g[0] = Result(m, FALSE)
    /\ \A i \in 0..n : i < n => g[i + 1] = SectorRound(g[i], ch, taken, dies)
    /\ Sectors(m, ch, n, taken, dies) = g[n]
LEMMA SectorsIsRounds ==
    ASSUME NEW m, NEW ch, NEW taken, NEW dies, NEW n \in Nat
    PROVE  \E g : SectorsBy(g, n, m, ch, taken, dies)
<1>. DEFINE f[i \in 0..n] == IF i = 0 THEN Result(m, FALSE)
                             ELSE SectorRound(f[i - 1], ch, taken, dies)
<1>1. \E g : SectorsTo(g, n, m, ch, taken, dies)
  BY SectorsRounds
<1>2. SectorsTo(f, n, m, ch, taken, dies)
  BY <1>1 DEF SectorsTo
<1>3. Sectors(m, ch, n, taken, dies) = f[n]
  BY DEF Sectors
<1>. HIDE DEF f
<1>4. f[0] = Result(m, FALSE)
  BY <1>2 DEF SectorsTo
<1>5. ASSUME NEW i \in 0..n, i < n PROVE f[i + 1] = SectorRound(f[i], ch, taken, dies)
  <2>1. i + 1 \in 0..n /\ i + 1 # 0 /\ (i + 1) - 1 = i
    BY <1>5
  <2>. QED BY <1>2, <2>1 DEF SectorsTo
<1>6. SectorsBy(f, n, m, ch, taken, dies)
  BY <1>3, <1>4, <1>5 DEF SectorsBy
<1>. QED BY <1>6

LEMMA SectorRoundGood ==
    ASSUME NEW m, NEW p, Good(m, p), NEW ch \in Channel, m.bm[ch].Write => m.bm[ch].DataReady,
           NEW r, Good(r.m, p), Masters(r.m, m), NEW taken, NEW dies
    PROVE  LET s == SectorRound(r, ch, taken, dies)
           IN  Good(s.m, p) /\ Masters(s.m, m)
<1>. DEFINE l == r.m
            b == HardDiskBmdmaReadSector(l, ch, dies)
            w == HardDiskBmdmaWriteSector(l, ch, taken)
            s == SectorRound(r, ch, taken, dies)
<1>1. s = r \/ (l.bm[ch].Write /\ s = b) \/ s = w
  BY DEF SectorRound
<1>2. l.bm[ch].Write => l.bm[ch].DataReady
  <2>1. l.bm[ch].Write = m.bm[ch].Write /\ l.bm[ch].DataReady = m.bm[ch].DataReady
    BY MastersAt, ZenonT(60)
  <2>. QED BY <2>1
<1>. HIDE DEF l, b, w, s
<1>3. Good(l, p) /\ Masters(l, m)
  BY DEF l
<1>4. CASE s = r
  <2>1. Good(s.m, p) /\ Masters(s.m, m)
    BY <1>3, <1>4 DEF l
  <2>. QED BY <2>1 DEF s
<1>5. CASE l.bm[ch].Write /\ s = b
  <2>1. Good(b.m, p) /\ Masters(b.m, l)
    BY <1>2, <1>3, <1>5, BmdmaReadSectorGood DEF b
  <2>2. Masters(b.m, m)
    BY <1>3, <2>1, MastersAgain
  <2>3. Good(s.m, p) /\ Masters(s.m, m)
    BY <1>5, <2>1, <2>2
  <2>. QED BY <2>3 DEF s
<1>6. CASE s = w
  <2>1. Good(w.m, p) /\ Masters(w.m, l)
    BY <1>3, BmdmaWriteSectorGood DEF w
  <2>2. Masters(w.m, m)
    BY <1>3, <2>1, MastersAgain
  <2>3. Good(s.m, p) /\ Masters(s.m, m)
    BY <1>6, <2>1, <2>2
  <2>. QED BY <2>3 DEF s
<1>. QED BY <1>1, <1>4, <1>5, <1>6

LEMMA SectorsGood ==
    ASSUME NEW m, NEW p, Good(m, p), NEW ch \in Channel, m.bm[ch].Write => m.bm[ch].DataReady,
           NEW n \in Nat, NEW taken, NEW dies
    PROVE  LET r == Sectors(m, ch, n, taken, dies)
           IN  Good(r.m, p) /\ Masters(r.m, m)
<1>0. PICK g : SectorsBy(g, n, m, ch, taken, dies)
  BY SectorsIsRounds
<1>1. /\ g[0] = Result(m, FALSE)
      /\ \A i \in 0..n : i < n => g[i + 1] = SectorRound(g[i], ch, taken, dies)
      /\ Sectors(m, ch, n, taken, dies) = g[n]
  BY <1>0 DEF SectorsBy
<1>. DEFINE S == {i \in 0..n : Good(g[i].m, p) /\ Masters(g[i].m, m)}
<1>2. 0 \in S
  <2>1. g[0].m = m
    BY <1>1 DEF Result
  <2>2. Masters(m, m)
    BY MastersSame
  <2>. QED BY <2>1, <2>2
<1>3. ASSUME NEW i \in 0..n, i \in S, i < n PROVE i + 1 \in S
  <2>. DEFINE r == g[i]
              s == SectorRound(r, ch, taken, dies)
  <2>1. g[i + 1] = s
    BY <1>1, <1>3
  <2>2. Good(r.m, p) /\ Masters(r.m, m)
    BY <1>3
  <2>. HIDE DEF r
  <2>3. Good(s.m, p) /\ Masters(s.m, m)
    BY <2>2, SectorRoundGood
  <2>. HIDE DEF s
  <2>4. i + 1 \in 0..n
    BY <1>3
  <2>. QED BY <2>1, <2>3, <2>4
<1>. HIDE DEF S
<1>4. n \in S
  BY <1>2, <1>3, UpTo
<1>. QED BY <1>1, <1>4 DEF S

LEMMA ServedIn ==
    ASSUME NEW m, Serves(m) # {}
    PROVE  Served(m) \in Channel /\ m.bm[Served(m)].PrdCurrent # 0
<1>. DEFINE S == Serves(m)
<1>1. S \subseteq Nat /\ S # {} /\ S \subseteq Channel
  BY DEF Serves, Channel
<1>. HIDE DEF S
<1>2. \E x \in S : \A y \in S : x <= y
  BY <1>1, LeastNumber, Zenon
<1>3. Served(m) = CHOOSE ch \in S : \A other \in S : ch <= other
  BY DEF Served, S
<1>4. Served(m) \in S
  BY <1>2, <1>3
<1>. QED BY <1>1, <1>4 DEF S, Serves

LEMMA EntryOf ==
    ASSUME NEW i \in 1..Len(PrdTable)
    PROVE  /\ PrdTable[i].size \in 1..IDE_BUFFER_SIZE /\ PrdTable[i].last \in BOOLEAN
           /\ IDE_BUFFER_SIZE \in Nat /\ Len(PrdTable) \in Nat
           /\ ~PrdTable[i].last => i + 1 \in 0..Len(PrdTable)
<1>1. /\ IDE_BUFFER_SIZE \in Nat
      /\ PrdTable \in Seq([size : 1..IDE_BUFFER_SIZE, last : BOOLEAN])
      /\ PrdTable[Len(PrdTable)].last
  BY IdeAssumption
<1>2. Len(PrdTable) \in Nat /\ PrdTable[i] \in [size : 1..IDE_BUFFER_SIZE, last : BOOLEAN]
  <2>. DEFINE E == [size : 1..IDE_BUFFER_SIZE, last : BOOLEAN]
  <2>1. PrdTable \in Seq(E)
    BY <1>1
  <2>. HIDE DEF E
  <2>2. Len(PrdTable) \in Nat /\ PrdTable[i] \in E
    BY <2>1
  <2>. QED BY <2>2 DEF E
<1>3. PrdTable[i].size \in 1..IDE_BUFFER_SIZE /\ PrdTable[i].last \in BOOLEAN
  BY <1>2
<1>4. ~PrdTable[i].last => i # Len(PrdTable)
  BY <1>1
<1>. QED BY <1>1, <1>2, <1>3, <1>4

LEMMA IdeTimerHandlerGood ==
    ASSUME NEW m, NEW p, Good(m, p), NEW taken, NEW dies
    PROVE  Good(IdeTimerHandler(m, taken, dies), p)
<1>. DEFINE ch == Served(m)
            b == m.bm[ch]
            entry == PrdTable[b.PrdCurrent]
            size == entry.size
            from == IF b.BufferOffset + size > IDE_BUFFER_SIZE THEN 0 ELSE b.BufferOffset
            f == [b EXCEPT !.BufferOffset = from]
            n == BmAt(m, ch, f)
            r == Sectors(n, ch, size, taken, dies)
            k == r.m
            l == BmAt(k, ch, LastEntry(k.bm[ch]))
            x == BmAt(k, ch, NextEntry(k.bm[ch], size))
            h == IdeTimerHandler(m, taken, dies)
<1>1. \/ h = m
      \/ /\ Serves(m) # {} /\ (b.Write => b.DataReady)
         /\ \/ h = HardDiskBdmaComplete(k, ch)
            \/ h = HardDiskBdmaComplete(l, ch)
            \/ ~entry.last /\ h = x
  <2>. DEFINE empty == Serves(m) = {}
              waits == ~b.DataReady /\ b.Write
              u == HardDiskBdmaComplete(k, ch)
              v == HardDiskBdmaComplete(l, ch)
              last == entry.last
              ok == r.ok
  <2>1. h = CASE empty -> m
              [] ~empty /\ waits -> m
              [] OTHER -> IF ok THEN u ELSE IF last THEN v ELSE x
    <3>. HIDE DEF ch, b, entry
    <3>1. h = LET n1 == [m EXCEPT !.bm[ch].BufferOffset = from]
                  r1 == Sectors(n1, ch, size, taken, dies)
              IN  CASE Serves(m) = {} -> m
                    [] Serves(m) # {} /\ ~b.DataReady /\ b.Write -> m
                    [] OTHER ->
                           IF r1.ok THEN HardDiskBdmaComplete(r1.m, ch)
                           ELSE IF entry.last
                           THEN HardDiskBdmaComplete(
                                    [r1.m EXCEPT !.bm[ch] = LastEntry(@)], ch)
                           ELSE [r1.m EXCEPT !.bm[ch] = NextEntry(@, entry.size)]
      BY Zenon DEF IdeTimerHandler, ch, b, entry
    <3>2. [m EXCEPT !.bm[ch].BufferOffset = from] = n
      BY DEF BmAt, b
    <3>3. [k EXCEPT !.bm[ch] = LastEntry(@)] = l
      BY DEF BmAt
    <3>4. [k EXCEPT !.bm[ch] = NextEntry(@, entry.size)] = x
      BY DEF BmAt
    <3>. HIDE DEF h, n, l, x
    <3>5. h = LET r1 == Sectors(n, ch, size, taken, dies)
              IN  CASE Serves(m) = {} -> m
                    [] Serves(m) # {} /\ ~b.DataReady /\ b.Write -> m
                    [] OTHER ->
                           IF r1.ok THEN HardDiskBdmaComplete(r1.m, ch)
                           ELSE IF entry.last
                           THEN HardDiskBdmaComplete(
                                    [r1.m EXCEPT !.bm[ch] = LastEntry(@)], ch)
                           ELSE [r1.m EXCEPT !.bm[ch] = NextEntry(@, entry.size)]
      BY <3>1, <3>2, Zenon
    <3>. QED BY <3>3, <3>4, <3>5, Zenon
  <2>. HIDE DEF empty, u, v, last, ok, h, x
  <2>2. \/ h = m
        \/ /\ ~empty /\ ~waits
           /\ h = u \/ h = v \/ (~last /\ h = x)
    BY <2>1
  <2>. HIDE DEF ch, b, k, l, r, entry
  <2>. QED BY <2>2 DEF empty, u, v, last
<1>2. SUFFICES ASSUME Serves(m) # {}, b.Write => b.DataReady,
                      \/ h = HardDiskBdmaComplete(k, ch)
                      \/ h = HardDiskBdmaComplete(l, ch)
                      \/ ~entry.last /\ h = x
               PROVE  Good(h, p)
  <2>. HIDE DEF h, x, ch, b, k, l, r, entry
  <2>1. h = m => Good(h, p)
    OBVIOUS
  <2>. QED BY <1>1, <2>1 DEF h
<1>3. ch \in Channel /\ b.PrdCurrent # 0
  BY <1>2, ServedIn
<1>4. b \in BMDMA
  BY <1>3 DEF Good, MACHINE
<1>5. b.PrdCurrent \in 1..Len(PrdTable) /\ b.BufferOffset \in 0..IDE_BUFFER_SIZE
  <2>. HIDE DEF ch, b
  <2>1. Len(PrdTable) \in Nat
    BY IdeAssumption
  <2>. QED BY <1>3, <1>4, <2>1 DEF BMDMA
<1>6. /\ size \in 1..IDE_BUFFER_SIZE /\ IDE_BUFFER_SIZE \in Nat /\ Len(PrdTable) \in Nat
      /\ ~entry.last => b.PrdCurrent + 1 \in 0..Len(PrdTable)
  <2>. HIDE DEF ch, b
  <2>. QED BY <1>5, EntryOf
<1>. HIDE DEF ch, b, h, entry, size
<1>7. from \in 0..IDE_BUFFER_SIZE /\ from + size \in 0..IDE_BUFFER_SIZE /\ size \in Nat
  BY <1>5, <1>6
<1>. HIDE DEF from
<1>8. f \in BMDMA /\ f.DataReady = b.DataReady /\ f.Write = b.Write
      /\ f.PrdCurrent = b.PrdCurrent /\ f.BufferOffset = from
  BY <1>4, <1>7 DEF BMDMA
<1>. HIDE DEF f
<1>9. Good(n, p) /\ n.bm[ch] = f
  <2>1. m.bm[ch].DataReady => f.DataReady
    BY <1>8 DEF b
  <2>. QED BY <1>3, <1>8, <2>1, BmAtGood
<1>. HIDE DEF n
<1>10. Good(k, p) /\ Masters(k, n)
  <2>1. n.bm[ch].Write => n.bm[ch].DataReady
    BY <1>2, <1>8, <1>9
  <2>. QED BY <1>3, <1>7, <1>9, <2>1, SectorsGood
<1>. HIDE DEF r, k
<1>11. /\ k.bm[ch].PrdCurrent = b.PrdCurrent /\ k.bm[ch].BufferOffset = from
  <2>1. /\ k.bm[ch].PrdCurrent = n.bm[ch].PrdCurrent
        /\ k.bm[ch].BufferOffset = n.bm[ch].BufferOffset
    BY <1>3, <1>9, <1>10, MastersAt, ZenonT(30)
  <2>. QED BY <1>8, <1>9, <2>1
<1>. DEFINE a == k.bm[ch]
<1>12. a \in BMDMA
  BY <1>3, <1>10 DEF Good, MACHINE
<1>13. LastEntry(a) \in BMDMA /\ LastEntry(a).DataReady = a.DataReady
  <2>. HIDE DEF a
  <2>1. 0 \in 0..IDE_BUFFER_SIZE /\ 0 \in 0..Len(PrdTable)
    BY <1>6
  <2>. QED BY <1>12, <2>1 DEF BMDMA, LastEntry
<1>14. Good(l, p)
  <2>1. k.bm[ch].DataReady => LastEntry(a).DataReady
    BY <1>13
  <2>. QED BY <1>3, <1>10, <1>13, <2>1, BmAtGood
<1>15. ~entry.last => Good(x, p)
  <2>. DEFINE q == a.PrdCurrent + 1
              o == a.BufferOffset + size
              y == NextEntry(a, size)
  <2>1. SUFFICES ASSUME ~entry.last PROVE Good(x, p)
    OBVIOUS
  <2>2. q \in 0..Len(PrdTable) /\ o \in 0..IDE_BUFFER_SIZE
    BY <1>6, <1>7, <1>11, <2>1
  <2>3. y = [a EXCEPT !.PrdCurrent = q, !.BufferOffset = o]
    BY DEF NextEntry
  <2>. HIDE DEF q, o, a
  <2>4. y \in BMDMA /\ y.DataReady = a.DataReady
    BY <1>12, <2>2, <2>3 DEF BMDMA
  <2>. HIDE DEF y
  <2>5. k.bm[ch].DataReady => y.DataReady
    BY <2>4 DEF a
  <2>6. Good(BmAt(k, ch, y), p)
    BY <1>3, <1>10, <2>4, <2>5, BmAtGood
  <2>. QED BY <2>6 DEF y, a
<1>. HIDE DEF l, x
<1>16. Good(HardDiskBdmaComplete(k, ch), p) /\ Good(HardDiskBdmaComplete(l, ch), p)
  BY <1>3, <1>10, <1>14, BdmaCompleteGood
<1>. QED BY <1>2, <1>15, <1>16

-----------------------------------------------------------------------------
(***************************************************************************)
(* The behaviours of the drives.                                           *)
(***************************************************************************)

LEMMA StartFine ==
    /\ Absent \in DRIVE /\ Present \in DRIVE
    /\ Present.Reset = Absent.Reset
    /\ \A ch \in Channel : \A ready, p : /\ Fine(ch, 1, Absent, ready, p)
                                         /\ Fine(ch, 0, Present, ready, p)
<1>1. /\ REGISTER \in Nat /\ REGISTER >= 4 /\ DWORD \in Nat \ {0}
      /\ REGISTER * REGISTER \in Nat \ {0}
  BY Widths
<1>. DEFINE R == REGISTER
            Q == REGISTER * REGISTER
<1>2. 0 \in 0..(R - 1) /\ 1 \in 0..(R - 1) /\ 0 \in 0..(Q - 1) /\ 0 \in 0..(DWORD - 1)
  BY <1>1
<1>. HIDE DEF R, Q
<1>3. Absent \in DRIVE
  <2>1. \A a \in {FALSE} : a \in BOOLEAN
    OBVIOUS
  <2>2. 0 \in 0..(REGISTER - 1) /\ 0 \in 0..(REGISTER * REGISTER - 1)
    BY <1>2 DEF R, Q
  <2>. QED BY <1>2, <2>2 DEF Absent, DRIVE, STATUS, NoCommand, Feature
<1>4. /\ Absent.Status = {} /\ Absent.CurrentCommand = NoCommand
      /\ Absent.NumberOfSectors = 0 /\ Absent.IdentifySet = FALSE
      /\ Absent.Reset = Absent.ResetInProgress
  BY DEF Absent
<1>45. Absent.MultipleSectors = 0
  BY DEF Absent
<1>5. Present \in DRIVE
  <2>1. 1 \in 0..(REGISTER - 1) /\ {"RDY"} \in SUBSET STATUS
    BY <1>2 DEF R, STATUS
  <2>. QED BY <1>3, <2>1 DEF Present, DRIVE
<1>6. /\ Present.Status = {"RDY"} /\ Present.CurrentCommand = NoCommand
      /\ Present.NumberOfSectors = 0 /\ Present.IdentifySet = FALSE
      /\ Present.Reset = Absent.Reset /\ Present.ResetInProgress = Absent.ResetInProgress
  BY <1>3, <1>4 DEF Present, DRIVE
<1>65. Present.MultipleSectors = 0
  BY <1>3, <1>45 DEF Present, DRIVE
<1>7. \A ch \in Channel : NoCommand \notin Alien(ch) \cup Multiples \cup Reads \cup Writes
  BY DEF NoCommand, Alien, Reads, Writes, Multiples
<1>8. ASSUME NEW ch \in Channel, NEW c, "DRQ" \notin c.Status, "ERR" \notin c.Status,
             c.CurrentCommand = NoCommand, ~c.IdentifySet, c.MultipleSectors = 0
      PROVE  /\ Asks(c) /\ Replies(c) /\ Identity(ch, c) /\ c.CurrentCommand \notin Alien(ch)
             /\ \A ready : Silent(c, ready)
  BY <1>7, <1>8, Widths DEF Asks, Several, Replies, Identity, Silent
<1>9. ASSUME NEW ch \in Channel, NEW ready, NEW p PROVE Fine(ch, 1, Absent, ready, p)
  <2>1. /\ Asks(Absent) /\ Replies(Absent) /\ Absent.CurrentCommand \notin Alien(ch)
        /\ Silent(Absent, ready)
    <3>1. /\ "DRQ" \notin Absent.Status /\ "ERR" \notin Absent.Status
          /\ Absent.CurrentCommand = NoCommand /\ ~Absent.IdentifySet
      BY <1>4
    <3>. QED BY <1>8, <1>45, <3>1
  <2>. QED BY <1>3, <1>4, <2>1 DEF Fine
<1>10. ASSUME NEW ch \in Channel, NEW ready, NEW p PROVE Fine(ch, 0, Present, ready, p)
  <2>1. /\ Asks(Present) /\ Replies(Present) /\ Present.CurrentCommand \notin Alien(ch)
        /\ Identity(ch, Present)
    <3>1. /\ "DRQ" \notin Present.Status /\ "ERR" \notin Present.Status
          /\ Present.CurrentCommand = NoCommand /\ ~Present.IdentifySet
      BY <1>6
    <3>. QED BY <1>8, <1>65, <3>1
  <2>. QED BY <1>4, <1>5, <1>6, <2>1 DEF Fine
<1>. QED BY <1>3, <1>5, <1>6, <1>9, <1>10

LEMMA InitInv == Init => Inv
<1>. SUFFICES ASSUME Init PROVE Inv
  OBVIOUS
<1>. DEFINE A == HardDiskInitialize
            B == IdeInitialize
            D(ch) == [d \in Drive |-> IF DriveType(ch, d) = "NONE" THEN Absent ELSE Present]
<1>1. \A ch \in Channel : D(ch) \in [Drive -> DRIVE] /\ D(ch)[0] = Present /\ D(ch)[1] = Absent
  BY StartFine, Places DEF DriveType
<1>2. \A ch \in Channel : A[ch] = [DriveSelect |-> 0, Drive |-> D(ch)]
  BY DEF HardDiskInitialize
<1>3. DOMAIN A = Channel /\ A = [ch \in Channel |-> A[ch]]
  BY DEF HardDiskInitialize
<1>. HIDE DEF A, D
<1>4. /\ \A ch \in Channel : /\ A[ch] \in ATA_CHANNEL /\ A[ch].DriveSelect = 0
                             /\ A[ch].Drive[0] = Present /\ A[ch].Drive[1] = Absent
      /\ A \in [Channel -> ATA_CHANNEL]
  BY <1>1, <1>2, <1>3, Places DEF ATA_CHANNEL
<1>5. B \in [Channel -> BMDMA]
  <2>1. IDE_BUFFER_SIZE \in Nat /\ Len(PrdTable) \in Nat
    BY IdeAssumption
  <2>2. 0 \in 0..IDE_BUFFER_SIZE /\ 0 \in 0..Len(PrdTable) /\ 0 \in 0..1
    BY <2>1
  <2>. QED BY <2>2 DEF IdeInitialize, BMDMA
<1>. HIDE DEF B
<1>6. /\ Machine = [ata |-> A, bm |-> B, lines |-> {}, exited |-> FALSE]
      /\ proper = TRUE /\ request = NoRequest /\ session \in Sessions
  BY DEF Init, Machine, A, B
<1>7. Machine \in MACHINE /\ Machine.ata = A
  BY <1>4, <1>5, <1>6 DEF MACHINE
<1>8. ASSUME NEW ch \in Channel, NEW d \in Drive
      PROVE  Fine(ch, d, Machine.ata[ch].Drive[d], Machine.bm[ch].DataReady, proper)
  <2>1. CASE d = 0
    BY <1>4, <1>7, <2>1, StartFine
  <2>2. CASE d = 1
    BY <1>4, <1>7, <2>2, StartFine
  <2>. QED BY <2>1, <2>2, Places
<1>9. ASSUME NEW ch \in Channel PROVE Pair(Machine.ata[ch], proper)
  <2>1. /\ Machine.ata[ch].Drive[0] = Present /\ Machine.ata[ch].Drive[1] = Absent
        /\ Machine.ata[ch].DriveSelect = 0
    BY <1>4, <1>7
  <2>. QED BY <2>1, StartFine DEF Pair
<1>10. Good(Machine, proper)
  BY <1>7, <1>8, <1>9 DEF Good
<1>. QED BY <1>6, <1>10 DEF Inv, Recorded, Records

\* A machine is what Become makes of the variables.
LEMMA Becomes ==
    ASSUME NEW n, NEW p, Good(n, p), Become(n)
    PROVE  Machine' = n /\ ata' = n.ata
<1>1. n \in MACHINE
  BY DEF Good
<1>2. n = [ata |-> n.ata, bm |-> n.bm, lines |-> n.lines, exited |-> n.exited]
  BY <1>1 DEF MACHINE
<1>3. ata' = n.ata /\ bm' = n.bm /\ lines' = n.lines /\ exited' = n.exited
  BY DEF Become
<1>. QED BY <1>2, <1>3 DEF Machine

\* The guest of a session.
LEMMA SessionHas ==
    ASSUME session \in Sessions
    PROVE  /\ session.channel \in Channel /\ session.dma \in BOOLEAN
           /\ session.controls \subseteq BOOLEAN /\ session.commands \subseteq Commands
           /\ session.taskFiles \subseteq TaskFile /\ \A k \in session.packets : Packet(k)
           /\ \A l \in Lengths : l \in Nat /\ l \in Nat \ {0}
BY DiskAssumption

\* What a handler hands on to the next state.
Hands(n, r, q) == Good(n, q) /\ q \in BOOLEAN /\ Records(session, n.ata, r)
LEMMA HandsInv ==
    ASSUME NEW n, Become(n), Hands(n, request', proper'), session \in Sessions,
           UNCHANGED session
    PROVE  Inv'
<1>1. Good(n, proper') /\ proper' \in BOOLEAN /\ Records(session, n.ata, request')
  BY DEF Hands
<1>2. Machine' = n /\ ata' = n.ata
  BY <1>1, Becomes
<1>3. Good(Machine', proper')
  BY <1>1, <1>2
<1>4. session' \in Sessions /\ Records(session', ata', request')
  BY <1>1, <1>2
<1>. QED BY <1>1, <1>3, <1>4 DEF Inv, Recorded

\* Before a step the guest has kept to the protocol.
LEMMA Before ==
    ASSUME Inv, proper
    PROVE  /\ Good(Machine, TRUE) /\ Records(session, ata, request) /\ session \in Sessions
           /\ session.channel \in Channel /\ Machine.ata = ata /\ proper = TRUE
<1>1. Good(Machine, proper) /\ proper \in BOOLEAN /\ Records(session, ata, request)
      /\ session \in Sessions
  BY DEF Inv, Recorded
<1>2. proper = TRUE
  BY <1>1
<1>3. Good(Machine, TRUE)
  BY <1>1, <1>2
<1>4. session.channel \in Channel
  BY <1>1, SessionHas
<1>. QED BY <1>1, <1>2, <1>3, <1>4 DEF Machine

LEMMA WriteTaskFileInv ==
    ASSUME Inv, proper, WriteTaskFile(session.channel)
    PROVE  Inv'
<1>. DEFINE ch == session.channel
            q == proper /\ "DRQ" \notin Status(ch)
<1>1. Good(Machine, TRUE) /\ session \in Sessions /\ ch \in Channel
  BY Before
<1>2. session.taskFiles \subseteq TaskFile
  BY <1>1, SessionHas
<1>. HIDE DEF ch
<1>3. PICK t \in session.taskFiles : Become(FillTaskFile(Machine, ch, t))
  BY DEF WriteTaskFile, ch
<1>4. request' = NoRequest /\ proper' = q /\ UNCHANGED session
  BY DEF WriteTaskFile, ch
<1>5. q \in BOOLEAN /\ (q => "DRQ" \notin Sel(Machine, ch).Status)
  BY DEF Status, Selected
<1>. HIDE DEF q
<1>6. Good(FillTaskFile(Machine, ch, t), q)
  BY <1>1, <1>2, <1>3, <1>5, FillTaskFileGood
<1>7. Hands(FillTaskFile(Machine, ch, t), request', proper')
  BY <1>4, <1>5, <1>6 DEF Hands, Records
<1>. QED BY <1>1, <1>3, <1>4, <1>7, HandsInv

LEMMA CommandInv ==
    ASSUME Inv, proper, Command(session.channel)
    PROVE  Inv'
<1>. DEFINE ch == session.channel
<1>1. /\ Good(Machine, TRUE) /\ session \in Sessions /\ ch \in Channel /\ proper = TRUE
      /\ Records(session, ata, request) /\ Machine.ata = ata
  BY Before
<1>2. session.commands \subseteq Commands /\ session.dma \in BOOLEAN
  BY <1>1, SessionHas
<1>. HIDE DEF ch
<1>3. PICK cmd \in {cmd \in session.commands : Honours(Selected(ch), cmd)} :
          \E present \in {session.dma}, taken \in Takings(cmd), dies \in Deaths(cmd) :
              LET m == WriteCommandRegister(Machine, ch, cmd, present, taken, dies)
              IN  /\ Become(m)
                  /\ request' = IF m.ata = ata THEN request ELSE Accepted(m, ch, cmd)
  BY DEF Command, ch
<1>4. PICK present \in {session.dma}, taken \in Takings(cmd), dies \in Deaths(cmd) :
          LET m == WriteCommandRegister(Machine, ch, cmd, present, taken, dies)
          IN  /\ Become(m)
              /\ request' = IF m.ata = ata THEN request ELSE Accepted(m, ch, cmd)
  BY <1>3
<1>. DEFINE n == WriteCommandRegister(Machine, ch, cmd, present, taken, dies)
            t == HardDiskLba48Transform(Sel(Machine, ch), Ext(cmd))
<1>5. Become(n) /\ request' = IF n.ata = ata THEN request ELSE Accepted(n, ch, cmd)
  BY <1>4
<1>6. UNCHANGED session /\ UNCHANGED proper
  BY DEF Command
<1>7. cmd \in Commands /\ present \in BOOLEAN /\ Honours(Sel(Machine, ch), cmd)
  BY <1>2, <1>3, <1>4 DEF Selected
<1>8. /\ Good(n, TRUE)
      /\ \/ n.ata = Machine.ata
         \/ /\ Dnum(n, ch) = 0
            /\ cmd \in Reads /\ n.ata[ch].Drive[0].CurrentCommand = cmd /\ t.Lba =>
                   ch = 0 /\ Tracks(n.ata[0].Drive[0], RequestOf(t))
  BY <1>1, <1>7, WriteCommandRegisterGood, ZenonT(30)
<1>9. Accepted(n, ch, cmd) = NoRequest
      \/ /\ Accepted(n, ch, cmd) = RequestOf(t) /\ cmd \in Reads
         /\ n.ata[ch].Drive[0].CurrentCommand = cmd /\ t.Lba
  <2>. HIDE DEF n
  <2>. QED BY DEF Accepted, RequestOf, Selected
<1>. HIDE DEF n, t
<1>10. Records(session, n.ata, request')
  <2>1. CASE n.ata = ata
    BY <1>1, <1>5, <2>1
  <2>2. CASE n.ata # ata
    <3>1. request' = Accepted(n, ch, cmd)
      BY <1>5, <2>2
    <3>2. request' # NoRequest =>
              ch = 0 /\ Tracks(n.ata[0].Drive[0], request') /\ n.ata[0].DriveSelect = 0
      BY <1>1, <1>8, <1>9, <2>2, <3>1 DEF Dnum
    <3>. QED BY <3>2 DEF Records, ch
  <2>. QED BY <2>1, <2>2
<1>11. proper' = TRUE
  BY <1>1, <1>6
<1>12. Hands(n, request', proper')
  BY <1>8, <1>10, <1>11 DEF Hands
<1>. QED BY <1>1, <1>5, <1>6, <1>12, HandsInv

LEMMA ReadPort0Inv ==
    ASSUME Inv, proper, ReadPort0(session.channel)
    PROVE  Inv'
<1>. DEFINE ch == session.channel
            q == proper /\ Wants(ch, "in")
<1>1. /\ Good(Machine, TRUE) /\ session \in Sessions /\ ch \in Channel
      /\ Records(session, ata, request) /\ Machine.ata = ata
  BY Before
<1>2. \A l \in Lengths : l \in Nat \ {0}
  BY <1>1, SessionHas
<1>. HIDE DEF ch
<1>3. PICK Length \in Lengths, dies \in Deaths(Selected(ch).CurrentCommand) :
          Become(PortIoRead0(Machine, ch, Length, dies))
  BY DEF ReadPort0, ch
<1>4. request' = request /\ proper' = q /\ UNCHANGED session
  BY DEF ReadPort0, ch
<1>5. q \in BOOLEAN
      /\ (q /\ Sel(Machine, ch).CurrentCommand = "ATAPI_PACKET" =>
              Sel(Machine, ch).SectorCount % 4 >= 2)
  BY DEF Wants, Selected
<1>. DEFINE n == PortIoRead0(Machine, ch, Length, dies)
<1>. HIDE DEF q
<1>6. /\ Good(n, q)
      /\ ch = 0 /\ Dnum(Machine, 0) = 0 =>
             /\ Dnum(n, 0) = 0
             /\ \A r : Tracks(Sel(Machine, 0), r) => Tracks(n.ata[0].Drive[0], r)
  BY <1>1, <1>2, <1>3, <1>5, PortIoRead0Good
<1>. HIDE DEF n
<1>7. Records(session, n.ata, request)
  <2>1. SUFFICES ASSUME request # NoRequest
                 PROVE  session.channel = 0 /\ n.ata[0].DriveSelect = 0
                        /\ Tracks(n.ata[0].Drive[0], request)
    BY DEF Records
  <2>2. ch = 0 /\ ata[0].DriveSelect = 0 /\ Tracks(ata[0].Drive[0], request)
    BY <1>1, <2>1 DEF Records, ch
  <2>3. Dnum(Machine, 0) = 0 /\ Sel(Machine, 0) = ata[0].Drive[0]
    BY <1>1, <2>2 DEF Dnum, Sel
  <2>4. Dnum(n, 0) = 0 /\ Tracks(n.ata[0].Drive[0], request)
    BY <1>6, <2>2, <2>3
  <2>. QED BY <2>2, <2>4 DEF Dnum, ch
<1>8. Hands(n, request', proper')
  BY <1>4, <1>5, <1>6, <1>7 DEF Hands
<1>. QED BY <1>1, <1>3, <1>4, <1>8, HandsInv DEF n

LEMMA WritePort0Inv ==
    ASSUME Inv, proper, WritePort0(session.channel)
    PROVE  Inv'
<1>. DEFINE ch == session.channel
            q == proper /\ Wants(ch, "out") /\ Limited(ch)
<1>1. /\ Good(Machine, TRUE) /\ session \in Sessions /\ ch \in Channel
      /\ Records(session, ata, request) /\ Machine.ata = ata
  BY Before
<1>2. (\A l \in Lengths : l \in Nat) /\ (\A k \in session.packets : Packet(k))
  BY <1>1, SessionHas
<1>. HIDE DEF ch
<1>3. PICK Length \in Lengths, taken \in Takings(Selected(ch).CurrentCommand),
           k \in session.packets : Become(PortIoWrite0(Machine, ch, Length, taken, k))
  BY DEF WritePort0, ch
<1>4. /\ request' = request /\ proper' = q /\ UNCHANGED session
      /\ Selected(ch).CurrentCommand \in Writes \cup {"ATAPI_PACKET"}
  BY DEF WritePort0, ch
<1>5. q \in BOOLEAN
      /\ (q /\ Sel(Machine, ch).CurrentCommand = "ATAPI_PACKET"
             => Sel(Machine, ch).CylinderNumber > 1)
  BY DEF Selected, Wants, Limited
<1>. DEFINE n == PortIoWrite0(Machine, ch, Length, taken, k)
<1>. HIDE DEF q
<1>6. Good(Machine, q)
  BY <1>1, GoodWeaker
<1>7. Good(n, q)
  BY <1>1, <1>2, <1>3, <1>5, <1>6, PortIoWrite0Good
<1>8. request = NoRequest
  <2>1. SUFFICES ASSUME request # NoRequest PROVE FALSE
    OBVIOUS
  <2>2. ch = 0 /\ ata[0].DriveSelect = 0 /\ Tracks(ata[0].Drive[0], request)
    BY <1>1, <2>1 DEF Records, ch
  <2>3. Selected(ch) = ata[0].Drive[0]
    BY <1>1, <2>2 DEF Dnum, Sel, Selected
  <2>. QED BY <1>4, <2>2, <2>3 DEF Tracks, Reads, Writes
<1>. HIDE DEF n
<1>9. Hands(n, request', proper')
  BY <1>4, <1>5, <1>7, <1>8 DEF Hands, Records
<1>. QED BY <1>1, <1>3, <1>4, <1>9, HandsInv DEF n

\* A step that leaves the drives as they are, or what is on record behind.
LEMMA LeavesInv ==
    ASSUME Inv, proper, NEW n, Good(n, TRUE), Become(n), UNCHANGED <<session, proper>>,
           request' = NoRequest \/ (request' = request /\ n.ata = ata)
    PROVE  Inv'
<1>1. Records(session, ata, request) /\ session \in Sessions /\ proper = TRUE
  BY Before
<1>2. Records(session, n.ata, request')
  BY <1>1 DEF Records
<1>3. Hands(n, request', proper')
  BY <1>1, <1>2 DEF Hands
<1>. QED BY <1>1, <1>3, HandsInv

LEMMA ReadStatusRegisterInv ==
    ASSUME Inv, proper, ReadStatusRegister(session.channel)
    PROVE  Inv'
<1>. DEFINE n == ReadStatus(Machine, session.channel)
<1>1. Good(Machine, TRUE) /\ session.channel \in Channel /\ Machine.ata = ata
  BY Before
<1>2. Good(n, TRUE) /\ n.ata = ata
  BY <1>1, ReadStatusGood
<1>3. Become(n) /\ UNCHANGED <<session, proper>> /\ request' = request
  BY DEF ReadStatusRegister
<1>. HIDE DEF n
<1>. QED BY <1>2, <1>3, LeavesInv

LEMMA ControlledTracks ==
    ASSUME NEW c \in DRIVE, NEW reset, NEW disable, NEW r, Tracks(c, r)
    PROVE  Tracks(Controlled(c, reset, disable), r)
<1>. DEFINE e == Controlled(c, reset, disable)
<1>1. /\ e.CurrentCommand = c.CurrentCommand /\ e.BufferSize = c.BufferSize
      /\ e.Status = c.Status /\ e.NumberOfSectors = c.NumberOfSectors
      /\ Here(e, c)
  BY DEF Controlled, DRIVE, Here
<1>. HIDE DEF e
<1>2. HardDiskCalculateLogicalAddress(e) = HardDiskCalculateLogicalAddress(c)
  BY <1>1, SameAddress
<1>. QED BY <1>1, <1>2 DEF Tracks, At, Here, e

LEMMA ControlInv ==
    ASSUME Inv, proper, Control(session.channel)
    PROVE  Inv'
<1>. DEFINE ch == session.channel
<1>1. /\ Good(Machine, TRUE) /\ session \in Sessions /\ ch \in Channel /\ proper = TRUE
      /\ Records(session, ata, request) /\ Machine.ata = ata
  BY Before
<1>2. session.controls \subseteq BOOLEAN
  BY <1>1, SessionHas
<1>. HIDE DEF ch
<1>3. PICK reset \in session.controls, disable \in session.controls :
          /\ Become(WriteControl(Machine, ch, reset, disable))
          /\ request' = IF reset = Selected(ch).Reset THEN request ELSE NoRequest
  BY DEF Control, ch
<1>4. reset \in BOOLEAN /\ disable \in BOOLEAN
  BY <1>2, <1>3
<1>5. UNCHANGED <<session, proper>>
  BY DEF Control
<1>. DEFINE n == WriteControl(Machine, ch, reset, disable)
            same == reset = Sel(Machine, ch).Reset
            c == ata[ch].Drive[0]
            e == Controlled(c, reset, disable)
<1>6. Good(n, TRUE) /\ (same => Dnum(n, ch) = Dnum(Machine, ch) /\ n.ata[ch].Drive[0] = e)
  BY <1>1, <1>4, WriteControlGood, ZenonT(30)
<1>7. Become(n) /\ request' = IF same THEN request ELSE NoRequest
  BY <1>3 DEF Selected
<1>8. c \in DRIVE
  BY <1>1, Places, TypedDrives
<1>. HIDE DEF n, same, e, c
<1>9. Records(session, n.ata, request')
  <2>1. SUFFICES ASSUME request' # NoRequest
                 PROVE  session.channel = 0 /\ n.ata[0].DriveSelect = 0
                        /\ Tracks(n.ata[0].Drive[0], request')
    BY DEF Records
  <2>2. same /\ request' = request /\ request # NoRequest
    BY <1>7, <2>1
  <2>3. ch = 0 /\ ata[0].DriveSelect = 0 /\ Tracks(ata[0].Drive[0], request)
    BY <1>1, <2>2 DEF Records, ch
  <2>4. Tracks(c, request)
    BY <2>3 DEF c
  <2>5. Tracks(e, request)
    BY <1>8, <2>4, ControlledTracks DEF e
  <2>6. Dnum(n, 0) = 0 /\ n.ata[0].Drive[0] = e
    BY <1>1, <1>6, <2>2, <2>3 DEF Dnum
  <2>. QED BY <2>2, <2>3, <2>5, <2>6 DEF Dnum, ch
<1>10. Hands(n, request', proper')
  BY <1>1, <1>5, <1>6, <1>9 DEF Hands
<1>. QED BY <1>1, <1>5, <1>7, <1>10, HandsInv

LEMMA BusMasterInv ==
    ASSUME Inv, proper, BusMaster(session.channel)
    PROVE  Inv'
<1>. DEFINE ch == session.channel
            t == WriteBmTable(Machine, ch, 1)
            s == WriteBmStatus(Machine, ch, TRUE)
<1>1. Good(Machine, TRUE) /\ ch \in Channel /\ Machine.ata = ata
  BY Before
<1>2. Good(t, TRUE) /\ t.ata = ata
  BY <1>1, WriteBmTableGood
<1>3. Good(s, TRUE) /\ s.ata = ata
  BY <1>1, WriteBmStatusGood
<1>4. UNCHANGED <<session, proper>> /\ request' = request
  BY DEF BusMaster
<1>5. \/ \E start, write \in BOOLEAN : Become(WriteBmCommand(t, ch, start, write))
      \/ Become(s)
  BY DEF BusMaster
<1>. HIDE DEF ch, t, s
<1>6. CASE Become(s)
  BY <1>3, <1>4, <1>6, LeavesInv
<1>7. ASSUME NEW start \in BOOLEAN, NEW write \in BOOLEAN,
             Become(WriteBmCommand(t, ch, start, write))
      PROVE  Inv'
  <2>. DEFINE n == WriteBmCommand(t, ch, start, write)
  <2>1. Good(t, TRUE) /\ ch \in Channel /\ t.ata = ata
    BY <1>1, <1>2
  <2>2. Good(n, TRUE) /\ n.ata = t.ata
    BY <2>1, WriteBmCommandGood, Zenon
  <2>3. Good(n, TRUE) /\ n.ata = ata
    BY <2>1, <2>2
  <2>. HIDE DEF n
  <2>. QED BY <1>4, <1>7, <2>3, LeavesInv DEF n
<1>. QED BY <1>5, <1>6, <1>7

LEMMA IdeTimerInv ==
    ASSUME Inv, proper, IdeTimer
    PROVE  Inv'
<1>1. Good(Machine, TRUE)
  BY Before
<1>2. PICK dies \in BOOLEAN, taken \in {0, 1, DWORD} :
          Become(IdeTimerHandler(Machine, taken, dies))
  BY DEF IdeTimer
<1>3. UNCHANGED <<session, proper>> /\ request' = IF ata' = ata THEN request ELSE NoRequest
  BY DEF IdeTimer
<1>. DEFINE n == IdeTimerHandler(Machine, taken, dies)
<1>4. Good(n, TRUE) /\ Become(n)
  BY <1>1, <1>2, IdeTimerHandlerGood
<1>. HIDE DEF n
<1>5. ata' = n.ata
  BY <1>4 DEF Become
<1>6. request' = NoRequest \/ (request' = request /\ n.ata = ata)
  BY <1>3, <1>5
<1>. QED BY <1>3, <1>4, <1>6, LeavesInv

LEMMA NextInv == Inv /\ [Next]_vars => Inv'
<1>. SUFFICES ASSUME Inv, [Next]_vars PROVE Inv'
  OBVIOUS
<1>1. CASE UNCHANGED vars
  BY <1>1 DEF vars, Inv, Recorded, Machine
<1>2. CASE Next
  <2>1. proper
    BY <1>2 DEF Next
  <2>2. \/ WriteTaskFile(session.channel) \/ Command(session.channel)
        \/ ReadPort0(session.channel) \/ WritePort0(session.channel)
        \/ ReadStatusRegister(session.channel) \/ Control(session.channel)
        \/ BusMaster(session.channel) \/ IdeTimer
    BY <1>2 DEF Next
  <2>. QED BY <2>1, <2>2, WriteTaskFileInv, CommandInv, ReadPort0Inv, WritePort0Inv,
              ReadStatusRegisterInv, ControlInv, BusMasterInv, IdeTimerInv
<1>. QED BY <1>1, <1>2

-----------------------------------------------------------------------------
(***************************************************************************)
(* What the invariant says of the drives.                                  *)
(***************************************************************************)

LEMMA InvDrives ==
    ASSUME Inv
    PROVE  /\ Machine \in MACHINE /\ proper \in BOOLEAN /\ session \in Sessions
           /\ \A ch \in Channel, d \in Drive :
                  Fine(ch, d, ata[ch].Drive[d], bm[ch].DataReady, proper)
<1>1. Good(Machine, proper) /\ proper \in BOOLEAN /\ session \in Sessions
  BY DEF Inv
<1>2. Machine.ata = ata /\ Machine.bm = bm
  BY DEF Machine
<1>. QED BY <1>1, <1>2 DEF Good

LEMMA InvTyped == Inv => TypeOK
<1>. SUFFICES ASSUME Inv PROVE TypeOK
  OBVIOUS
<1>1. Machine \in MACHINE /\ proper \in BOOLEAN /\ session \in Sessions
  BY InvDrives
<1>2. /\ Machine.ata = ata /\ Machine.bm = bm /\ Machine.lines = lines
      /\ Machine.exited = exited
  BY DEF Machine
<1>. QED BY <1>1, <1>2 DEF TypeOK, MACHINE

LEMMA InvSilent == Inv => AbsentDriveSilent
<1>. SUFFICES ASSUME Inv, NEW ch \in Channel PROVE Silent(ata[ch].Drive[1], bm[ch].DataReady)
  BY DEF AbsentDriveSilent, Silent
<1>1. Fine(ch, 1, ata[ch].Drive[1], bm[ch].DataReady, proper)
  BY InvDrives, Places
<1>. QED BY <1>1 DEF Fine

LEMMA InvIdentity == Inv => IdentityCurrent
<1>. SUFFICES ASSUME Inv, NEW ch \in Channel PROVE Identity(ch, ata[ch].Drive[0])
  BY Places DEF IdentityCurrent, Identity, Words, DriveType
<1>1. Fine(ch, 0, ata[ch].Drive[0], bm[ch].DataReady, proper)
  BY InvDrives, Places
<1>. QED BY <1>1 DEF Fine

LEMMA InvDrq == Inv => DrqHasCommand
<1>. SUFFICES ASSUME Inv, NEW ch \in Channel, NEW d \in Drive PROVE Asks(ata[ch].Drive[d])
  BY DEF DrqHasCommand, Asks
<1>1. Fine(ch, d, ata[ch].Drive[d], bm[ch].DataReady, proper)
  BY InvDrives
<1>. QED BY <1>1 DEF Fine

LEMMA InvRoom == Inv => BufferHasRoom
<1>. SUFFICES ASSUME Inv PROVE Asks(ata[0].Drive[0])
  BY DEF BufferHasRoom, Asks, Several
<1>1. Fine(0, 0, ata[0].Drive[0], bm[0].DataReady, proper)
  BY InvDrives, Places
<1>. QED BY <1>1 DEF Fine

LEMMA InvReads == Inv => ReadsAsAsked
<1>. SUFFICES ASSUME Inv, request # NoRequest PROVE ReadsAsAsked
  BY DEF ReadsAsAsked, ReadsInOrder, ReadsAll
<1>1. Tracks(ata[0].Drive[0], request)
  BY DEF Inv, Recorded, Records
<1>. QED BY <1>1 DEF Tracks, At, ReadsAsAsked, ReadsInOrder, ReadsAll

LEMMA InvReply == Inv => ReplyConserved
<1>. SUFFICES ASSUME Inv, proper PROVE Replies(ata[1].Drive[0])
  BY DEF ReplyConserved, Replies
<1>1. Fine(1, 0, ata[1].Drive[0], bm[1].DataReady, proper)
  BY InvDrives, Places
<1>. QED BY <1>1 DEF Fine

\* The inductive invariant: both channels have drives that are fine in their
\* places, and what is on record of a read is where the registers are
\* (harddisk.c: every port handler, the packet commands; ide.c: the bus master).
THEOREM DiskInvariant == Spec => []Inv
<1>1. Init => Inv
  BY InitInv
<1>2. Inv /\ [Next]_vars => Inv'
  BY NextInv
<1>. QED BY <1>1, <1>2, PTL DEF Spec

\* The registers stay in their ranges, a drive that is not there stays silent up
\* to the error of a bus master transfer, and the identity names the mode in
\* force (HardDiskWriteHandler, SET FEATURES, HardDiskBmdmaReadSector).
THEOREM DrivesStayConsistent == Spec => []DrivesConsistent
<1>1. Inv => DrivesConsistent
  BY InvTyped, InvSilent, InvIdentity DEF DrivesConsistent
<1>. QED BY <1>1, DiskInvariant, PTL

\* Whatever ends a command takes the data request back (HardDiskCommandAborted,
\* HardDiskReset, HardDiskBdmaComplete and the last block of a transfer).
THEOREM DrqAlwaysHasCommand == Spec => []DrqHasCommand
<1>1. Inv => DrqHasCommand
  BY InvDrq
<1>. QED BY <1>1, DiskInvariant, PTL

\* A guest that waits for the data request never meets the exit(-1) of the data
\* port (HardDiskReadHandler and HardDiskWriteHandler, port 0).
THEOREM BufferAlwaysHasRoom == Spec => []BufferHasRoom
<1>1. Inv => BufferHasRoom
  BY InvRoom
<1>. QED BY <1>1, DiskInvariant, PTL

\* A read in LBA mode hands over the sectors asked for, all of them and in their
\* order (HardDiskReadSector, HardDiskIncrementAddress, port 0).
THEOREM ReadsAlwaysAsAsked == Spec => []ReadsAsAsked
<1>1. Inv => ReadsAsAsked
  BY InvReads
<1>. QED BY <1>1, DiskInvariant, PTL

\* No chunk of a packet's reply is longer than what is left of it, for a guest
\* that keeps to the protocol of the data port (HardDiskInitAtapiCommand, port 0).
THEOREM ReplyAlwaysConserved == Spec => []ReplyConserved
<1>1. Inv => ReplyConserved
  BY InvReply
<1>. QED BY <1>1, DiskInvariant, PTL

=============================================================================
