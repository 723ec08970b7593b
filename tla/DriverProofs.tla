---------------------------- MODULE DriverProofs ----------------------------
(***************************************************************************)
(* What goes on by itself while a driver works: the disk of ata.c, the      *)
(* AC'97 engine of ac97.c and the processors of sys/smp.c.                  *)
(*                                                                          *)
(* The driver of ata.c and its device implement the sector store, for every *)
(* medium, every length of a transfer and every number of calls: whatever   *)
(* fails or times out, and whenever the device answers after that.          *)
(*                                                                          *)
(* The sound that is heard is the last one that was started.  A call of     *)
(* ac97_play_pcm writes the samples, the descriptors, the reset and the     *)
(* start in that order while the engine still reads what the call before   *)
(* left, so the invariant follows the call: before the copy all is as the   *)
(* last call that started the engine left it (Undisturbed); after it the    *)
(* samples, then the list, then the resting engine belong to the new call   *)
(* (Prepared).  Descriptors behind the new list stay those of a longer,     *)
(* older sound, and the engine never gets to them because LVI is the last   *)
(* new one: the lemma UsedFromFirst, about the frames left after i          *)
(* descriptors, and DescriptorFits, about where they end, carry that.       *)
(***************************************************************************)
EXTENDS Disk, Sound, Smp, SequenceTheorems, FiniteSetTheorems, TLAPS

-----------------------------------------------------------------------------
(* The disk.                                                                *)

Device ==
  [st : {"ready", "busy", "drq", "err"}, op : {"none", "read", "write"}, lba : Nat, n : Nat, k : Nat,
   latch : Value \cup {Nothing}]

DiskTypes ==
  /\ apc \in {"idle", "bsy0", "bsy", "drq", "xfer"}
  /\ IF apc = "idle" THEN acall = NoRequest ELSE acall \in Requests
  /\ sec \in Nat /\ abuf \in Seq(Value) /\ aret \in Int /\ media \in [Lba -> Value]
  /\ dev \in Device

\* A sector in the device's buffer belongs to a write and is on its way; a
\* device that offers a sector, or room for one, has it on the medium.
DeviceSane ==
  /\ dev.latch # Nothing => dev.st = "busy" /\ dev.lba + dev.k \in Lba
  /\ dev.st = "drq" => dev.lba + dev.k \in Lba

\* From the command on, the device works on the call in progress and both
\* count the same sectors: a device that still holds the last one is one
\* behind, and after an error it may be.
InCall ==
  Active =>
    /\ dev.op = acall.op /\ dev.lba = acall.lba /\ dev.n = acall.n /\ sec < acall.n
    /\ apc = "xfer" => dev.st = "drq"
    /\ acall.op = "read" => dev.k = sec /\ Len(abuf) = sec /\ dev.latch = Nothing
    /\ acall.op = "write" =>
         IF dev.latch # Nothing THEN sec = dev.k + 1 /\ dev.latch = acall.data[sec]
         ELSE dev.st # "err" => sec = dev.k

Outside == apc = "bsy0" => sec = 0 /\ abuf = <<>>

DiskInv == DiskTypes /\ DeviceSane /\ InCall /\ Outside

----------------------------------------------------------------------------

\* What a request is made of.
LEMMA RequestFields ==
  ASSUME NEW r \in Requests
  PROVE  /\ r.op \in {"read", "write"} /\ r.lba \in Lba /\ r.lba \in Nat /\ r.n \in Nat /\ r.n > 0 /\ r # NoRequest
         /\ r.op = "write" => \A i \in 1 .. r.n : r.data[i] \in Value
<1> USE DiskAssumption
<1>1. CASE \E l \in Lba, n \in 1 .. MaxCount : r = [op |-> "read", lba |-> l, n |-> n]
  BY <1>1 DEF NoRequest
<1>2. ASSUME NEW l \in Lba, NEW m \in 1 .. MaxCount, NEW d \in [1 .. m -> Value],
             r = [op |-> "write", lba |-> l, n |-> Len(d), data |-> d]
      PROVE  /\ r.op \in {"read", "write"} /\ r.lba \in Lba /\ r.lba \in Nat /\ r.n \in Nat /\ r.n > 0 /\ r # NoRequest
             /\ r.op = "write" => \A i \in 1 .. r.n : r.data[i] \in Value
  <2>1. d \in Seq(Value)
    <3>1. m \in Nat
      OBVIOUS
    <3> QED
      BY <3>1, SeqDef
  <2>2. Len(d) = m
    <3>1. Len(d) \in Nat /\ DOMAIN d = 1 .. Len(d) /\ DOMAIN d = 1 .. m
      BY <2>1, LenProperties
    <3> QED
      BY <3>1
  <2> QED
    BY <1>2, <2>2 DEF NoRequest
<1> QED
  BY <1>1, <1>2 DEF Requests

\* The fields of the device, and what changing some of them leaves.
LEMMA DevFields ==
  ASSUME DiskTypes
  PROVE  /\ dev.st \in {"ready", "busy", "drq", "err"} /\ dev.op \in {"none", "read", "write"}
         /\ dev.lba \in Nat /\ dev.n \in Nat /\ dev.k \in Nat /\ dev.latch \in Value \cup {Nothing}
  BY DEF DiskTypes, Device

\* A sector is done: the device moves on.
LEMMA DevMoves ==
  ASSUME NEW d \in Device, NEW st \in {"ready", "busy", "drq", "err"}
  PROVE  [d EXCEPT !.k = @ + 1, !.st = st] \in Device /\ [d EXCEPT !.latch = Nothing, !.k = @ + 1, !.st = st] \in Device
<1> DEFINE m == d.k + 1
<1>1. m \in Nat
  BY DEF Device
<1> HIDE DEF m
<1>2. [d EXCEPT !.k = m, !.st = st] \in Device
  BY <1>1 DEF Device
<1>3. [d EXCEPT !.latch = Nothing, !.k = m, !.st = st] \in Device
  BY <1>1 DEF Device
<1> QED
  BY <1>2, <1>3 DEF m

LEMMA CallFields ==
  ASSUME DiskTypes, apc # "idle"
  PROVE  /\ acall \in Requests /\ acall.op \in {"read", "write"} /\ acall.lba \in Nat /\ acall.n \in Nat /\ acall.n > 0
         /\ acall # NoRequest /\ (acall.op = "write" => \A i \in 1 .. acall.n : acall.data[i] \in Value)
  BY RequestFields DEF DiskTypes

LEMMA DiskStarts == DiskInit => DiskInv
<1> SUFFICES ASSUME DiskInit PROVE DiskInv
  OBVIOUS
<1> USE DiskAssumption
<1>1. (CHOOSE v \in Value : TRUE) \in Value
  OBVIOUS
<1>2. media \in [Lba -> Value]
  BY <1>1 DEF DiskInit
<1>3. DiskTypes
  BY <1>2, EmptySeq DEF DiskInit, DiskTypes, Device
<1>4. DeviceSane /\ InCall /\ Outside
  BY DEF DiskInit, DeviceSane, InCall, Active, Outside
<1> QED
  BY <1>3, <1>4 DEF DiskInv

\* The driver's steps that leave the device alone, up to the transfer.
LEMMA WaitStep ==
  ASSUME DiskInv, ata_rw28 \/ ata_wait_bsy \/ ata_wait_drq \/ GiveUp
  PROVE  DiskInv'
<1>1. UNCHANGED <<dev, media>>
  BY DEF ata_rw28, ata_wait_bsy, ata_wait_drq, GiveUp
<1>2. DiskTypes'
  <2>1. CASE ata_rw28
    BY <2>1, EmptySeq DEF ata_rw28, DiskInv, DiskTypes
  <2>2. CASE ata_wait_bsy
    BY <2>2 DEF ata_wait_bsy, DiskInv, DiskTypes
  <2>3. CASE ata_wait_drq
    BY <2>3 DEF ata_wait_drq, AtaReturn, DiskInv, DiskTypes
  <2>4. CASE GiveUp
    BY <2>4 DEF GiveUp, AtaReturn, DiskInv, DiskTypes
  <2> QED
    BY <2>1, <2>2, <2>3, <2>4
<1>3. DeviceSane'
  BY <1>1 DEF DiskInv, DeviceSane
<1>4. InCall' /\ Outside'
  <2>1. CASE ata_rw28
    BY <2>1 DEF ata_rw28, InCall, Active, Outside
  <2>2. CASE ata_wait_bsy
    BY <2>2 DEF ata_wait_bsy, DiskInv, InCall, Active, Outside
  <2>3. CASE ata_wait_drq
    BY <2>3 DEF ata_wait_drq, AtaReturn, DiskInv, InCall, Active, Outside
  <2>4. CASE GiveUp
    BY <2>4 DEF GiveUp, AtaReturn, InCall, Active, Outside
  <2> QED
    BY <2>1, <2>2, <2>3, <2>4
<1> QED
  BY <1>2, <1>3, <1>4 DEF DiskInv

LEMMA CommandStep == ASSUME DiskInv, AtaCommand PROVE DiskInv'
<1>0. DiskTypes /\ apc = "bsy0"
  BY DEF DiskInv, AtaCommand
<1>1. acall \in Requests /\ acall.op \in {"read", "write"} /\ acall.lba \in Nat /\ acall.n \in Nat /\ acall.n > 0
  BY <1>0, CallFields
<1>2. /\ dev' = [st |-> "busy", op |-> acall.op, lba |-> acall.lba, n |-> acall.n, k |-> 0, latch |-> Nothing]
      /\ apc' = "bsy" /\ UNCHANGED <<acall, sec, abuf, aret, media, acalls>>
  BY DEF AtaCommand
<1>3. /\ dev'.st = "busy" /\ dev'.op = acall.op /\ dev'.lba = acall.lba /\ dev'.n = acall.n /\ dev'.k = 0 /\ dev'.latch = Nothing
  BY <1>2
<1>4. DiskTypes'
  BY <1>0, <1>1, <1>2 DEF DiskTypes, Device
<1>5. sec = 0 /\ abuf = <<>>
  BY <1>0 DEF DiskInv, Outside
<1>6. DeviceSane' /\ InCall' /\ Outside'
  BY <1>1, <1>2, <1>3, <1>5, EmptySeq DEF DeviceSane, InCall, Active, Outside
<1> QED
  BY <1>4, <1>6 DEF DiskInv


\* What a transfer finds: the device waits for exactly this sector.
LEMMA TransferFinds ==
  ASSUME DiskInv, Transfer
  PROVE  /\ apc = "xfer" /\ Active /\ dev.st = "drq" /\ dev.latch = Nothing /\ dev.k = sec /\ dev.lba + dev.k \in Lba
         /\ dev.op = acall.op /\ dev.lba = acall.lba /\ dev.n = acall.n /\ sec < acall.n
         /\ sec \in Nat /\ acall.n \in Nat /\ acall.lba \in Nat /\ acall.op \in {"read", "write"} /\ acall # NoRequest
         /\ acall.op = "read" => Len(abuf) = sec
         /\ acall.op = "write" => acall.data[sec + 1] \in Value
<1>1. DiskTypes /\ apc = "xfer" /\ Active /\ sec \in Nat
  BY DEF DiskInv, DiskTypes, Transfer, Active
<1>2. /\ acall.op \in {"read", "write"} /\ acall.lba \in Nat /\ acall.n \in Nat /\ acall # NoRequest
      /\ (acall.op = "write" => \A i \in 1 .. acall.n : acall.data[i] \in Value)
  BY <1>1, CallFields
<1>3. dev.st = "drq" /\ dev.op = acall.op /\ dev.lba = acall.lba /\ dev.n = acall.n /\ sec < acall.n
  BY <1>1 DEF DiskInv, InCall
<1>4. dev.latch = Nothing /\ dev.lba + dev.k \in Lba
  BY <1>3 DEF DiskInv, DeviceSane
<1>5. dev.k = sec /\ (acall.op = "read" => Len(abuf) = sec)
  BY <1>1, <1>2, <1>3, <1>4 DEF DiskInv, InCall
<1> QED
  BY <1>1, <1>2, <1>3, <1>4, <1>5

LEMMA TransferStep == ASSUME DiskInv, Transfer PROVE DiskInv'
<1> USE DiskAssumption
<1>1. /\ apc = "xfer" /\ dev.st = "drq" /\ dev.latch = Nothing /\ dev.k = sec /\ dev.lba + dev.k \in Lba
      /\ dev.op = acall.op /\ dev.lba = acall.lba /\ dev.n = acall.n /\ sec < acall.n
      /\ sec \in Nat /\ acall.n \in Nat /\ acall.lba \in Nat /\ acall.op \in {"read", "write"}
      /\ acall.op = "read" => Len(abuf) = sec
      /\ acall.op = "write" => acall.data[sec + 1] \in Value
  BY TransferFinds
<1>2. DiskTypes /\ abuf \in Seq(Value) /\ media \in [Lba -> Value]
  BY DEF DiskInv, DiskTypes
<1>3. sec' = sec + 1 /\ UNCHANGED <<media, acalls>>
      /\ IF sec + 1 = acall.n THEN AtaReturn(0) ELSE apc' = "bsy" /\ UNCHANGED <<acall, aret>>
  BY DEF Transfer
<1>4. /\ apc' \in {"idle", "bsy"} /\ aret' \in Int /\ IF apc' = "idle" THEN acall' = NoRequest ELSE acall' \in Requests
      /\ (apc' = "bsy" => acall' = acall /\ sec + 1 < acall.n)
  <2>1. acall \in Requests /\ aret \in Int
    BY <1>1, <1>2, CallFields DEF DiskTypes
  <2> QED
    BY <1>1, <1>3, <2>1 DEF AtaReturn
<1>5. CASE acall.op = "read"
  <2>1. /\ abuf' = Append(abuf, media[dev.lba + dev.k])
        /\ dev' = [dev EXCEPT !.k = @ + 1, !.st = IF dev.k + 1 < dev.n THEN "busy" ELSE "ready"]
    BY <1>1, <1>5 DEF Transfer
  <2>2. abuf' \in Seq(Value) /\ Len(abuf') = sec + 1
    BY <1>1, <1>2, <1>5, <2>1, AppendProperties
  <2>3. /\ dev'.st \in {"busy", "ready"} /\ dev'.op = acall.op /\ dev'.lba = acall.lba /\ dev'.n = acall.n
        /\ dev'.k = sec + 1 /\ dev'.latch = Nothing
    BY <1>1, <1>2, <2>1 DEF DiskTypes, Device
  <2>4. DiskTypes'
    <3>1. dev' \in Device
      BY <1>1, <1>2, <2>1, DevMoves DEF DiskTypes
    <3> QED
      BY <1>1, <1>2, <1>3, <1>4, <2>2, <3>1 DEF DiskTypes
  <2>5. DeviceSane' /\ InCall' /\ Outside'
    BY <1>1, <1>3, <1>4, <1>5, <2>2, <2>3 DEF DeviceSane, InCall, Active, Outside
  <2> QED
    BY <2>4, <2>5 DEF DiskInv
<1>6. CASE acall.op = "write"
  <2>1. abuf' = abuf /\ dev' = [dev EXCEPT !.latch = acall.data[sec + 1], !.st = "busy"]
    BY <1>1, <1>6 DEF Transfer
  <2>3. /\ dev'.st = "busy" /\ dev'.op = acall.op /\ dev'.lba = acall.lba /\ dev'.n = acall.n
        /\ dev'.k = sec /\ dev'.latch = acall.data[sec + 1] /\ dev'.latch # Nothing
    BY <1>1, <1>2, <1>6, <2>1 DEF DiskTypes, Device
  <2>4. DiskTypes'
    <3>1. dev' \in Device
      BY <1>1, <1>2, <1>6, <2>1 DEF DiskTypes, Device
    <3> QED
      BY <1>1, <1>2, <1>3, <1>4, <2>1, <3>1 DEF DiskTypes
  <2>5. DeviceSane' /\ InCall' /\ Outside'
    BY <1>1, <1>3, <1>4, <1>6, <2>1, <2>3 DEF DeviceSane, InCall, Active, Outside
  <2> QED
    BY <2>4, <2>5 DEF DiskInv
<1> QED
  BY <1>1, <1>5, <1>6

\* The device's steps, on the call in progress or on one that was given up.
LEMMA DeviceStep == ASSUME DiskInv, DevReady \/ DevCommit \/ DevFail PROVE DiskInv'
<1> USE DiskAssumption
<1>1. DiskTypes /\ dev.st = "busy" /\ UNCHANGED <<apc, acall, sec, abuf, aret, acalls>>
  BY DEF DiskInv, DevReady, DevCommit, DevFail
<1>2. /\ dev.op \in {"none", "read", "write"} /\ dev.lba \in Nat /\ dev.n \in Nat /\ dev.k \in Nat
      /\ dev.latch \in Value \cup {Nothing} /\ media \in [Lba -> Value] /\ sec \in Nat
  BY <1>1, DevFields DEF DiskTypes, Device
<1>3. Active => acall.op \in {"read", "write"} /\ acall.n \in Nat /\ acall.lba \in Nat
  BY <1>1, CallFields DEF Active
<1>4. CASE DevReady
  <2>1. /\ dev'.st = "drq" /\ dev'.op = dev.op /\ dev'.lba = dev.lba /\ dev'.n = dev.n /\ dev'.k = dev.k /\ dev'.latch = Nothing
        /\ dev.latch = Nothing /\ dev.lba + dev.k \in Lba /\ media' = media
    BY <1>1, <1>4 DEF DevReady, DiskTypes, Device
  <2>2. DiskTypes'
    BY <1>1, <1>4 DEF DevReady, DiskTypes, Device
  <2>3. DeviceSane' /\ InCall' /\ Outside'
    BY <1>1, <1>3, <2>1 DEF DiskInv, DeviceSane, InCall, Active, Outside
  <2> QED
    BY <2>2, <2>3 DEF DiskInv
<1>5. CASE DevCommit
  <2>1. /\ dev'.op = dev.op /\ dev'.lba = dev.lba /\ dev'.n = dev.n /\ dev'.k = dev.k + 1 /\ dev'.latch = Nothing
        /\ dev'.st = IF dev.k + 1 = dev.n THEN "ready" ELSE IF dev.lba + dev.k + 1 \in Lba THEN "drq" ELSE "err"
        /\ dev.latch # Nothing /\ media' = [media EXCEPT ![dev.lba + dev.k] = dev.latch]
    BY <1>1, <1>5 DEF DevCommit, DiskTypes, Device
  <2>2. DiskTypes'
    <3>1. media' \in [Lba -> Value]
      BY <1>2, <2>1
    <3>2. dev' \in Device
      BY <1>1, <1>2, <1>5, DevMoves DEF DevCommit, DiskTypes
    <3> QED
      BY <1>1, <3>1, <3>2 DEF DiskTypes
  <2>3. DeviceSane' /\ InCall' /\ Outside'
    <3>1. DeviceSane'
      BY <1>2, <2>1 DEF DeviceSane
    <3>2. InCall'
      BY <1>1, <1>2, <1>3, <2>1 DEF DiskInv, InCall, Active
    <3> QED
      BY <1>1, <3>1, <3>2 DEF DiskInv, Outside
  <2> QED
    BY <2>2, <2>3 DEF DiskInv
<1>6. CASE DevFail
  <2>1. /\ dev'.st = "err" /\ dev'.op = dev.op /\ dev'.lba = dev.lba /\ dev'.n = dev.n /\ dev'.k = dev.k /\ dev'.latch = Nothing
        /\ media' = media
    BY <1>1, <1>6 DEF DevFail, DiskTypes, Device
  <2>2. DiskTypes'
    BY <1>1, <1>6 DEF DevFail, DiskTypes, Device
  <2>3. DeviceSane' /\ InCall' /\ Outside'
    BY <1>1, <1>3, <2>1 DEF DiskInv, DeviceSane, InCall, Active, Outside
  <2> QED
    BY <2>2, <2>3 DEF DiskInv
<1> QED
  BY <1>4, <1>5, <1>6

LEMMA DiskInvariant == DiskSpec => []DiskInv
<1>1. DiskInv /\ [DiskNext]_diskvars => DiskInv'
  <2> SUFFICES ASSUME DiskInv, [DiskNext]_diskvars PROVE DiskInv'
    OBVIOUS
  <2>1. CASE UNCHANGED diskvars
    BY <2>1 DEF diskvars, DiskInv, DiskTypes, DeviceSane, InCall, Active, Outside
  <2> QED
    BY <2>1, WaitStep, CommandStep, TransferStep, DeviceStep DEF DiskNext
<1> QED
  BY <1>1, DiskStarts, PTL DEF DiskSpec

----------------------------------------------------------------------------
(* The refinement, one step at a time.                                      *)

Landed == IF Active /\ acall.op = "write" THEN dev.k ELSE 0
Late   == IF ~Active /\ dev.latch # Nothing THEN {<<dev.lba + dev.k, dev.latch>>} ELSE {}
Res    == IF aret = 0 THEN "ok" ELSE "error"

LEMMA InitRefines == DiskInit => Store!StoreInit
<1> SUFFICES ASSUME DiskInit PROVE Store!StoreInit
  OBVIOUS
<1>1. DiskInv
  BY DiskStarts
<1>2. media \in [Lba -> Value] /\ acall = NoRequest /\ abuf = <<>> /\ Landed = 0 /\ Late = {} /\ Res = "ok"
  BY <1>1 DEF DiskInit, DiskInv, DiskTypes, Landed, Late, Res, Active
<1> QED
  BY <1>2 DEF Store!StoreInit, Landed, Late, Res
\* A call begins: Begin of the store.
LEMMA CallRefines == ASSUME DiskInv, ata_rw28 PROVE Store!Begin
<1>1. /\ apc = "idle" /\ apc' = "bsy0" /\ acall = NoRequest /\ acall' \in Requests /\ abuf' = <<>>
      /\ UNCHANGED <<aret, dev, media>>
  BY DEF ata_rw28, DiskInv, DiskTypes
<1>2. Landed' = 0 /\ Late' = Late /\ Res' = Res
  BY <1>1 DEF Landed, Late, Res, Active
<1> QED
  BY <1>1, <1>2 DEF Store!Begin, Landed, Late, Res

\* Commands, waits that end well, and a device that gets ready: no step.
LEMMA SilentSteps ==
  ASSUME DiskInv, AtaCommand \/ ata_wait_bsy \/ DevReady \/ (ata_wait_drq /\ dev.st = "drq")
  PROVE  UNCHANGED Store!storevars
<1>1. UNCHANGED <<media, acall, abuf, aret>> /\ Res' = Res
  BY DEF AtaCommand, ata_wait_bsy, ata_wait_drq, DevReady, Res
<1>2. Landed' = Landed /\ Late' = Late
  <2>1. CASE AtaCommand
    <3>1. dev.latch = Nothing /\ ~Active /\ dev'.k = 0 /\ Active'
      BY <2>1 DEF AtaCommand, DiskInv, DeviceSane, Active
    <3> QED
      BY <1>1, <3>1 DEF Landed, Late
  <2>2. CASE ata_wait_bsy
    BY <2>2 DEF ata_wait_bsy, Landed, Late, Active
  <2>3. CASE ata_wait_drq /\ dev.st = "drq"
    BY <2>3 DEF ata_wait_drq, Landed, Late, Active
  <2>4. CASE DevReady
    <3>1. dev'.k = dev.k /\ dev'.latch = dev.latch /\ dev'.lba = dev.lba /\ apc' = apc
      BY <2>4 DEF DevReady, DiskInv, DiskTypes, Device
    <3> QED
      BY <1>1, <3>1 DEF Landed, Late, Active
  <2> QED
    BY <2>1, <2>2, <2>3, <2>4
<1> QED
  BY <1>1, <1>2 DEF Store!storevars, Landed, Late, Res

\* An error or a wait without an answer: the call ends, and a sector that is
\* still in the device's buffer becomes a late one.
LEMMA FailureRefines ==
  ASSUME DiskInv, GiveUp \/ (ata_wait_drq /\ dev.st = "err")
  PROVE  Store!EndError
<1>1. apc \in {"bsy0", "bsy", "drq"} /\ acall' = NoRequest /\ apc' = "idle" /\ aret' # 0 /\ UNCHANGED <<abuf, dev, media>>
  BY DEF GiveUp, ata_wait_drq, AtaReturn
<1>2. /\ acall # NoRequest /\ acall.op \in {"read", "write"} /\ acall.n \in Nat /\ acall.lba \in Nat
      /\ dev.k \in Nat /\ dev.lba \in Nat /\ sec \in Nat
  BY <1>1, CallFields, DevFields DEF DiskInv, DiskTypes
<1>3. ~Active' /\ Landed' = 0 /\ Res' = "error"
  BY <1>1 DEF Active, Landed, Res
<1>4. \/ Late' = Late
      \/ /\ Late = {} /\ acall.op = "write" /\ Landed < acall.n
         /\ Late' = {<<acall.lba + (Landed + 1) - 1, acall.data[Landed + 1]>>}
  <2>1. CASE ~Active
    BY <1>1, <1>3, <2>1 DEF Late
  <2>2. CASE Active /\ dev.latch = Nothing
    BY <1>1, <1>3, <2>2 DEF Late
  <2>3. CASE Active /\ dev.latch # Nothing
    <3>1. /\ acall.op = "write" /\ dev.lba = acall.lba /\ sec < acall.n /\ sec = dev.k + 1 /\ dev.latch = acall.data[sec]
      BY <1>2, <2>3 DEF DiskInv, InCall
    <3>2. Landed = dev.k /\ Late = {} /\ Late' = {<<dev.lba + dev.k, dev.latch>>}
      BY <1>1, <1>3, <2>3, <3>1 DEF Landed, Late
    <3>3. acall.lba + (Landed + 1) - 1 = dev.lba + dev.k /\ acall.data[Landed + 1] = dev.latch /\ Landed < acall.n
      BY <1>2, <3>1, <3>2
    <3> QED
      BY <3>1, <3>2, <3>3
  <2> QED
    BY <2>1, <2>2, <2>3
<1> QED
  BY <1>1, <1>2, <1>3, <1>4 DEF Store!EndError, Store!Sector, Landed, Late, Res

\* A sector through the data port: the next one of a read has arrived, or
\* one of a write is in the device's buffer, which is the store's step only
\* when the call returns with it.
LEMMA TransferRefines ==
  ASSUME DiskInv, Transfer
  PROVE  Store!Fetch \/ Store!FetchLast \/ Store!EndOk \/ UNCHANGED Store!storevars
<1>1. /\ apc = "xfer" /\ Active /\ dev.st = "drq" /\ dev.latch = Nothing /\ dev.k = sec /\ dev.lba + dev.k \in Lba
      /\ dev.lba = acall.lba /\ dev.n = acall.n /\ sec < acall.n
      /\ sec \in Nat /\ acall.n \in Nat /\ acall.lba \in Nat /\ acall.op \in {"read", "write"} /\ acall # NoRequest
      /\ acall.op = "read" => Len(abuf) = sec
      /\ acall.op = "write" => acall.data[sec + 1] \in Value
  BY TransferFinds
<1>2. Late = {}
  BY <1>1 DEF Late
<1>3. media' = media /\ IF sec + 1 = acall.n THEN AtaReturn(0) ELSE apc' = "bsy" /\ UNCHANGED <<acall, aret>>
  BY DEF Transfer
<1>4. CASE acall.op = "read"
  <2>1. abuf' = Append(abuf, media[acall.lba + Len(abuf)]) /\ acall.lba + Len(abuf) \in Lba /\ dev'.latch = Nothing
    <3>1. abuf' = Append(abuf, media[dev.lba + dev.k])
      BY <1>1, <1>4 DEF Transfer
    <3>2. dev'.latch = Nothing
      BY <1>1, <1>4 DEF Transfer, DiskInv, DiskTypes, Device
    <3> QED
      BY <1>1, <1>4, <3>1, <3>2
  <2>2. Late' = {} /\ Landed = 0 /\ Landed' = 0
    BY <1>1, <1>3, <1>4, <2>1 DEF Late, Landed, AtaReturn, Active, NoRequest
  <2>3. CASE sec + 1 = acall.n
    <3>1. acall' = NoRequest /\ Res' = "ok" /\ Len(abuf) = acall.n - 1
      BY <1>1, <1>3, <1>4, <2>3 DEF AtaReturn, Res
    <3> QED
      BY <1>1, <1>2, <1>3, <1>4, <2>1, <2>2, <3>1 DEF Store!FetchLast, Late, Landed, Res
  <2>4. CASE sec + 1 # acall.n
    <3>1. acall' = acall /\ Res' = Res /\ Len(abuf) < acall.n
      BY <1>1, <1>3, <1>4, <2>4 DEF Res
    <3> QED
      BY <1>1, <1>2, <1>3, <1>4, <2>1, <2>2, <3>1 DEF Store!Fetch, Late, Landed, Res
  <2> QED
    BY <2>3, <2>4
<1>5. CASE acall.op = "write"
  <2>1. abuf' = abuf /\ dev'.k = dev.k /\ dev'.lba = dev.lba /\ dev'.latch = acall.data[sec + 1] /\ dev'.latch # Nothing
    BY <1>1, <1>5, DiskAssumption DEF Transfer, DiskInv, DiskTypes, Device
  <2>2. Landed = sec
    BY <1>1, <1>5 DEF Landed
  <2>3. CASE sec + 1 = acall.n
    <3>1. acall' = NoRequest /\ Res' = "ok" /\ apc' = "idle"
      BY <1>3, <2>3 DEF AtaReturn, Res
    <3>2. Landed' = 0 /\ Late' = {<<acall.lba + sec, acall.data[sec + 1]>>}
      BY <1>1, <2>1, <3>1 DEF Landed, Late, Active
    <3>3. Landed >= acall.n - 1 /\ Landed + 1 .. acall.n = {acall.n}
      BY <1>1, <2>2, <2>3
    <3>4. {<<acall.lba + i - 1, acall.data[i]>> : i \in Landed + 1 .. acall.n} = {<<acall.lba + acall.n - 1, acall.data[acall.n]>>}
      BY <3>3, Zenon
    <3>5. acall.lba + acall.n - 1 = acall.lba + sec /\ acall.data[acall.n] = acall.data[sec + 1]
      BY <1>1, <2>3
    <3>6. Late' = {<<acall.lba + i - 1, acall.data[i]>> : i \in Landed + 1 .. acall.n}
      BY <3>2, <3>4, <3>5, Zenon
    <3> QED
      BY <1>1, <1>2, <1>3, <1>5, <2>1, <3>1, <3>2, <3>3, <3>6 DEF Store!EndOk, Store!Sector, Landed, Late, Res
  <2>4. CASE sec + 1 # acall.n
    <3>1. acall' = acall /\ Res' = Res /\ apc' = "bsy"
      BY <1>3, <2>4 DEF Res
    <3>2. Landed' = Landed /\ Late' = {}
      BY <1>1, <2>1, <2>2, <3>1 DEF Landed, Late, Active
    <3> QED
      BY <1>2, <1>3, <2>1, <3>1, <3>2 DEF Store!storevars, Landed, Late, Res
  <2> QED
    BY <2>3, <2>4
<1> QED
  BY <1>1, <1>4, <1>5

\* A sector reaches the medium, in its call or late.
LEMMA CommitRefines == ASSUME DiskInv, DevCommit PROVE Store!Land \/ Store!Settle
<1>1. /\ dev.latch # Nothing /\ media' = [media EXCEPT ![dev.lba + dev.k] = dev.latch]
      /\ UNCHANGED <<apc, acall, sec, abuf, aret>>
  BY DEF DevCommit
<1>2. dev'.k = dev.k + 1 /\ dev'.latch = Nothing /\ dev.k \in Nat /\ dev.lba \in Nat /\ sec \in Nat /\ dev.lba + dev.k \in Lba
  BY <1>1, DevFields DEF DevCommit, DiskInv, DiskTypes, Device, DeviceSane
<1>3. CASE Active
  <2>1. acall # NoRequest /\ acall.op \in {"read", "write"} /\ acall.n \in Nat
    BY <1>3, CallFields DEF Active, DiskInv
  <2>2. acall.op = "write" /\ dev.lba = acall.lba /\ sec < acall.n /\ sec = dev.k + 1 /\ dev.latch = acall.data[sec]
    BY <1>1, <1>3, <2>1 DEF DiskInv, InCall
  <2>3. Landed = dev.k /\ Landed' = dev.k + 1 /\ Late = {} /\ Late' = {} /\ Res' = Res
    BY <1>1, <1>2, <1>3, <2>2 DEF Landed, Late, Active, Res
  <2>4. /\ acall.lba + (Landed + 1) - 1 = dev.lba + dev.k /\ acall.data[Landed + 1] = dev.latch
        /\ Landed < acall.n /\ acall.lba + Landed \in Lba /\ Landed' = Landed + 1
    BY <1>2, <2>1, <2>2, <2>3
  <2>5. media' = [media EXCEPT ![acall.lba + (Landed + 1) - 1] = acall.data[Landed + 1]]
    BY <1>1, <2>4
  <2> QED
    BY <1>1, <2>1, <2>2, <2>3, <2>4, <2>5 DEF Store!Land, Store!Write, Store!Sector, Landed, Late, Res
<1>4. CASE ~Active
  <2>1. Landed' = Landed /\ Late = {<<dev.lba + dev.k, dev.latch>>} /\ Late' = {} /\ Res' = Res
    BY <1>1, <1>2, <1>4 DEF Landed, Late, Active, Res
  <2>2. \E c \in Late : media' = [media EXCEPT ![c[1]] = c[2]]
    BY <1>1, <2>1
  <2> QED
    BY <1>1, <2>1, <2>2 DEF Store!Settle, Store!Write, Landed, Late, Res
<1> QED
  BY <1>3, <1>4

\* The device fails: what was in its buffer is gone.
LEMMA FailRefines == ASSUME DiskInv, DevFail PROVE Store!Settle \/ UNCHANGED Store!storevars
<1>1. dev'.k = dev.k /\ dev'.latch = Nothing /\ UNCHANGED <<apc, acall, abuf, aret, media>> /\ Res' = Res /\ Landed' = Landed
  BY DEF DevFail, DiskInv, DiskTypes, Device, Res, Landed, Active
<1>2. Late' = {}
  BY <1>1 DEF Late
<1>3. CASE Late = {}
  BY <1>1, <1>2, <1>3 DEF Store!storevars, Landed, Late, Res
<1>4. CASE Late # {}
  BY <1>1, <1>2, <1>4 DEF Store!Settle, Landed, Late, Res
<1> QED
  BY <1>3, <1>4

LEMMA StepRefines == DiskInv /\ [DiskNext]_diskvars => [Store!StoreNext]_Store!storevars
<1> SUFFICES ASSUME DiskInv, [DiskNext]_diskvars PROVE Store!StoreNext \/ UNCHANGED Store!storevars
  OBVIOUS
<1>1. CASE ata_rw28
  BY <1>1, CallRefines DEF Store!StoreNext
<1>2. CASE AtaCommand \/ ata_wait_bsy \/ DevReady
  BY <1>2, SilentSteps
<1>3. CASE ata_wait_drq
  <2>1. dev.st \in {"drq", "err"}
    BY <1>3 DEF ata_wait_drq
  <2> QED
    BY <1>3, <2>1, SilentSteps, FailureRefines DEF Store!StoreNext
<1>4. CASE GiveUp
  BY <1>4, FailureRefines DEF Store!StoreNext
<1>5. CASE Transfer
  BY <1>5, TransferRefines DEF Store!StoreNext
<1>6. CASE DevCommit
  BY <1>6, CommitRefines DEF Store!StoreNext
<1>7. CASE DevFail
  BY <1>7, FailRefines DEF Store!StoreNext
<1>8. CASE UNCHANGED diskvars
  BY <1>8 DEF diskvars, Active, Store!storevars
<1> QED
  BY <1>1, <1>2, <1>3, <1>4, <1>5, <1>6, <1>7, <1>8 DEF DiskNext

\* ata.c implements the sector store: sectors land one by one and in order,
\* a call that fails has landed a part of them, and only its last sector may
\* come later, before the next call's first.  For every medium and request.
THEOREM DiskRefinesStore == DiskSpec => StoreRefined
  BY InitRefines, DiskInvariant, StepRefines, PTL DEF DiskSpec, StoreRefined, Store!StoreSpec

-----------------------------------------------------------------------------
(* Sound.                                                                   *)

Fits(i) == bd[i].off + (bd[i].n % Field) + 1 <= pcm.pages * Page

\* Only the last of the descriptors of call c is marked.
OneMark(c) == \A i, j \in Bd : bd[i].id = c /\ bd[i].n >= Field /\ j > i => bd[j].id # c

SoundTypes ==
  /\ at \in {"idle", "rate", "copy", "list", "reset", "start"} /\ plays \in Nat /\ lastok \in Nat /\ lastok <= plays /\ pool \in Nat
  /\ pcm \in [base : Nat, pages : Nat, id : Nat] /\ pcm.base + pcm.pages <= PoolSize
  /\ bd \in [Bd -> [id : Nat, off : Nat, n : Nat]]
  /\ eng \in [run : BOOLEAN, civ : Bd, lvi : Bd]

\* The call in progress is the newest.
Playing ==
  at # "idle" => /\ cur.id = plays /\ cur.frames \in Nat \ {0} /\ cur.ch \in {1, 2} /\ lastok < plays

\* The rate is set, and is that of the sound once it is started.
Tuned ==
  /\ at \in {"copy", "list", "reset", "start"} => dac = Clamp(cur.rate)
  /\ OwnRate

\* Until the samples are overwritten all is as the last call left it.
Undisturbed ==
  at \in {"idle", "rate", "copy"} =>
    /\ \A i \in Bd : bd[i].id <= lastok
    /\ lastok > 0 => OneMark(lastok)
    /\ \A i \in Bd : bd[i].id = lastok /\ lastok > 0 => Fits(i)
    /\ eng.run => eng.civ <= eng.lvi /\ pcm.id = lastok /\ \A i \in eng.civ .. eng.lvi : bd[i].id = lastok

\* The new samples are there, then the new list, then the engine is at rest.
Prepared ==
  /\ at \in {"list", "reset", "start"} => pcm.id = plays /\ cur.frames * cur.ch <= pcm.pages * Page
  /\ at = "list" => \A i \in Bd : bd[i].id <= lastok
  /\ at \in {"reset", "start"} =>
       /\ \A i \in Used : bd[i].id = plays /\ Fits(i)
       /\ \A i \in Bd \ Used : bd[i].id <= lastok
       /\ OneMark(plays)
  /\ at = "start" => eng.run = FALSE /\ eng.civ = 0

SoundInv == SoundTypes /\ Playing /\ Tuned /\ Undisturbed /\ Prepared

-----------------------------------------------------------------------------
(* The arithmetic of buffers and descriptors.                               *)

\* The pages that are taken hold the samples.
LEMMA PagesHold ==
  ASSUME NEW n \in Nat
  PROVE  Pages(n) \in Nat /\ n <= Pages(n) * Page
<1>1. PICK g \in Nat \ {0} : g = Page
  BY SoundAssumption
<1>2. PICK a \in Nat : a = n + g - 1
  BY <1>1
<1>3. a \div g \in Nat /\ a = g * (a \div g) + (a % g) /\ a % g \in 0 .. g - 1
  BY <1>1, <1>2
<1>4. PICK q \in Nat : q = a \div g
  BY <1>3
<1>5. n <= g * q
  BY <1>2, <1>3, <1>4
<1>6. g * q = q * g
  BY <1>1, <1>4
<1> QED
  BY <1>1, <1>2, <1>4, <1>5, <1>6 DEF Pages

\* What a descriptor takes: more than nothing.
LEMMA MostTakes ==
  ASSUME cur.ch \in {1, 2}
  PROVE  Most \in Nat \ {0} /\ Most * cur.ch <= 2 * Field - 2
<1>1. CASE cur.ch = 1
  BY <1>1, SoundAssumption DEF Most
<1>2. CASE cur.ch = 2
  BY <1>2, SoundAssumption DEF Most
<1> QED
  BY <1>1, <1>2

\* The part of the sound before descriptor i, and with it, is in the sound.
LEMMA DescriptorFits ==
  ASSUME cur.ch \in {1, 2}, cur.frames \in Nat \ {0}, NEW i \in Used
  PROVE  /\ i * Most * cur.ch \in Nat /\ (FramesOf(i) * cur.ch - 1) % Field \in Nat
         /\ i * Most * cur.ch + ((FramesOf(i) * cur.ch - 1) % Field) + 1 <= cur.frames * cur.ch
<1>1. PICK m \in Nat \ {0} : m = Most
  BY MostTakes
<1>2. i \in Nat /\ FramesOf(i) > 0
  BY SoundAssumption DEF Used, Bd
<1>3. PICK k \in Nat : k = i * m
  BY <1>1, <1>2
<1>4. PICK r \in Nat \ {0} : r = FramesOf(i) /\ r + k <= cur.frames
  <2>1. i * Most = k
    BY <1>1, <1>3
  <2>2. FramesOf(i) = LET left == cur.frames - k IN IF left <= 0 THEN 0 ELSE IF left * cur.ch > 2 * Field - 2 THEN Most ELSE left
    BY <2>1 DEF FramesOf
  <2>3. cur.frames - k > 0
    BY <1>2, <2>2
  <2>4. CASE (cur.frames - k) * cur.ch > 2 * Field - 2
    <3>1. FramesOf(i) = m
      BY <1>1, <2>2, <2>3, <2>4
    <3>2. m <= cur.frames - k
      <4>1. m * cur.ch <= 2 * Field - 2
        BY <1>1, MostTakes
      <4> QED
        BY <1>3, <2>4, <4>1, SoundAssumption
    <3> QED
      BY <1>3, <3>1, <3>2
  <2>5. CASE ~((cur.frames - k) * cur.ch > 2 * Field - 2)
    BY <1>3, <2>2, <2>3, <2>5
  <2> QED
    BY <2>4, <2>5
<1>5. PICK x \in Nat : x = r * cur.ch - 1
  BY <1>4
<1>6. x % Field \in Nat /\ x % Field <= x
  BY <1>5, SoundAssumption
<1>7. i * Most * cur.ch = k * cur.ch
  BY <1>1, <1>3
<1> QED
  BY <1>3, <1>4, <1>5, <1>6, <1>7

LEMMA Multiples ==
  ASSUME NEW i \in Nat, NEW q \in Nat, NEW m \in Nat, i <= q
  PROVE  i * m <= q * m
<1>1. PICK d \in Nat : q = i + d
  <2>1. q - i \in Nat /\ q = i + (q - i)
    OBVIOUS
  <2> QED
    BY <2>1
<1>2. q * m = i * m + d * m /\ d * m \in Nat
  BY <1>1
<1> QED
  BY <1>2

\* The descriptors that are used are the first ones.
LEMMA UsedFromFirst ==
  ASSUME cur.ch \in {1, 2}, cur.frames \in Nat \ {0}
  PROVE  \E k \in Bd : Used = 0 .. k
<1>1. PICK m \in Nat \ {0} : m = Most
  BY MostTakes
<1>2. \A i \in Bd : i \in Nat /\ (i \in Used <=> i * m < cur.frames)
  <2> SUFFICES ASSUME NEW i \in Bd PROVE i \in Nat /\ (i \in Used <=> i * m < cur.frames)
    OBVIOUS
  <2>1. i \in Nat
    BY SoundAssumption DEF Bd
  <2>2. PICK k \in Nat : k = i * m
    BY <2>1
  <2>3. FramesOf(i) = LET left == cur.frames - k IN IF left <= 0 THEN 0 ELSE IF left * cur.ch > 2 * Field - 2 THEN m ELSE left
    BY <1>1, <2>2 DEF FramesOf
  <2>4. FramesOf(i) > 0 <=> k < cur.frames
    BY <2>2, <2>3
  <2> QED
    BY <2>1, <2>2, <2>4 DEF Used
<1>3. PICK a \in Nat : a = cur.frames - 1
  OBVIOUS
<1>4. a \div m \in Nat /\ a = m * (a \div m) + (a % m) /\ a % m \in 0 .. m - 1
  BY <1>1, <1>3
<1>5. PICK q \in Nat : q = a \div m
  BY <1>4
<1>6. q * m <= a /\ a < (q + 1) * m
  BY <1>4, <1>5
<1>7. \A i \in Nat : i * m < cur.frames <=> i <= q
  <2> SUFFICES ASSUME NEW i \in Nat PROVE i * m < cur.frames <=> i <= q
    OBVIOUS
  <2>1. PICK k \in Nat : k = i * m
    OBVIOUS
  <2>2. CASE i <= q
    <3>1. k <= q * m
      BY <2>1, <2>2, Multiples
    <3> QED
      BY <1>3, <1>6, <2>1, <2>2, <3>1
  <2>3. CASE ~(i <= q)
    <3>1. q + 1 <= i /\ q + 1 \in Nat
      BY <2>3
    <3>2. (q + 1) * m <= k
      BY <2>1, <3>1, Multiples
    <3> QED
      BY <1>3, <1>6, <2>1, <2>3, <3>2
  <2> QED
    BY <2>2, <2>3
<1>8. BdCount \in Nat \ {0}
  BY SoundAssumption
<1>9. CASE q <= BdCount - 1
  <2> DEFINE t == q
  <2>1. t \in Bd /\ t \in Nat /\ \A i \in Bd : i <= q <=> i <= t
    BY <1>8, <1>9 DEF Bd
  <2> HIDE DEF t
  <2>2. Used \subseteq 0 .. t
    <3> SUFFICES ASSUME NEW i \in Used PROVE i \in 0 .. t
      OBVIOUS
    <3>1. i \in Bd
      BY DEF Used
    <3>2. i \in Nat /\ i <= q
      BY <1>2, <1>7, <3>1
    <3> QED
      BY <2>1, <3>1, <3>2
  <2>3. 0 .. t \subseteq Used
    <3> SUFFICES ASSUME NEW i \in 0 .. t PROVE i \in Used
      OBVIOUS
    <3>1. i \in Bd /\ i \in Nat /\ i <= t
      BY <1>8, <2>1 DEF Bd
    <3>2. i <= q
      BY <2>1, <3>1
    <3> QED
      BY <1>2, <1>7, <3>1, <3>2
  <2> QED
    BY <2>1, <2>2, <2>3
<1>10. CASE ~(q <= BdCount - 1)
  <2> DEFINE t == BdCount - 1
  <2>1. t \in Bd /\ t \in Nat /\ \A i \in Bd : i <= q <=> i <= t
    BY <1>8, <1>10 DEF Bd
  <2> HIDE DEF t
  <2>2. Used \subseteq 0 .. t
    <3> SUFFICES ASSUME NEW i \in Used PROVE i \in 0 .. t
      OBVIOUS
    <3>1. i \in Bd
      BY DEF Used
    <3>2. i \in Nat /\ i <= q
      BY <1>2, <1>7, <3>1
    <3> QED
      BY <2>1, <3>1, <3>2
  <2>3. 0 .. t \subseteq Used
    <3> SUFFICES ASSUME NEW i \in 0 .. t PROVE i \in Used
      OBVIOUS
    <3>1. i \in Bd /\ i \in Nat /\ i <= t
      BY <1>8, <2>1 DEF Bd
    <3>2. i <= q
      BY <2>1, <3>1
    <3> QED
      BY <1>2, <1>7, <3>1, <3>2
  <2> QED
    BY <2>1, <2>2, <2>3
<1> QED
  BY <1>9, <1>10

-----------------------------------------------------------------------------
(* The steps.                                                               *)

LEMMA SoundStarts == SoundInit => SoundInv
<1> SUFFICES ASSUME SoundInit PROVE SoundInv
  OBVIOUS
<1>1. 0 \in Bd
  BY SoundAssumption DEF Bd
<1>2. SoundTypes
  BY <1>1, SoundAssumption DEF SoundInit, SoundTypes
<1>3. Playing /\ Tuned /\ Prepared
  BY DEF SoundInit, Playing, Tuned, OwnRate, Prepared
<1>4. Undisturbed
  BY <1>1 DEF SoundInit, Undisturbed
<1> QED
  BY <1>2, <1>3, <1>4 DEF SoundInv

\* A call begins; nothing of the card is touched.
LEMMA PlayStep == ASSUME SoundInv, sound_play_wav_path PROVE SoundInv'
<1>1. at = "idle" /\ plays' = plays + 1 /\ UNCHANGED <<pool, pcm, bd, eng, dac, lastok, okrate>>
  BY DEF sound_play_wav_path
<1>2. PICK f \in Sounds : LET b == kmalloc(brk, FileSize)
                              r == resample(b, f)
                          IN  IF b # -1 /\ f.ok /\ f.ch > 0 /\ r.frames > 0 /\ f.ch \in {1, 2}
                              THEN at' = "rate" /\ cur' = [id |-> plays + 1, frames |-> r.frames, ch |-> f.ch, rate |-> r.rate]
                              ELSE at' = "idle" /\ cur' = NoSound
  BY DEF sound_play_wav_path
<1>3. PICK b : b = kmalloc(brk, FileSize)
  OBVIOUS
<1>4. PICK n : n = resample(b, f).frames
  OBVIOUS
<1>5. n \in Int
  <2>1. f.frames \in Nat /\ f.rate \in Nat
    BY SoundAssumption
  <2>2. f.rate # 0 => Oframes(f) \in Int
    BY <2>1 DEF Oframes
  <2>3. n = f.frames \/ (f.rate # 0 /\ n = Oframes(f))
    BY <1>4 DEF resample
  <2> QED
    BY <2>1, <2>2, <2>3
<1>6. \/ at' = "rate" /\ cur'.id = plays + 1 /\ cur'.frames = n /\ cur'.ch = f.ch /\ n > 0 /\ f.ch \in {1, 2}
      \/ at' = "idle"
  BY <1>2, <1>3, <1>4
<1>7. SoundTypes'
  BY <1>1, <1>6 DEF SoundInv, SoundTypes
<1>8. Playing'
  BY <1>1, <1>5, <1>6 DEF SoundInv, SoundTypes, Playing
<1>9. Undisturbed' /\ Prepared'
  BY <1>1, <1>6 DEF SoundInv, Undisturbed, Prepared, Fits, OneMark
<1>10. Tuned'
  BY <1>1, <1>6 DEF SoundInv, SoundTypes, Tuned, OwnRate
<1> QED
  BY <1>7, <1>8, <1>9, <1>10 DEF SoundInv

\* The rate changes, and nothing else.
LEMMA RateStep == ASSUME SoundInv, SetRate PROVE SoundInv'
<1>1. /\ at = "rate" /\ at' = "copy" /\ dac' = Clamp(cur.rate) /\ Clamp(cur.rate)' = Clamp(cur.rate)
      /\ UNCHANGED <<cur, brk, pool, pcm, bd, eng, lastok, okrate, plays>>
  BY DEF SetRate, Clamp
<1>2. SoundTypes' /\ Playing' /\ Tuned'
  BY <1>1 DEF SoundInv, SoundTypes, Playing, Tuned, OwnRate
<1>3. Undisturbed' /\ Prepared'
  BY <1>1 DEF SoundInv, Undisturbed, Prepared, Fits, OneMark
<1> QED
  BY <1>2, <1>3 DEF SoundInv

LEMMA NoBufferStep == ASSUME SoundInv, NoBuffer PROVE SoundInv'
<1>1. at = "copy" /\ at' = "idle" /\ UNCHANGED <<brk, pool, pcm, bd, eng, dac, lastok, okrate, plays>>
  BY DEF NoBuffer
<1>2. SoundTypes' /\ Playing' /\ Tuned'
  BY <1>1 DEF SoundInv, SoundTypes, Playing, Tuned, OwnRate
<1>3. Undisturbed' /\ Prepared'
  BY <1>1 DEF SoundInv, Undisturbed, Prepared, Fits, OneMark
<1> QED
  BY <1>2, <1>3 DEF SoundInv

\* The buffer the samples go to is large enough for them.
LEMMA CopyStep == ASSUME SoundInv, CopySamples PROVE SoundInv'
<1>1. PICK s \in Nat : s = cur.frames * cur.ch
  BY DEF CopySamples, SoundInv, Playing
<1>2. PICK need \in Nat : need = Pages(s) /\ s <= need * Page
  BY PagesHold
<1>3. /\ at = "copy" /\ at' = "list" /\ (need > pcm.pages => pool + need <= PoolSize)
      /\ pcm' = (IF need > pcm.pages THEN [base |-> pool, pages |-> need, id |-> cur.id] ELSE [pcm EXCEPT !.id = cur.id])
      /\ pool' = (IF need > pcm.pages THEN pool + need ELSE pool)
      /\ UNCHANGED <<cur, bd, eng, dac, lastok, okrate, plays>>
  BY <1>1, <1>2 DEF CopySamples
<1>4. cur.id = plays /\ plays \in Nat /\ pool \in Nat /\ pcm \in [base : Nat, pages : Nat, id : Nat] /\ pcm.base + pcm.pages <= PoolSize
  BY <1>3 DEF SoundInv, SoundTypes, Playing
<1>5. /\ pcm' \in [base : Nat, pages : Nat, id : Nat] /\ pcm'.base + pcm'.pages <= PoolSize /\ pool' \in Nat
      /\ pcm'.id = plays /\ pcm'.pages >= need
  <2>1. CASE need > pcm.pages
    BY <1>3, <1>4, <2>1
  <2>2. CASE ~(need > pcm.pages)
    BY <1>3, <1>4, <2>2
  <2> QED
    BY <2>1, <2>2
<1>6. SoundTypes' /\ Playing' /\ Undisturbed' /\ Tuned'
  BY <1>3, <1>5 DEF SoundInv, SoundTypes, Playing, Undisturbed, Tuned, OwnRate, Clamp
<1>7. s <= pcm'.pages * Page
  <2>1. PICK k \in Nat : k = pcm'.pages
    BY <1>5
  <2>2. need * Page <= k * Page
    BY <1>5, <2>1, Multiples, SoundAssumption
  <2>3. need * Page \in Nat /\ k * Page \in Nat
    BY <2>1, SoundAssumption
  <2> QED
    BY <1>2, <2>1, <2>2, <2>3
<1>8. Prepared'
  BY <1>1, <1>3, <1>5, <1>7 DEF SoundInv, Undisturbed, Prepared
<1> QED
  BY <1>6, <1>8 DEF SoundInv

\* The list is written over samples that are there.
LEMMA WriteListStep == ASSUME SoundInv, WriteList PROVE SoundInv'
<1>1. at = "list" /\ at' = "reset" /\ UNCHANGED <<cur, brk, pool, pcm, eng, dac, lastok, okrate, plays>>
  BY DEF WriteList
<1>2. cur.id = plays /\ plays \in Nat /\ cur.frames \in Nat \ {0} /\ cur.ch \in {1, 2}
  BY <1>1 DEF SoundInv, SoundTypes, Playing
<1>3. Used' = Used
  BY <1>1 DEF Used, FramesOf, Most
<1>4. \A i \in Bd : bd[i] \in [id : Nat, off : Nat, n : Nat] /\ bd[i].id <= lastok
  BY <1>1 DEF SoundInv, SoundTypes, Prepared
<1>5. \A i \in Bd \ Used : bd'[i] = bd[i]
  BY DEF WriteList
<1>6. DOMAIN bd' = Bd /\ bd' = [i \in Bd |-> bd'[i]]
  BY DEF WriteList
<1>7. \A i \in Used : /\ bd'[i] \in [id : Nat, off : Nat, n : Nat] /\ bd'[i].id = plays
                      /\ bd'[i].off + (bd'[i].n % Field) + 1 <= cur.frames * cur.ch
                      /\ bd'[i].n >= Field => i + 1 \notin Used
  <2> SUFFICES ASSUME NEW i \in Used
               PROVE  /\ bd'[i] \in [id : Nat, off : Nat, n : Nat] /\ bd'[i].id = plays
                      /\ bd'[i].off + (bd'[i].n % Field) + 1 <= cur.frames * cur.ch
                      /\ bd'[i].n >= Field => i + 1 \notin Used
    OBVIOUS
  <2>1. PICK o \in Nat : o = i * Most * cur.ch
    BY <1>2, DescriptorFits
  <2>2. PICK m \in Nat : m = (FramesOf(i) * cur.ch - 1) % Field
    BY <1>2, DescriptorFits
  <2>3. PICK k \in Nat : k = m + (IF i + 1 \in Used THEN 0 ELSE Field)
    BY SoundAssumption
  <2>4. o + m + 1 <= cur.frames * cur.ch
    BY <1>2, <2>1, <2>2, DescriptorFits
  <2>5. i \in Bd
    BY DEF Used
  <2>6. bd'[i] = [id |-> plays, off |-> o, n |-> k]
    BY <1>2, <2>1, <2>2, <2>3, <2>5 DEF WriteList
  <2>7. m < Field /\ k % Field = m /\ (k >= Field => i + 1 \notin Used)
    <3>1. PICK g \in Nat \ {0} : g = Field
      BY SoundAssumption
    <3>2. PICK x \in Int : x = FramesOf(i) * cur.ch - 1 /\ m = x % g
      <4>1. FramesOf(i) \in Int
        BY <1>2, MostTakes, SoundAssumption DEF FramesOf, Used, Bd
      <4> QED
        BY <1>2, <2>2, <3>1, <4>1
    <3>3. m < g
      BY <3>1, <3>2
    <3>4. CASE i + 1 \in Used
      BY <2>3, <3>1, <3>3, <3>4
    <3>5. CASE i + 1 \notin Used
      <4>1. k = m + g
        BY <2>3, <3>1, <3>5
      <4>2. (m + g) % g = m
        BY <3>1, <3>3
      <4> QED
        BY <3>1, <3>3, <3>5, <4>1, <4>2
    <3> QED
      BY <3>4, <3>5
  <2> QED
    BY <1>2, <2>4, <2>6, <2>7
<1>8. bd' \in [Bd -> [id : Nat, off : Nat, n : Nat]]
  <2>1. \A i \in Bd : bd'[i] \in [id : Nat, off : Nat, n : Nat]
    BY <1>4, <1>5, <1>7, Zenon
  <2> QED
    BY <1>6, <2>1
<1>9. cur.frames * cur.ch <= pcm.pages * Page /\ pcm.id = plays /\ cur.frames * cur.ch \in Nat
  BY <1>1, <1>2 DEF SoundInv, Prepared
<1>10. pcm.pages * Page \in Nat
  BY SoundAssumption DEF SoundInv, SoundTypes
<1>11. \A i \in Used : bd'[i].off + (bd'[i].n % Field) + 1 <= pcm.pages * Page
  <2> SUFFICES ASSUME NEW i \in Used PROVE bd'[i].off + (bd'[i].n % Field) + 1 <= pcm.pages * Page
    OBVIOUS
  <2>1. PICK e \in Int : e = bd'[i].off + (bd'[i].n % Field) + 1
    BY <1>7, SoundAssumption
  <2> QED
    BY <1>7, <1>9, <1>10, <2>1
<1>12. SoundTypes' /\ Playing' /\ Undisturbed' /\ Tuned'
  BY <1>1, <1>8 DEF SoundInv, SoundTypes, Playing, Undisturbed, Tuned, OwnRate, Clamp
<1>13. Prepared'
  <2>1. pcm'.id = plays' /\ cur'.frames * cur'.ch <= pcm'.pages * Page
    BY <1>1, <1>9
  <2>2. \A i \in Used : bd'[i].id = plays' /\ Fits(i)'
    BY <1>1, <1>7, <1>11 DEF Fits
  <2>3. \A i \in Bd \ Used : bd'[i].id <= lastok'
    BY <1>1, <1>4, <1>5
  <2>4. OneMark(plays)'
    <3> SUFFICES ASSUME NEW i \in Bd, NEW j \in Bd, bd'[i].id = plays, bd'[i].n >= Field, j > i, bd'[j].id = plays PROVE FALSE
      BY <1>1 DEF OneMark
    <3>1. lastok < plays /\ lastok \in Nat
      BY <1>1 DEF SoundInv, SoundTypes, Playing
    <3>2. i \in Used /\ j \in Used
      BY <1>2, <1>4, <1>5, <3>1
    <3>3. i + 1 \notin Used
      BY <1>7, <3>2
    <3>4. PICK k \in Bd : Used = 0 .. k
      BY <1>2, UsedFromFirst
    <3>5. i \in Nat /\ j \in Nat /\ k \in Nat
      BY SoundAssumption DEF Bd
    <3> QED
      BY <3>2, <3>3, <3>4, <3>5
  <2> QED
    BY <1>1, <1>3, <2>1, <2>2, <2>3, <2>4 DEF Prepared
<1> QED
  BY <1>12, <1>13 DEF SoundInv

\* The engine comes to rest on the first descriptor.
LEMMA ResetStep == ASSUME SoundInv, Reset PROVE SoundInv'
<1>1. /\ at = "reset" /\ at' = "start" /\ eng' = [run |-> FALSE, civ |-> 0, lvi |-> 0]
      /\ UNCHANGED <<cur, brk, pool, pcm, bd, dac, lastok, okrate, plays>>
  BY DEF Reset
<1>2. 0 \in Bd
  BY SoundAssumption DEF Bd
<1>3. Used' = Used /\ \A i \in Bd : Fits(i)' = Fits(i)
  BY <1>1 DEF Used, FramesOf, Most, Fits
<1>4. SoundTypes' /\ Playing' /\ Undisturbed' /\ Tuned'
  BY <1>1, <1>2 DEF SoundInv, SoundTypes, Playing, Undisturbed, Tuned, OwnRate, Clamp
<1>5. \A i \in Used : i \in Bd
  BY DEF Used
<1>6. Prepared'
  BY <1>1, <1>3, <1>5 DEF SoundInv, Prepared, OneMark
<1> QED
  BY <1>4, <1>6 DEF SoundInv

\* The engine starts on the first descriptor, and stops at the last new one.
LEMMA StartStep == ASSUME SoundInv, Start PROVE SoundInv'
<1>1. /\ at = "start" /\ at' = "idle" /\ lastok' = cur.id /\ okrate' = Clamp(cur.rate)
      /\ eng' = [eng EXCEPT !.run = TRUE, !.lvi = Cardinality(Used) - 1] /\ UNCHANGED <<brk, pool, pcm, bd, dac, plays>>
  BY DEF Start
<1>2. cur.id = plays /\ plays \in Nat /\ cur.frames \in Nat \ {0} /\ cur.ch \in {1, 2} /\ lastok < plays /\ lastok \in Nat
  BY <1>1 DEF SoundInv, SoundTypes, Playing
<1>3. PICK k \in Bd : Used = 0 .. k
  BY <1>2, UsedFromFirst
<1>4. k \in Nat
  BY SoundAssumption DEF Bd
<1>5. Cardinality(Used) - 1 = k
  <2>1. Cardinality(0 .. k) = k - 0 + 1
    BY <1>4, FS_Interval
  <2> QED
    BY <1>3, <1>4, <2>1
<1>6. eng \in [run : BOOLEAN, civ : Bd, lvi : Bd] /\ eng.civ = 0
  BY <1>1 DEF SoundInv, SoundTypes, Prepared
<1>7. eng' \in [run : BOOLEAN, civ : Bd, lvi : Bd] /\ eng'.civ = 0 /\ eng'.lvi = k
  BY <1>1, <1>5, <1>6
<1>8. lastok' = plays /\ plays' = plays
  BY <1>1, <1>2
<1>9. SoundTypes'
  <2>1. lastok' \in Nat /\ lastok' <= plays'
    BY <1>2, <1>8
  <2> QED
    BY <1>1, <1>7, <2>1 DEF SoundInv, SoundTypes
<1>10. Playing' /\ Prepared' /\ Tuned'
  BY <1>1 DEF SoundInv, Playing, Prepared, Tuned, OwnRate
<1>11. /\ \A i \in Used : bd[i].id = plays /\ Fits(i)
       /\ \A i \in Bd \ Used : bd[i].id <= lastok
       /\ \A i \in Bd : bd[i].id \in Nat
       /\ pcm.id = plays /\ OneMark(plays)
  BY <1>1 DEF SoundInv, SoundTypes, Prepared
<1>12. \A i \in Bd : bd'[i].id = bd[i].id /\ Fits(i)' = Fits(i)
  BY <1>1 DEF Fits
<1>13. \A i \in Bd : bd'[i].id <= lastok'
  <2> SUFFICES ASSUME NEW i \in Bd PROVE bd[i].id <= plays
    BY <1>8, <1>12
  <2>1. CASE i \in Used
    BY <1>2, <1>11, <2>1
  <2>2. CASE i \notin Used
    BY <1>2, <1>11, <2>2
  <2> QED
    BY <2>1, <2>2
<1>14. \A i \in Bd : bd'[i].id = lastok' => Fits(i)'
  <2> SUFFICES ASSUME NEW i \in Bd, bd[i].id = plays PROVE Fits(i)
    BY <1>8, <1>12
  <2>1. i \in Used
    BY <1>2, <1>11
  <2> QED
    BY <1>11, <2>1
<1>15. eng'.civ <= eng'.lvi /\ pcm'.id = lastok'
  BY <1>1, <1>4, <1>7, <1>8, <1>11
<1>16. \A i \in eng'.civ .. eng'.lvi : bd'[i].id = lastok'
  BY <1>1, <1>3, <1>7, <1>8, <1>11
<1>17. Undisturbed'
  <2>1. OneMark(lastok)'
    BY <1>1, <1>8, <1>11 DEF OneMark
  <2> QED
    BY <1>13, <1>14, <1>15, <1>16, <2>1 DEF Undisturbed
<1> QED
  BY <1>9, <1>10, <1>17 DEF SoundInv

\* The engine goes from descriptor to descriptor and never past the last.
LEMMA FetchStep == ASSUME SoundInv, DmaFetch PROVE SoundInv'
<1>1. /\ eng.run /\ UNCHANGED <<at, cur, brk, pool, pcm, bd, dac, lastok, okrate, plays>>
      /\ eng' = IF eng.civ = eng.lvi THEN [eng EXCEPT !.run = FALSE] ELSE [eng EXCEPT !.civ = (@ + 1) % BdCount]
  BY DEF DmaFetch
<1>2. PICK c \in Bd : c = eng.civ
  BY DEF SoundInv, SoundTypes
<1>3. PICK l \in Bd : l = eng.lvi
  BY DEF SoundInv, SoundTypes
<1>4. BdCount \in Nat \ {0} /\ c \in Nat /\ l \in Nat /\ c <= BdCount - 1 /\ l <= BdCount - 1
  BY SoundAssumption DEF Bd
<1>5. eng \in [run : BOOLEAN, civ : Bd, lvi : Bd]
  BY DEF SoundInv, SoundTypes
<1>6. (c + 1) % BdCount \in Bd /\ (c < l => (c + 1) % BdCount = c + 1)
  BY <1>4 DEF Bd
<1>7. \/ eng' = [eng EXCEPT !.run = FALSE]
      \/ eng' = [eng EXCEPT !.civ = (c + 1) % BdCount] /\ c # l
  BY <1>1, <1>2, <1>3
<1>8. eng' \in [run : BOOLEAN, civ : Bd, lvi : Bd]
  BY <1>5, <1>6, <1>7
<1>9. SoundTypes' /\ Playing' /\ Tuned'
  BY <1>1, <1>8 DEF SoundInv, SoundTypes, Playing, Tuned, OwnRate, Clamp
<1>10. Used' = Used /\ (\A i : Fits(i)' = Fits(i)) /\ OneMark(plays)' = OneMark(plays) /\ OneMark(lastok)' = OneMark(lastok)
  BY <1>1 DEF Used, FramesOf, Most, Fits, OneMark
<1>11. Prepared'
  <2>1. at # "start"
    BY <1>1 DEF SoundInv, Prepared
  <2> QED
    BY <1>1, <1>10, <2>1 DEF SoundInv, Prepared
<1>12. Undisturbed'
  <2> SUFFICES ASSUME at \in {"idle", "rate", "copy"} PROVE Undisturbed'
    BY <1>1 DEF Undisturbed
  <2>1. c <= l /\ pcm.id = lastok /\ \A i \in c .. l : bd[i].id = lastok
    BY <1>1, <1>2, <1>3 DEF SoundInv, Undisturbed
  <2>2. eng'.run => eng'.civ = c + 1 /\ eng'.lvi = l /\ c < l
    BY <1>3, <1>4, <1>5, <1>6, <1>7, <2>1
  <2>3. eng'.run => eng'.civ <= eng'.lvi /\ pcm'.id = lastok' /\ \A i \in eng'.civ .. eng'.lvi : bd'[i].id = lastok'
    BY <1>1, <1>4, <2>1, <2>2
  <2> QED
    BY <1>1, <1>10, <2>3 DEF SoundInv, Undisturbed
<1> QED
  BY <1>9, <1>11, <1>12 DEF SoundInv

LEMMA SoundStep == SoundInv /\ [SoundNext]_soundvars => SoundInv'
<1> SUFFICES ASSUME SoundInv, [SoundNext]_soundvars PROVE SoundInv'
  OBVIOUS
<1>1. CASE UNCHANGED soundvars
  <2>1. UNCHANGED <<at, cur, brk, pool, pcm, bd, eng, dac, lastok, okrate, plays>>
    BY <1>1 DEF soundvars
  <2>2. Used' = Used /\ (\A i : Fits(i)' = Fits(i)) /\ OneMark(plays)' = OneMark(plays) /\ OneMark(lastok)' = OneMark(lastok)
    BY <2>1 DEF Used, FramesOf, Most, Fits, OneMark
  <2>3. SoundTypes' /\ Playing' /\ Tuned'
    BY <2>1 DEF SoundInv, SoundTypes, Playing, Tuned, OwnRate, Clamp
  <2>4. Undisturbed' /\ Prepared'
    BY <2>1, <2>2 DEF SoundInv, Undisturbed, Prepared
  <2> QED
    BY <2>3, <2>4 DEF SoundInv
<1> QED
  BY <1>1, PlayStep, RateStep, CopyStep, NoBufferStep, WriteListStep, ResetStep, StartStep, FetchStep DEF SoundNext

LEMMA SoundInvariant == SoundSpec => []SoundInv
  BY SoundStarts, SoundStep, PTL DEF SoundSpec

\* What is heard is the last sound that was started, its descriptors name
\* samples inside the buffer but for the mark of the last one, its rate is
\* its own until a later call, and a call that fails (ac97_play_pcm without
\* memory) leaves list, engine and samples as they were and changes no more
\* than the rate: for any files, sizes and any interleaving of the calls
\* with the engine.
THEOREM SoundLastPlays == SoundSpec => LastSoundPlays
<1>1. SoundInv => EnginePlaysLast /\ SamplesInBuffer /\ OwnRate
  BY DEF SoundInv, SoundTypes, Undisturbed, Tuned, EnginePlaysLast, SamplesInBuffer, Fits, OneMark
<1>2. ASSUME SoundInv, SoundNext PROVE FailedPlayIsSilent
  <2>1. SUFFICES ASSUME at # "idle", at' = "idle", lastok' = lastok PROVE pcm' = pcm /\ bd' = bd /\ eng' = eng
    BY DEF FailedPlayIsSilent
  <2>2. ~sound_play_wav_path /\ ~SetRate /\ ~CopySamples /\ ~WriteList /\ ~Reset
    BY <2>1 DEF sound_play_wav_path, SetRate, CopySamples, WriteList, Reset
  <2>3. ~DmaFetch
    BY <2>1 DEF DmaFetch
  <2>4. ~Start
    <3>1. cur.id = plays /\ lastok < plays /\ lastok \in Nat
      BY <1>2, <2>1 DEF SoundInv, SoundTypes, Playing
    <3> QED
      BY <2>1, <3>1 DEF Start
  <2>5. NoBuffer
    BY <1>2, <2>2, <2>3, <2>4 DEF SoundNext
  <2> QED
    BY <2>5 DEF NoBuffer
<1>3. SoundInv /\ SoundInv' /\ [SoundNext]_soundvars => [EnginePlaysLast' /\ SamplesInBuffer' /\ OwnRate' /\ FailedPlayIsSilent]_soundvars
  <2>1. SoundInv' => EnginePlaysLast' /\ SamplesInBuffer' /\ OwnRate'
    BY <1>1, PTL
  <2> QED
    BY <1>2, <2>1
<1> QED
  BY <1>3, SoundInvariant, PTL DEF SoundSpec, LastSoundPlays

-----------------------------------------------------------------------------
(* The processors.                                                           *)

States  == {"off", "reset", "go", "loaded", "lost", "parked", "kernel"}
Working == {"init", "sipi", "start", "poll"}      \* an entry is being tried
Begun   == Working \cup {"entry", "done"}
Ended   == {"done", "none", "panic"}
Up(c)   == ap[c] \in {"parked", "kernel"}

SmpTypes ==
  /\ mach \in Machines /\ bp \in Begun \cup {"begin", "count", "none", "panic"}
  /\ Roster(harts) /\ row \in Nat \ {0} /\ cpu_count \in Nat /\ info \in Seq(Ids \cup {Nowhere})
  /\ tpl \in [flag : BOOLEAN, slot : Nat, whole : BOOLEAN, adds : Nat]
  /\ ap \in [Ids -> States] /\ place \in [Ids -> Int] /\ synced \in [Ids -> BOOLEAN]
  /\ late \in BOOLEAN /\ mtrrs \in BOOLEAN

\* Entries that can be started, before entry r.
Before(r) == {n \in 1 .. Len(harts) : n < r /\ Startable(harts[n], x2apic)}

\* There is a place for every entry that is still to come.
Counted ==
  /\ cpu_count <= Len(info)
  /\ bp \in {"begin", "count"} => cpu_count = 0 /\ row = 1
  /\ bp \in Begun => Len(info) = MaxCpus(x2apic) /\ cpu_count <= Cardinality(Before(row)) /\ (X86 => mtrrs = TRUE)

\* The entry that is being tried has the next place.
Trying ==
  bp \in Working =>
    /\ row <= Len(harts) /\ Startable(Cur, x2apic) /\ tpl.slot = cpu_count + 1
    /\ cpu_count + 1 <= Len(info) /\ info[cpu_count + 1] = Cur.id

\* A processor whose turn has not come does not run.
Unstarted ==
  /\ bp \in {"begin", "count"} => \A c \in Ids : ap[c] = "off" /\ place[c] = Nowhere
  /\ bp \notin Ended => \A n \in 1 .. Len(harts) :
       n > row \/ (n = row /\ bp # "poll") => ap[harts[n].id] \in {"off", "reset"} /\ place[harts[n].id] = Nowhere

\* How far the processor that is waited for has come.
Waiting ==
  /\ bp \in Working \ {"poll"} => ~tpl.flag /\ tpl.whole /\ tpl.adds = 0
  /\ bp = "poll" =>
       \/ ap[Cur.id] = "go" /\ place[Cur.id] = Nowhere /\ ~tpl.flag /\ tpl.whole /\ tpl.adds = 0
       \/ ap[Cur.id] = "loaded" /\ ~tpl.flag /\ X86 /\ place[Cur.id] = Nowhere /\ tpl.adds = 0
       \/ ap[Cur.id] = "loaded" /\ ~tpl.flag /\ place[Cur.id] = tpl.slot /\ (X86 => synced[Cur.id])
       \/ ap[Cur.id] = "parked" /\ tpl.flag /\ place[Cur.id] = tpl.slot /\ (X86 => synced[Cur.id])

\* A processor that is up stands where its id does, and every place that is
\* counted is the boot processor's or has its processor.
Standing ==
  \A c \in Ids : Up(c) =>
    /\ X86 => synced[c]
    /\ place[c] \in 1 .. Len(info) /\ info[place[c]] = c
    /\ place[c] <= cpu_count \/ (bp = "poll" /\ tpl.flag /\ place[c] = cpu_count + 1)
Owned ==
  \A k \in 1 .. cpu_count :
    info[k] = mach.bsp \/ Alias(k) \/ (info[k] \in Ids /\ Up(info[k]) /\ place[info[k]] = k)

Orderly == Unstarted /\ Waiting /\ Standing /\ Owned
SmpInv  == SmpTypes /\ Counted /\ Trying /\ (~late => Orderly)

-----------------------------------------------------------------------------
(* The tables.                                                              *)

LEMMA EntryId == ASSUME NEW e \in Entry PROVE e.id \in Ids
  BY DEF Entry

LEMMA Listed ==
  ASSUME SmpTypes, NEW n \in 1 .. Len(harts)
  PROVE  harts[n] \in Entry /\ harts[n].id \in Ids /\ Len(harts) \in Nat
<1>1. harts \in Seq(Entry)
  BY DEF SmpTypes, Roster
<1> QED
  BY <1>1, ElementOfSeq, LenProperties, EntryId

LEMMA ListLength == ASSUME SmpTypes PROVE Len(harts) \in Nat /\ DOMAIN harts = 1 .. Len(harts) /\ Len(info) \in Nat
  BY LenProperties DEF SmpTypes, Roster

\* The entries that can be started are counted from the table alone.
LEMMA StartableKept ==
  ASSUME UNCHANGED <<mach, harts>>, NEW e, NEW x
  PROVE  Startable(e, x)' = Startable(e, x)
  BY DEF Startable, HartUsable, Coproc, LapicUsable, GiccUsable, NodeUsable

LEMMA BeforeKept ==
  ASSUME UNCHANGED <<mach, harts, x2apic>>, NEW r
  PROVE  Before(r)' = Before(r) /\ MaxCpus(x2apic)' = MaxCpus(x2apic)
<1>1. PICK x : x = x2apic
  OBVIOUS
<1>2. PICK h : h = harts
  OBVIOUS
<1>3. \A n : Startable(h[n], x)' = Startable(h[n], x)
  BY StartableKept
<1>4. {n \in 1 .. Len(h) : n < r /\ Startable(h[n], x)}' = {n \in 1 .. Len(h) : n < r /\ Startable(h[n], x)}
  BY <1>3
<1>5. {n \in DOMAIN h : Startable(h[n], x)}' = {n \in DOMAIN h : Startable(h[n], x)}
  BY <1>3
<1> QED
  BY <1>1, <1>2, <1>4, <1>5, Zenon DEF Before, MaxCpus

LEMMA BeforeFinite ==
  ASSUME SmpTypes, NEW r
  PROVE  IsFiniteSet(Before(r)) /\ Cardinality(Before(r)) \in Nat
<1>1. IsFiniteSet(1 .. Len(harts))
  BY ListLength, FS_Interval
<1>2. Before(r) \subseteq 1 .. Len(harts)
  BY DEF Before
<1> QED
  BY <1>1, <1>2, FS_Subset, FS_CardinalityType

LEMMA AllFinite ==
  ASSUME SmpTypes
  PROVE  /\ MaxCpus(x2apic) \in Nat
         /\ \A S : S \subseteq {n \in DOMAIN harts : Startable(harts[n], x2apic)} => Cardinality(S) <= MaxCpus(x2apic)
<1> DEFINE all == {n \in DOMAIN harts : Startable(harts[n], x2apic)}
<1>1. IsFiniteSet(1 .. Len(harts)) /\ all \subseteq 1 .. Len(harts)
  BY ListLength, FS_Interval
<1>2. IsFiniteSet(all)
  BY <1>1, FS_Subset
<1>3. MaxCpus(x2apic) = Cardinality(all)
  BY DEF MaxCpus
<1> HIDE DEF all
<1>4. MaxCpus(x2apic) \in Nat /\ \A S : S \subseteq all => Cardinality(S) <= MaxCpus(x2apic)
  BY <1>2, <1>3, FS_Subset, FS_CardinalityType
<1> QED
  BY <1>4 DEF all

\* An entry that can be started has a place, for it was counted.
LEMMA RoomLeft ==
  ASSUME SmpTypes, Counted, bp \in Begun, row <= Len(harts), Startable(Cur, x2apic)
  PROVE  cpu_count + 1 <= Len(info) /\ cpu_count + 1 <= Cardinality(Before(row + 1))
<1>1. row \in 1 .. Len(harts) /\ DOMAIN harts = 1 .. Len(harts) /\ Len(harts) \in Nat
  BY ListLength DEF SmpTypes
<1>2. Before(row + 1) = Before(row) \cup {row} /\ row \notin Before(row)
  BY <1>1 DEF Before, Cur
<1>3. Cardinality(Before(row + 1)) = Cardinality(Before(row)) + 1
  BY <1>2, BeforeFinite, FS_AddElement
<1>4. Before(row + 1) \subseteq {n \in DOMAIN harts : Startable(harts[n], x2apic)}
  BY <1>1 DEF Before
<1>5. Cardinality(Before(row + 1)) <= MaxCpus(x2apic)
  BY <1>4, AllFinite
<1>6. cpu_count <= Cardinality(Before(row)) /\ Len(info) = MaxCpus(x2apic) /\ cpu_count \in Nat
  BY DEF Counted, SmpTypes
<1> QED
  BY <1>3, <1>5, <1>6, BeforeFinite, AllFinite

LEMMA BeforeGrows ==
  ASSUME SmpTypes
  PROVE  Cardinality(Before(row)) <= Cardinality(Before(row + 1))
<1>1. Before(row) \subseteq Before(row + 1)
  BY ListLength DEF Before, SmpTypes
<1> QED
  BY <1>1, BeforeFinite, FS_Subset

LEMMA BeforeNow ==
  ASSUME UNCHANGED <<mach, harts, x2apic>>
  PROVE  Before(row)' = Before(row') /\ MaxCpus(x2apic)' = MaxCpus(x2apic)
<1>1. PICK r : r = row'
  OBVIOUS
<1>2. Before(r)' = Before(r) /\ MaxCpus(x2apic)' = MaxCpus(x2apic)
  BY BeforeKept
<1>3. Before(row)' = Before(r)'
  BY <1>1 DEF Before
<1> QED
  BY <1>1, <1>2, <1>3

\* The entry that is tried, after a step that leaves the table alone.
LEMMA CurKept ==
  ASSUME UNCHANGED <<mach, harts, x2apic, row>>
  PROVE  Cur' = Cur /\ Startable(Cur, x2apic)' = Startable(Cur, x2apic)
<1>1. PICK e : e = Cur
  OBVIOUS
<1>2. PICK x : x = x2apic
  OBVIOUS
<1>3. Cur' = Cur
  BY DEF Cur
<1>4. Startable(e, x)' = Startable(e, x)
  BY StartableKept
<1>5. Startable(Cur, x2apic)' = Startable(e, x)'
  BY <1>1, <1>2, <1>3
<1> QED
  BY <1>1, <1>2, <1>3, <1>4, <1>5

-----------------------------------------------------------------------------
(* The boot processor: the tables.                                          *)

LEMMA SmpStarts == SmpInit => SmpInv
<1> SUFFICES ASSUME SmpInit PROVE SmpInv
  OBVIOUS
<1>1. /\ mach \in Machines /\ bp = "begin" /\ harts = <<>> /\ row = 1 /\ info = <<>> /\ cpu_count = 0
      /\ late = FALSE /\ mtrrs = FALSE
      /\ tpl = [flag |-> FALSE, slot |-> 0, whole |-> TRUE, adds |-> 0]
      /\ ap = [c \in Ids |-> "off"] /\ place = [c \in Ids |-> Nowhere] /\ synced = [c \in Ids |-> FALSE]
  BY Zenon DEF SmpInit, SmpFrom
<1>2. Len(harts) = 0 /\ harts \in Seq(Entry) /\ info \in Seq(Ids \cup {Nowhere}) /\ Len(info) = 0
  BY <1>1, EmptySeq
<1>3. SmpTypes
  <2>1. Roster(harts)
    BY <1>2 DEF Roster
  <2>2. tpl \in [flag : BOOLEAN, slot : Nat, whole : BOOLEAN, adds : Nat]
    BY <1>1
  <2>3. ap \in [Ids -> States] /\ place \in [Ids -> Int] /\ synced \in [Ids -> BOOLEAN]
    BY <1>1 DEF States, Nowhere
  <2>4. row \in Nat \ {0} /\ cpu_count \in Nat
    BY <1>1
  <2>5. late \in BOOLEAN /\ mtrrs \in BOOLEAN /\ bp \in Begun \cup {"begin", "count", "none", "panic"}
    BY <1>1, Zenon
  <2> QED
    BY <1>1, <1>2, <2>1, <2>2, <2>3, <2>4, <2>5, Zenon DEF SmpTypes
<1>4. Counted /\ Trying
  BY <1>1, <1>2 DEF Counted, Trying, Begun, Working
<1>5. Orderly
  <2>1. \A c \in Ids : ap[c] = "off" /\ place[c] = Nowhere
    BY <1>1
  <2>2. Unstarted /\ Waiting /\ Owned
    BY <1>1, <1>2, <2>1 DEF Unstarted, Waiting, Owned, Working
  <2>3. Standing
    BY <2>1 DEF Standing, Up
  <2> QED
    BY <2>2, <2>3 DEF Orderly
<1> QED
  BY <1>3, <1>4, <1>5 DEF SmpInv

LEMMA ReadStep == ASSUME SmpInv, ReadMadt \/ ReadArm \/ init_riscv PROVE SmpInv'
<1>1. /\ bp = "begin" /\ bp' \in {"count", "panic"} /\ (harts' = mach.table \/ harts' = HartList(mach.table))
      /\ UNCHANGED <<mach, row, info, cpu_count, tpl, mtrrs, apvars>>
  BY Zenon DEF ReadMadt, ReadArm, init_riscv
<1>2. UNCHANGED <<mach, row, info, cpu_count, tpl, mtrrs, ap, place, synced, late>>
  BY <1>1 DEF apvars
<1>3. Roster(harts)' /\ Roster(harts')
  <2>1. Roster(mach.table) /\ Roster(HartList(mach.table))
    BY SmpAssumption DEF SmpInv, SmpTypes
  <2>2. Roster(harts')
    BY <1>1, <2>1
  <2> QED
    BY <2>2 DEF Roster
<1>4. SmpTypes'
  BY <1>1, <1>2, <1>3 DEF SmpInv, SmpTypes
<1>5. Counted' /\ Trying'
  BY <1>1, <1>2 DEF SmpInv, Counted, Trying, Begun, Working
<1>6. ASSUME ~late PROVE Orderly'
  <2>1. \A c \in Ids : ap[c] = "off" /\ place[c] = Nowhere
    BY <1>1, <1>6 DEF SmpInv, Orderly, Unstarted
  <2>2. \A n \in 1 .. Len(harts') : harts'[n].id \in Ids
    BY <1>3, ElementOfSeq, EntryId DEF Roster
  <2>3. Unstarted'
    BY <1>1, <1>2, <2>1, <2>2 DEF Unstarted
  <2>4. Waiting' /\ Owned'
    BY <1>1, <1>2 DEF SmpInv, Counted, Waiting, Owned, Working
  <2>5. Standing'
    BY <1>2, <2>1 DEF Standing, Up
  <2> QED
    BY <2>3, <2>4, <2>5 DEF Orderly
<1> QED
  BY <1>2, <1>4, <1>5, <1>6 DEF SmpInv

LEMMA CountStep == ASSUME SmpInv, CountCpus PROVE SmpInv'
<1>1. PICK n : n = MaxCpus(x2apic)
  OBVIOUS
<1>2. /\ bp = "count" /\ info' = [i \in 1 .. n |-> Nowhere] /\ bp' = (IF X86 /\ n = 0 THEN "none" ELSE "entry")
      /\ mtrrs' = (X86 /\ n # 0) /\ UNCHANGED <<mach, x2apic, harts, row, cpu_count, tpl, ap, place, synced, late>>
  BY <1>1 DEF CountCpus, apvars
<1>3. n \in Nat
  BY <1>1, AllFinite DEF SmpInv
<1>4. info' \in Seq(Ids \cup {Nowhere}) /\ Len(info') = n
  BY <1>2, <1>3
<1>5. SmpTypes'
  <2>1. mtrrs' \in BOOLEAN
    BY <1>2, Zenon
  <2> QED
    BY <1>2, <1>4, <2>1 DEF SmpInv, SmpTypes, Begun, Working
<1>6. Counted'
  <2>1. cpu_count' = 0 /\ row' = 1
    BY <1>2 DEF SmpInv, Counted
  <2>2. MaxCpus(x2apic)' = n /\ Before(row)' = Before(row')
    BY <1>1, <1>2, BeforeNow
  <2>3. Cardinality(Before(row')) \in Nat
    BY BeforeFinite DEF SmpInv
  <2>4. bp' = "entry" /\ X86' => mtrrs' = TRUE
    BY <1>2 DEF X86
  <2>5. bp' \in {"none", "entry"}
    BY <1>2
  <2>6. bp' \in Begun => bp' = "entry"
    BY <2>5 DEF Begun, Working
  <2> QED
    BY <1>3, <1>4, <2>1, <2>2, <2>3, <2>4, <2>5, <2>6 DEF Counted
<1>7. Trying'
  BY <1>2 DEF Trying, Working
<1>8. ASSUME ~late PROVE Orderly'
  <2>1. \A c \in Ids : ap[c] = "off" /\ place[c] = Nowhere
    BY <1>2, <1>8 DEF SmpInv, Orderly, Unstarted
  <2>2. \A i \in 1 .. Len(harts') : harts'[i].id \in Ids
    BY <1>2, Listed DEF SmpInv
  <2>3. Unstarted'
    BY <1>2, <2>1, <2>2 DEF Unstarted
  <2>4. Waiting' /\ Owned'
    BY <1>2 DEF SmpInv, Counted, Waiting, Owned, Working
  <2>5. Standing'
    BY <1>2, <2>1 DEF Standing, Up
  <2> QED
    BY <2>3, <2>4, <2>5 DEF Orderly
<1> QED
  BY <1>2, <1>5, <1>6, <1>7, <1>8 DEF SmpInv

-----------------------------------------------------------------------------
(* The boot processor: the entries.                                         *)

\* On to the next entry, with nothing in the array but after what is counted.
LEMMA AdvanceStep ==
  ASSUME SmpInv, bp \in {"entry", "start", "poll"}, ~(bp = "poll" /\ tpl.flag), bp' = "entry", row' = row + 1,
         UNCHANGED <<mach, x2apic, harts, cpu_count, tpl, mtrrs, ap, place, synced, late>>,
         info' \in Seq(Ids \cup {Nowhere}), Len(info') = Len(info), \A k \in 1 .. cpu_count : info'[k] = info[k]
  PROVE  SmpInv'
<1>1. row \in Nat \ {0} /\ row' \in Nat \ {0} /\ cpu_count \in Nat /\ Len(harts) \in Nat
  BY ListLength DEF SmpInv, SmpTypes
<1>2. SmpTypes'
  BY <1>1 DEF SmpInv, SmpTypes, Begun, Roster
<1>3. bp \in Begun
  BY DEF Begun, Working
<1>4. Counted'
  <2>1. Before(row)' = Before(row + 1) /\ MaxCpus(x2apic)' = MaxCpus(x2apic)
    BY BeforeNow
  <2>2. Cardinality(Before(row)) <= Cardinality(Before(row + 1))
    BY BeforeGrows DEF SmpInv
  <2>3. Cardinality(Before(row)) \in Nat /\ Cardinality(Before(row + 1)) \in Nat
    BY BeforeFinite DEF SmpInv
  <2>4. cpu_count <= Cardinality(Before(row)) /\ Len(info) = MaxCpus(x2apic) /\ cpu_count <= Len(info) /\ (X86 => mtrrs = TRUE)
    BY <1>3 DEF SmpInv, Counted
  <2>5. cpu_count' <= Cardinality(Before(row)')
    BY <1>1, <2>1, <2>2, <2>3, <2>4
  <2> QED
    BY <2>1, <2>4, <2>5 DEF Counted, X86
<1>5. Trying'
  BY DEF Trying, Working
<1>6. ASSUME ~late PROVE Orderly'
  <2>1. Unstarted /\ Standing /\ Owned
    BY <1>6 DEF SmpInv, Orderly
  <2>2. Unstarted'
    BY <1>1, <2>1 DEF Unstarted, Ended
  <2>3. Waiting'
    BY DEF Waiting, Working
  <2>4. Standing'
    <3> SUFFICES ASSUME NEW c \in Ids, Up(c)
                 PROVE  (X86 => synced[c]) /\ place[c] \in 1 .. Len(info) /\ info'[place[c]] = c /\ place[c] <= cpu_count
      BY DEF Standing, Up, X86
    <3>1. (X86 => synced[c]) /\ place[c] \in 1 .. Len(info) /\ info[place[c]] = c /\ place[c] <= cpu_count
      BY <2>1 DEF Standing
    <3>2. place[c] \in 1 .. cpu_count
      BY <1>1, <3>1
    <3> QED
      BY <3>1, <3>2
  <2>5. Owned'
    BY <2>1 DEF Owned, Alias, Up, X86
  <2> QED
    BY <2>2, <2>3, <2>4, <2>5 DEF Orderly
<1> QED
  BY <1>2, <1>4, <1>5, <1>6 DEF SmpInv

\* Entries that are passed over: not to be started, refused, or given up.
LEMMA PassStep == ASSUME SmpInv, SkipCpu \/ Refused \/ GiveUpOn PROVE SmpInv'
<1>1. /\ bp \in {"entry", "start", "poll"} /\ ~(bp = "poll" /\ tpl.flag) /\ bp' = "entry" /\ row' = row + 1
      /\ UNCHANGED <<mach, x2apic, harts, info, cpu_count, tpl, mtrrs, ap, place, synced, late>>
  BY DEF SkipCpu, Refused, GiveUpOn, bpvars, apvars
<1>2. info' \in Seq(Ids \cup {Nowhere}) /\ Len(info') = Len(info) /\ \A k \in 1 .. cpu_count : info'[k] = info[k]
  BY <1>1 DEF SmpInv, SmpTypes
<1> QED
  BY <1>1, <1>2, AdvanceStep

\* The id goes to the next place, which there is.
LEMMA NextPlace ==
  ASSUME SmpInv, bp = "entry", row <= Len(harts), Startable(Cur, x2apic), info' = [info EXCEPT ![cpu_count + 1] = Cur.id]
  PROVE  /\ info' \in Seq(Ids \cup {Nowhere}) /\ Len(info') = Len(info) /\ info'[cpu_count + 1] = Cur.id
         /\ \A k \in 1 .. cpu_count : info'[k] = info[k]
         /\ cpu_count + 1 <= Len(info) /\ cpu_count + 1 <= Cardinality(Before(row + 1))
         /\ row \in 1 .. Len(harts) /\ Cur.id \in Ids /\ Len(info) \in Nat /\ cpu_count \in Nat
<1>1. bp \in Begun
  BY DEF Begun
<1>2. cpu_count + 1 <= Len(info) /\ cpu_count + 1 <= Cardinality(Before(row + 1))
  BY <1>1, RoomLeft DEF SmpInv
<1>3. row \in 1 .. Len(harts) /\ cpu_count \in Nat /\ Len(info) \in Nat
  BY ListLength DEF SmpInv, SmpTypes
<1>4. Cur.id \in Ids
  BY <1>3, Listed DEF SmpInv, Cur
<1>5. PICK e : e = Cur.id
  OBVIOUS
<1>6. PICK i : i = cpu_count + 1
  OBVIOUS
<1>7. info \in Seq(Ids \cup {Nowhere}) /\ i \in 1 .. Len(info) /\ e \in Ids \cup {Nowhere} /\ info' = [info EXCEPT ![i] = e]
  BY <1>2, <1>3, <1>4, <1>5, <1>6 DEF SmpInv, SmpTypes
<1>8. /\ info' \in Seq(Ids \cup {Nowhere}) /\ Len(info') = Len(info)
      /\ \A j \in 1 .. Len(info) : info'[j] = IF j = i THEN e ELSE info[j]
  <2> DEFINE S == Ids \cup {Nowhere}
  <2>1. info \in Seq(S) /\ e \in S
    BY <1>7
  <2> HIDE DEF S
  <2>a. PICK q \in Seq(S) : q = info
    BY <2>1
  <2>b. i \in 1 .. Len(q) /\ info' = [q EXCEPT ![i] = e]
    BY <1>7, <2>a
  <2>c. /\ [q EXCEPT ![i] = e] \in Seq(S) /\ Len([q EXCEPT ![i] = e]) = Len(q)
        /\ \A j \in 1 .. Len(q) : [q EXCEPT ![i] = e][j] = IF j = i THEN e ELSE q[j]
    BY <2>1, <2>b, ExceptSeq
  <2>2. info' \in Seq(S) /\ Len(info') = Len(info) /\ \A j \in 1 .. Len(info) : info'[j] = IF j = i THEN e ELSE info[j]
    BY <2>a, <2>b, <2>c, Zenon
  <2> QED
    BY <2>2 DEF S
<1>9. \A k \in 1 .. cpu_count : k \in 1 .. Len(info) /\ k # i
  BY <1>2, <1>3, <1>6
<1>10. (\A k \in 1 .. cpu_count : info'[k] = info[k]) /\ info'[i] = e
  BY <1>7, <1>8, <1>9
<1> QED
  BY <1>2, <1>3, <1>4, <1>5, <1>6, <1>8, <1>10

LEMMA CountBspStep == ASSUME SmpInv, CountBsp PROVE SmpInv'
<1>1. /\ bp = "entry" /\ row <= Len(harts) /\ Startable(Cur, x2apic) /\ IsBsp(Cur) /\ info' = [info EXCEPT ![cpu_count + 1] = Cur.id]
      /\ cpu_count' = cpu_count + 1 /\ row' = row + 1
      /\ UNCHANGED <<mach, bp, x2apic, harts, tpl, polls, mtrrs, ap, place, synced, late>>
  BY DEF CountBsp, apvars
<1>2. /\ info' \in Seq(Ids \cup {Nowhere}) /\ Len(info') = Len(info) /\ info'[cpu_count + 1] = Cur.id
      /\ \A k \in 1 .. cpu_count : info'[k] = info[k]
      /\ cpu_count + 1 <= Len(info) /\ cpu_count + 1 <= Cardinality(Before(row + 1))
      /\ row \in 1 .. Len(harts) /\ cpu_count \in Nat /\ Len(info) \in Nat
  BY <1>1, NextPlace
<1>3. SmpTypes'
  <2>1. row' \in Nat \ {0} /\ cpu_count' \in Nat
    BY <1>1, <1>2 DEF SmpInv, SmpTypes
  <2> QED
    BY <1>1, <1>2, <2>1 DEF SmpInv, SmpTypes, Roster
<1>4. Counted'
  <2>1. Before(row)' = Before(row + 1) /\ MaxCpus(x2apic)' = MaxCpus(x2apic)
    BY <1>1, BeforeNow
  <2>2. Len(info) = MaxCpus(x2apic) /\ (X86 => mtrrs = TRUE)
    BY <1>1 DEF SmpInv, Counted, Begun
  <2> QED
    BY <1>1, <1>2, <2>1, <2>2 DEF Counted, X86
<1>5. Trying'
  BY <1>1 DEF Trying, Working
<1>6. ASSUME ~late PROVE Orderly'
  <2>1. Unstarted /\ Standing /\ Owned
    BY <1>6 DEF SmpInv, Orderly
  <2>2. Unstarted'
    BY <1>1, <1>2, <2>1 DEF Unstarted, Ended
  <2>3. Waiting'
    BY <1>1 DEF Waiting, Working
  <2>4. Standing'
    <3> SUFFICES ASSUME NEW c \in Ids, Up(c)
                 PROVE  (X86 => synced[c]) /\ place[c] \in 1 .. Len(info) /\ info'[place[c]] = c /\ place[c] <= cpu_count + 1
      BY <1>1, <1>2 DEF Standing, Up, X86
    <3>1. (X86 => synced[c]) /\ place[c] \in 1 .. Len(info) /\ info[place[c]] = c /\ place[c] <= cpu_count
      BY <1>1, <2>1 DEF Standing
    <3>2. place[c] \in 1 .. cpu_count /\ place[c] <= cpu_count + 1
      BY <1>2, <3>1
    <3> QED
      BY <1>2, <3>1, <3>2
  <2>5. Owned'
    <3> SUFFICES ASSUME NEW k \in 1 .. cpu_count + 1
                 PROVE  (info[k] = mach.bsp \/ Alias(k) \/ (info[k] \in Ids /\ Up(info[k]) /\ place[info[k]] = k))'
      BY <1>1 DEF Owned
    <3>1. CASE k = cpu_count + 1
      BY <1>1, <1>2, <3>1 DEF IsBsp, Alias, X86
    <3>2. CASE k # cpu_count + 1
      <4>1. k \in 1 .. cpu_count
        BY <1>2, <3>2
      <4>2. info'[k] = info[k]
        BY <1>2, <4>1
      <4> QED
        BY <1>1, <2>1, <4>1, <4>2 DEF Owned, Alias, Up, X86
    <3> QED
      BY <3>1, <3>2
  <2> QED
    BY <2>2, <2>3, <2>4, <2>5 DEF Orderly
<1> QED
  BY <1>1, <1>3, <1>4, <1>5, <1>6 DEF SmpInv

\* smp_start_ap: the block is filled in for the next place.
LEMMA FillStep ==
  ASSUME SmpInv, Candidate, Fill, bp' \in {"init", "start"}, row' = row
  PROVE  SmpInv'
<1>1. /\ bp = "entry" /\ row <= Len(harts) /\ Startable(Cur, x2apic) /\ info' = [info EXCEPT ![cpu_count + 1] = Cur.id]
      /\ UNCHANGED <<mach, x2apic, harts, cpu_count, mtrrs, ap, place, synced, late>>
      /\ tpl' = [flag |-> FALSE, slot |-> cpu_count + 1, whole |-> TRUE, adds |-> 0]
  BY DEF Candidate, Fill, apvars
<1>2. /\ info' \in Seq(Ids \cup {Nowhere}) /\ Len(info') = Len(info) /\ info'[cpu_count + 1] = Cur.id
      /\ \A k \in 1 .. cpu_count : info'[k] = info[k]
      /\ cpu_count + 1 <= Len(info)
      /\ row \in 1 .. Len(harts) /\ cpu_count \in Nat /\ Len(info) \in Nat
  BY <1>1, NextPlace
<1>3. /\ tpl' \in [flag : BOOLEAN, slot : Nat, whole : BOOLEAN, adds : Nat]
      /\ tpl'.slot = cpu_count + 1 /\ ~tpl'.flag /\ tpl'.whole /\ tpl'.adds = 0
  BY <1>1, <1>2
<1>4. SmpTypes'
  BY <1>1, <1>2, <1>3 DEF SmpInv, SmpTypes, Roster, Begun, Working
<1>5. Counted'
  <2>1. Before(row)' = Before(row) /\ MaxCpus(x2apic)' = MaxCpus(x2apic)
    BY <1>1, BeforeNow
  <2>2. cpu_count <= Cardinality(Before(row)) /\ Len(info) = MaxCpus(x2apic) /\ cpu_count <= Len(info) /\ (X86 => mtrrs = TRUE)
    BY <1>1 DEF SmpInv, Counted, Begun
  <2> QED
    BY <1>1, <1>2, <2>1, <2>2 DEF Counted, X86
<1>6. Trying'
  <2>1. Cur' = Cur /\ Startable(Cur, x2apic)'
    BY <1>1, CurKept
  <2> QED
    BY <1>1, <1>2, <1>3, <2>1 DEF Trying
<1>7. ASSUME ~late PROVE Orderly'
  <2>1. Unstarted /\ Standing /\ Owned
    BY <1>7 DEF SmpInv, Orderly
  <2>2. Unstarted'
    BY <1>1, <2>1 DEF Unstarted, Ended
  <2>3. Waiting'
    BY <1>3 DEF Waiting
  <2>4. Standing'
    <3> SUFFICES ASSUME NEW c \in Ids, Up(c)
                 PROVE  (X86 => synced[c]) /\ place[c] \in 1 .. Len(info) /\ info'[place[c]] = c /\ place[c] <= cpu_count
      BY <1>1, <1>2 DEF Standing, Up, X86
    <3>1. (X86 => synced[c]) /\ place[c] \in 1 .. Len(info) /\ info[place[c]] = c /\ place[c] <= cpu_count
      BY <1>1, <2>1 DEF Standing
    <3>2. place[c] \in 1 .. cpu_count
      BY <1>2, <3>1
    <3> QED
      BY <1>2, <3>1, <3>2
  <2>5. Owned'
    BY <1>1, <1>2, <2>1 DEF Owned, Alias, Up, X86
  <2> QED
    BY <2>2, <2>3, <2>4, <2>5 DEF Orderly
<1> QED
  BY <1>1, <1>4, <1>5, <1>6, <1>7 DEF SmpInv

\* A parking processor ends it; a node without a method is passed over.
LEMMA StopStep == ASSUME SmpInv, Candidate, Fill, bp' = "panic", row' = row PROVE SmpInv'
<1>1. /\ bp = "entry" /\ row <= Len(harts) /\ Startable(Cur, x2apic) /\ info' = [info EXCEPT ![cpu_count + 1] = Cur.id]
      /\ UNCHANGED <<mach, x2apic, harts, cpu_count, mtrrs, ap, place, synced, late>>
      /\ tpl' = [flag |-> FALSE, slot |-> cpu_count + 1, whole |-> TRUE, adds |-> 0]
  BY DEF Candidate, Fill, apvars
<1>2. /\ info' \in Seq(Ids \cup {Nowhere}) /\ Len(info') = Len(info)
      /\ \A k \in 1 .. cpu_count : info'[k] = info[k]
      /\ cpu_count + 1 <= Len(info) /\ cpu_count \in Nat /\ Len(info) \in Nat
  BY <1>1, NextPlace
<1>3. tpl' \in [flag : BOOLEAN, slot : Nat, whole : BOOLEAN, adds : Nat]
  BY <1>1, <1>2
<1>4. SmpTypes'
  BY <1>1, <1>2, <1>3 DEF SmpInv, SmpTypes, Roster
<1>5. Counted' /\ Trying'
  BY <1>1, <1>2 DEF SmpInv, Counted, Trying, Begun, Working
<1>6. ASSUME ~late PROVE Orderly'
  <2>1. Standing /\ Owned
    BY <1>6 DEF SmpInv, Orderly
  <2>2. Unstarted' /\ Waiting'
    BY <1>1 DEF Unstarted, Waiting, Ended, Working
  <2>3. Standing'
    <3> SUFFICES ASSUME NEW c \in Ids, Up(c)
                 PROVE  (X86 => synced[c]) /\ place[c] \in 1 .. Len(info) /\ info'[place[c]] = c /\ place[c] <= cpu_count
      BY <1>1, <1>2 DEF Standing, Up, X86
    <3>1. (X86 => synced[c]) /\ place[c] \in 1 .. Len(info) /\ info[place[c]] = c /\ place[c] <= cpu_count
      BY <1>1, <2>1 DEF Standing
    <3>2. place[c] \in 1 .. cpu_count
      BY <1>2, <3>1
    <3> QED
      BY <1>2, <3>1, <3>2
  <2>4. Owned'
    BY <1>1, <1>2, <2>1 DEF Owned, Alias, Up, X86
  <2> QED
    BY <2>2, <2>3, <2>4 DEF Orderly
<1> QED
  BY <1>1, <1>4, <1>5, <1>6 DEF SmpInv

LEMMA PrepareStep == ASSUME SmpInv, PrepareLapic \/ PrepareGicc \/ PrepareNode \/ PrepareHart PROVE SmpInv'
<1>1. CASE PrepareNode /\ Cur.how = "missing"
  <2>1. Candidate /\ bp' = "entry" /\ row' = row + 1 /\ tpl' = tpl
    BY <1>1 DEF PrepareNode
  <2>2. /\ bp = "entry" /\ row <= Len(harts) /\ Startable(Cur, x2apic) /\ info' = [info EXCEPT ![cpu_count + 1] = Cur.id]
        /\ UNCHANGED <<mach, x2apic, harts, cpu_count, mtrrs, ap, place, synced, late>>
    BY <2>1 DEF Candidate, apvars
  <2>3. info' \in Seq(Ids \cup {Nowhere}) /\ Len(info') = Len(info) /\ \A k \in 1 .. cpu_count : info'[k] = info[k]
    BY <2>2, NextPlace
  <2> QED
    BY <2>1, <2>2, <2>3, AdvanceStep
<1>2. CASE ~(PrepareNode /\ Cur.how = "missing")
  <2>1. Candidate /\ Fill /\ bp' \in {"init", "start", "panic"} /\ row' = row
    BY <1>2 DEF PrepareLapic, PrepareHart, PrepareGicc, PrepareNode
  <2> QED
    BY <2>1, FillStep, StopStep
<1> QED
  BY <1>1, <1>2

-----------------------------------------------------------------------------
(* The entry that is being tried.                                           *)

LEMMA TriedEntry ==
  ASSUME SmpInv, bp \in Working
  PROVE  /\ row \in 1 .. Len(harts) /\ Cur.id \in Ids /\ Cur = harts[row] /\ cpu_count \in Nat /\ Len(info) \in Nat
         /\ tpl.slot = cpu_count + 1 /\ cpu_count + 1 <= Len(info) /\ info[cpu_count + 1] = Cur.id
         /\ \A n \in 1 .. Len(harts) : harts[n].id \in Ids /\ (n # row => harts[n].id # Cur.id)
<1>1. row \in 1 .. Len(harts)
  BY ListLength DEF SmpInv, Trying, SmpTypes
<1>2. Cur.id \in Ids /\ \A n \in 1 .. Len(harts) : harts[n].id \in Ids
  BY <1>1, Listed DEF SmpInv, Cur
<1>3. \A n \in 1 .. Len(harts) : n # row => harts[n].id # Cur.id
  BY <1>1 DEF SmpInv, SmpTypes, Roster, Cur
<1> QED
  BY <1>1, <1>2, <1>3, ListLength DEF SmpInv, SmpTypes, Trying, Cur

\* What a step that leaves the table and the counts alone keeps.
LEMMA CountsKept ==
  ASSUME SmpInv, UNCHANGED <<mach, x2apic, harts, row, info, cpu_count, mtrrs>>, tpl'.slot = tpl.slot,
         bp' = bp \/ (bp \in Working /\ bp' \in Working) \/ (bp = "entry" /\ bp' \in {"none", "done"})
  PROVE  Counted' /\ Trying' /\ Cur' = Cur
<1>1. Before(row)' = Before(row) /\ MaxCpus(x2apic)' = MaxCpus(x2apic)
  BY BeforeNow
<1>2. Cur' = Cur /\ Startable(Cur, x2apic)' = Startable(Cur, x2apic)
  BY CurKept
<1>3. bp' \in Begun => bp \in Begun
  BY DEF Begun, Working
<1>4. bp' \in {"begin", "count"} => bp \in {"begin", "count"}
  BY DEF Working
<1>5. Counted'
  BY <1>1, <1>3, <1>4 DEF SmpInv, Counted, X86
<1>6. bp' \in Working => bp \in Working
  BY DEF Working
<1>7. Trying'
  BY <1>2, <1>6 DEF SmpInv, Trying
<1> QED
  BY <1>2, <1>5, <1>7

\* INIT stops a processor that does not run yet.
LEMMA InitStep == ASSUME SmpInv, SendInit PROVE SmpInv'
<1>1. PICK c : c = Cur.id
  OBVIOUS
<1>2. /\ bp = "init" /\ bp' = "sipi" /\ ap' = [ap EXCEPT ![c] = "reset"] /\ place' = [place EXCEPT ![c] = Nowhere]
      /\ UNCHANGED <<mach, x2apic, harts, info, cpu_count, mtrrs, row, tpl, synced, late>>
  BY <1>1 DEF SendInit, bpvars
<1>3. bp \in Working /\ bp' \in Working
  BY <1>2 DEF Working
<1>4. /\ row \in 1 .. Len(harts) /\ c \in Ids /\ harts[row].id = c
      /\ \A n \in 1 .. Len(harts) : harts[n].id \in Ids /\ (n # row => harts[n].id # c)
  BY <1>1, <1>3, TriedEntry
<1>5. SmpTypes'
  <2>1. ap' \in [Ids -> States] /\ place' \in [Ids -> Int]
    BY <1>2, <1>4 DEF SmpInv, SmpTypes, States, Nowhere
  <2> QED
    BY <1>2, <1>3, <2>1 DEF SmpInv, SmpTypes, Roster, Begun
<1>6. Counted' /\ Trying' /\ Cur' = Cur
  BY <1>2, <1>3, CountsKept
<1>a. ap \in [Ids -> States] /\ place \in [Ids -> Int]
  BY DEF SmpInv, SmpTypes
<1>7. ASSUME ~late PROVE Orderly'
  <2>1. Unstarted /\ Waiting /\ Standing /\ Owned
    BY <1>7 DEF SmpInv, Orderly
  <2>2. ~Up(c)
    BY <1>2, <1>4, <2>1 DEF Unstarted, Up, Ended
  <2>3. \A d \in Ids : d # c => ap'[d] = ap[d] /\ place'[d] = place[d]
    BY <1>2, <1>a
  <2>4. ap'[c] = "reset" /\ place'[c] = Nowhere
    BY <1>2, <1>4, <1>a
  <2>5. Unstarted'
    BY <1>2, <1>4, <2>1, <2>3, <2>4 DEF Unstarted, Ended
  <2>6. Waiting'
    BY <1>2, <1>3, <2>1 DEF Waiting
  <2>7. \A d \in Ids : Up(d)' => d # c /\ Up(d) /\ place'[d] = place[d]
    BY <2>3, <2>4 DEF Up
  <2>8. Standing'
    BY <1>2, <2>1, <2>7 DEF Standing, X86
  <2>9. \A d \in Ids : Up(d) => Up(d)' /\ place'[d] = place[d]
    BY <2>2, <2>3 DEF Up
  <2>10. Owned'
    BY <1>2, <2>1, <2>9 DEF Owned, Alias, X86, Up
  <2> QED
    BY <2>5, <2>6, <2>8, <2>10 DEF Orderly
<1> QED
  BY <1>2, <1>5, <1>6, <1>7 DEF SmpInv

\* The message, the release or the call that starts it.
LEMMA SmpStartStep == ASSUME SmpInv, SendStartup \/ Release \/ PsciCall \/ SbiCall PROVE SmpInv'
<1>1. PICK c : c = Cur.id
  OBVIOUS
<1>2. /\ bp \in {"sipi", "start"} /\ bp' = "poll"
      /\ ap' = [ap EXCEPT ![c] = IF ap[c] \in {"off", "reset"} THEN "go" ELSE ap[c]]
      /\ UNCHANGED <<mach, x2apic, harts, info, cpu_count, mtrrs, row, tpl, place, synced, late>>
  BY <1>1 DEF SendStartup, Release, PsciCall, SbiCall, Started, bpvars
<1>3. bp \in Working /\ bp' \in Working
  BY <1>2 DEF Working
<1>4. /\ row \in 1 .. Len(harts) /\ c \in Ids /\ harts[row].id = c
      /\ \A n \in 1 .. Len(harts) : harts[n].id \in Ids /\ (n # row => harts[n].id # c)
  BY <1>1, <1>3, TriedEntry
<1>a. ap \in [Ids -> States] /\ place \in [Ids -> Int]
  BY DEF SmpInv, SmpTypes
<1>5. SmpTypes'
  <2>1. ap' \in [Ids -> States]
    BY <1>2, <1>4, <1>a DEF States
  <2> QED
    BY <1>2, <1>3, <2>1 DEF SmpInv, SmpTypes, Roster, Begun
<1>6. Counted' /\ Trying' /\ Cur' = Cur
  BY <1>2, <1>3, CountsKept
<1>7. ASSUME ~late PROVE Orderly'
  <2>1. Unstarted /\ Waiting /\ Standing /\ Owned
    BY <1>7 DEF SmpInv, Orderly
  <2>2. ap[c] \in {"off", "reset"} /\ place[c] = Nowhere
    BY <1>2, <1>4, <2>1 DEF Unstarted, Ended
  <2>3. (\A d \in Ids : d # c => ap'[d] = ap[d]) /\ ap'[c] = "go"
    BY <1>2, <1>4, <1>a, <2>2
  <2>4. Unstarted'
    BY <1>2, <1>4, <2>1, <2>3 DEF Unstarted, Ended
  <2>5. Waiting'
    <3>1. ~tpl.flag /\ tpl.whole /\ tpl.adds = 0
      BY <1>2, <2>1 DEF Waiting, Working
    <3>2. Cur'.id = c
      BY <1>1, <1>6
    <3> QED
      BY <1>2, <2>2, <2>3, <3>1, <3>2 DEF Waiting
  <2>6. \A d \in Ids : Up(d)' <=> Up(d)
    BY <2>2, <2>3 DEF Up
  <2>7. Standing'
    BY <1>2, <2>1, <2>6 DEF Standing, X86
  <2>8. Owned'
    BY <1>2, <2>1, <2>2, <2>3 DEF Owned, Alias, X86, Up
  <2> QED
    BY <2>4, <2>5, <2>7, <2>8 DEF Orderly
<1> QED
  BY <1>2, <1>5, <1>6, <1>7 DEF SmpInv

\* The flag is seen: the place is counted, and its processor is the one tried.
LEMMA AnsweredStep == ASSUME SmpInv, Answered PROVE SmpInv'
<1>1. /\ bp = "poll" /\ tpl.flag /\ cpu_count' = cpu_count + 1 /\ row' = row + 1 /\ bp' = "entry"
      /\ UNCHANGED <<mach, x2apic, harts, info, tpl, mtrrs, ap, place, synced, late>>
  BY DEF Answered, apvars
<1>2. /\ row \in 1 .. Len(harts) /\ Cur.id \in Ids /\ cpu_count \in Nat /\ Len(info) \in Nat
      /\ tpl.slot = cpu_count + 1 /\ cpu_count + 1 <= Len(info) /\ info[cpu_count + 1] = Cur.id
  BY <1>1, TriedEntry DEF Working
<1>3. SmpTypes'
  <2>1. row' \in Nat \ {0} /\ cpu_count' \in Nat
    BY <1>1, <1>2
  <2> QED
    BY <1>1, <2>1 DEF SmpInv, SmpTypes, Roster, Begun
<1>4. Counted'
  <2>1. Before(row)' = Before(row + 1) /\ MaxCpus(x2apic)' = MaxCpus(x2apic)
    BY <1>1, BeforeNow
  <2>2. bp \in Begun /\ row <= Len(harts) /\ Startable(Cur, x2apic)
    BY <1>1 DEF SmpInv, Trying, Begun, Working
  <2>3. cpu_count + 1 <= Cardinality(Before(row + 1))
    BY <2>2, RoomLeft DEF SmpInv
  <2>4. Len(info) = MaxCpus(x2apic) /\ (X86 => mtrrs = TRUE)
    BY <2>2 DEF SmpInv, Counted
  <2> QED
    BY <1>1, <1>2, <2>1, <2>3, <2>4 DEF Counted, X86
<1>5. Trying'
  BY <1>1 DEF Trying, Working
<1>6. ASSUME ~late PROVE Orderly'
  <2>1. Unstarted /\ Waiting /\ Standing /\ Owned
    BY <1>6 DEF SmpInv, Orderly
  <2>2. Unstarted'
    BY <1>1, <1>2, <2>1 DEF Unstarted, Ended
  <2>3. Waiting'
    BY <1>1 DEF Waiting, Working
  <2>4. Standing'
    BY <1>1, <1>2, <2>1 DEF Standing, Up, X86
  <2>5. Owned'
    <3>1. Up(Cur.id) /\ place[Cur.id] = cpu_count + 1
      BY <1>1, <1>2, <2>1 DEF Waiting, Up
    <3> SUFFICES ASSUME NEW k \in 1 .. cpu_count + 1
                 PROVE  info[k] = mach.bsp \/ Alias(k) \/ (info[k] \in Ids /\ Up(info[k]) /\ place[info[k]] = k)
      BY <1>1 DEF Owned, Alias, Up, X86
    <3>2. CASE k = cpu_count + 1
      BY <1>2, <3>1, <3>2
    <3>3. CASE k # cpu_count + 1
      <4>1. k \in 1 .. cpu_count
        BY <1>2, <3>3
      <4> QED
        BY <2>1, <4>1 DEF Owned
    <3> QED
      BY <3>2, <3>3
  <2> QED
    BY <2>2, <2>3, <2>4, <2>5 DEF Orderly
<1> QED
  BY <1>1, <1>3, <1>4, <1>5, <1>6 DEF SmpInv

LEMMA PollStep == ASSUME SmpInv, PollFlag \/ SmpFinish \/ UNCHANGED smpvars PROVE SmpInv'
<1>1. /\ UNCHANGED <<mach, x2apic, harts, info, cpu_count, mtrrs, row, tpl, ap, place, synced, late>>
      /\ bp' = bp \/ (bp = "entry" /\ bp' \in {"none", "done"})
  BY DEF PollFlag, SmpFinish, smpvars, bpvars, apvars
<1>2. Counted' /\ Trying' /\ Cur' = Cur
  BY <1>1, CountsKept
<1>3. SmpTypes'
  BY <1>1 DEF SmpInv, SmpTypes, Roster, Begun
<1>4. ASSUME ~late PROVE Orderly'
  <2>1. Unstarted /\ Waiting /\ Standing /\ Owned
    BY <1>4 DEF SmpInv, Orderly
  <2>2. Unstarted'
    BY <1>1, <2>1 DEF Unstarted, Ended
  <2>3. Waiting'
    BY <1>1, <1>2, <2>1 DEF Waiting, Working, X86
  <2>4. Standing' /\ Owned'
    BY <1>1, <2>1 DEF Standing, Owned, Up, X86, Alias
  <2> QED
    BY <2>2, <2>3, <2>4 DEF Orderly
<1> QED
  BY <1>1, <1>2, <1>3, <1>4 DEF SmpInv

-----------------------------------------------------------------------------
(* The trampoline.  A step of a processor that is not waited for sets late; *)
(* one that is waited for is the one being tried.                           *)

\* What a step of processor c keeps, if it is the one being tried: nothing of
\* another's changes, and c was not up.
LEMMA TrampolineKeeps ==
  ASSUME SmpInv, ~late, UNCHANGED <<bpvars, bp, row>>, NEW c \in Ids, Waited(c), ~Up(c), tpl'.slot = tpl.slot,
         \A d \in Ids : d # c => ap'[d] = ap[d] /\ place'[d] = place[d] /\ synced'[d] = synced[d],
         ~Up(c)' \/ (tpl'.flag /\ place'[c] = tpl.slot /\ (X86 => synced'[c]))
  PROVE  Unstarted' /\ Standing' /\ Owned'
<1>1. Unstarted /\ Waiting /\ Standing /\ Owned
  BY DEF SmpInv, Orderly
<1>2. bp = "poll" /\ c = Cur.id /\ bp' = "poll" /\ UNCHANGED <<mach, x2apic, harts, info, cpu_count, mtrrs, row>>
  BY DEF Waited, bpvars
<1>3. /\ row \in 1 .. Len(harts) /\ cpu_count \in Nat /\ Len(info) \in Nat
      /\ tpl.slot = cpu_count + 1 /\ cpu_count + 1 <= Len(info) /\ info[cpu_count + 1] = c
      /\ \A n \in 1 .. Len(harts) : harts[n].id \in Ids /\ (n # row => harts[n].id # c)
  BY <1>2, TriedEntry DEF Working
<1>4. Unstarted'
  BY <1>1, <1>2, <1>3 DEF Unstarted, Ended
<1>5. Standing'
  <2> SUFFICES ASSUME NEW d \in Ids, Up(d)'
               PROVE  /\ X86 => synced'[d]
                      /\ place'[d] \in 1 .. Len(info) /\ info[place'[d]] = d
                      /\ place'[d] <= cpu_count \/ (tpl'.flag /\ place'[d] = cpu_count + 1)
    BY <1>2 DEF Standing, X86
  <2>1. CASE d = c
    BY <1>3, <2>1
  <2>2. CASE d # c
    <3>1. Up(d) /\ place'[d] = place[d] /\ synced'[d] = synced[d]
      BY <2>2 DEF Up
    <3>2. ~(place[d] = cpu_count + 1)
      BY <1>1, <1>3, <2>2, <3>1 DEF Standing
    <3> QED
      BY <1>1, <3>1, <3>2 DEF Standing
  <2> QED
    BY <2>1, <2>2
<1>6. Owned'
  <2>1. \A d \in Ids : Up(d) => Up(d)' /\ place'[d] = place[d]
    BY DEF Up
  <2> QED
    BY <1>1, <1>2, <2>1 DEF Owned, Alias, X86, Up
<1> QED
  BY <1>4, <1>5, <1>6

LEMMA LoadStep == ASSUME SmpInv, NEW c \in Ids, ApLoad(c) PROVE SmpInv'
<1>1. /\ ap[c] = "go"
      /\ ap' = [ap EXCEPT ![c] = IF X86 /\ (tpl.adds # 0 \/ ~tpl.whole) THEN "lost" ELSE "loaded"]
      /\ place' = (IF X86 THEN place ELSE [place EXCEPT ![c] = tpl.slot])
      /\ late' = (late \/ ~Waited(c)) /\ UNCHANGED <<bpvars, bp, row, tpl, synced>>
  BY DEF ApLoad
<1>2. UNCHANGED <<mach, x2apic, harts, info, cpu_count, mtrrs, row, bp>>
  BY <1>1 DEF bpvars
<1>3. ap \in [Ids -> States] /\ place \in [Ids -> Int] /\ tpl.slot \in Nat
  BY DEF SmpInv, SmpTypes
<1>4. SmpTypes'
  <2>1. ap' \in [Ids -> States] /\ place' \in [Ids -> Int]
    BY <1>1, <1>3 DEF States
  <2>2. late' \in BOOLEAN
    BY <1>1, Zenon
  <2> QED
    BY <1>1, <1>2, <2>1, <2>2 DEF SmpInv, SmpTypes, Roster
<1>5. Counted' /\ Trying' /\ Cur' = Cur
  BY <1>1, <1>2, CountsKept
<1>6. ASSUME ~late' PROVE Orderly'
  <2>1. ~late /\ Waited(c) /\ Waiting
    BY <1>1, <1>6 DEF SmpInv, Orderly
  <2>2. place[c] = Nowhere /\ ~tpl.flag /\ tpl.whole /\ tpl.adds = 0 /\ Cur.id = c /\ bp = "poll"
    BY <1>1, <2>1 DEF Waiting, Waited
  <2>3. ap'[c] = "loaded" /\ place'[c] = (IF X86 THEN Nowhere ELSE tpl.slot)
    BY <1>1, <1>3, <2>2
  <2>4. ~Up(c) /\ ~Up(c)'
    BY <1>1, <2>3 DEF Up
  <2>5. \A d \in Ids : d # c => ap'[d] = ap[d] /\ place'[d] = place[d] /\ synced'[d] = synced[d]
    BY <1>1, <1>3
  <2>6. Unstarted' /\ Standing' /\ Owned'
    BY <1>1, <2>1, <2>4, <2>5, TrampolineKeeps
  <2>7. Waiting'
    BY <1>1, <1>2, <1>5, <2>2, <2>3 DEF Waiting, X86, Working
  <2> QED
    BY <2>6, <2>7 DEF Orderly
<1> QED
  BY <1>4, <1>5, <1>6 DEF SmpInv

LEMMA PlaceStep == ASSUME SmpInv, NEW c \in Ids, ApPlace(c) PROVE SmpInv'
<1>1. /\ X86 /\ ap[c] = "loaded" /\ place[c] = Nowhere /\ tpl' = [tpl EXCEPT !.adds = @ + 1]
      /\ ap' = [ap EXCEPT ![c] = IF tpl.adds # 0 THEN "lost" ELSE ap[c]]
      /\ place' = (IF tpl.adds # 0 THEN place ELSE [place EXCEPT ![c] = tpl.slot])
      /\ synced' = [synced EXCEPT ![c] = mtrrs]
      /\ late' = (late \/ ~Waited(c)) /\ UNCHANGED <<bpvars, bp, row>>
  BY DEF ApPlace
<1>2. UNCHANGED <<mach, x2apic, harts, info, cpu_count, mtrrs, row, bp>>
  BY <1>1 DEF bpvars
<1>3. /\ ap \in [Ids -> States] /\ place \in [Ids -> Int] /\ synced \in [Ids -> BOOLEAN]
      /\ tpl \in [flag : BOOLEAN, slot : Nat, whole : BOOLEAN, adds : Nat] /\ tpl.slot \in Nat
  BY DEF SmpInv, SmpTypes
<1>4. /\ tpl' \in [flag : BOOLEAN, slot : Nat, whole : BOOLEAN, adds : Nat] /\ tpl'.slot = tpl.slot /\ tpl'.flag = tpl.flag
  BY <1>1, <1>3
<1>5. SmpTypes'
  <2>1. ap' \in [Ids -> States] /\ place' \in [Ids -> Int]
    BY <1>1, <1>3 DEF States
  <2>2. late' \in BOOLEAN
    BY <1>1, Zenon
  <2>3. synced' \in [Ids -> BOOLEAN]
    BY <1>1, <1>3 DEF SmpInv, SmpTypes
  <2> QED
    BY <1>2, <1>4, <2>1, <2>2, <2>3 DEF SmpInv, SmpTypes, Roster
<1>6. Counted' /\ Trying' /\ Cur' = Cur
  BY <1>2, <1>4, CountsKept
<1>7. ASSUME ~late' PROVE Orderly'
  <2>1. ~late /\ Waited(c) /\ Waiting
    BY <1>1, <1>7 DEF SmpInv, Orderly
  <2>2. Cur.id = c /\ bp = "poll"
    BY <2>1 DEF Waited
  <2>3. tpl.slot # Nowhere
    BY <1>3 DEF Nowhere
  <2>4. ~tpl.flag /\ tpl.adds = 0
    BY <1>1, <2>1, <2>2, <2>3 DEF Waiting
  <2>5. mtrrs = TRUE
    BY <1>1, <2>2 DEF SmpInv, Counted, Begun, Working
  <2>6. ap'[c] = "loaded" /\ place'[c] = tpl.slot /\ synced'[c]
    BY <1>1, <1>3, <2>4, <2>5
  <2>7. ~Up(c) /\ ~Up(c)'
    BY <1>1, <2>6 DEF Up
  <2>8. \A d \in Ids : d # c => ap'[d] = ap[d] /\ place'[d] = place[d] /\ synced'[d] = synced[d]
    BY <1>1, <1>3
  <2>9. Unstarted' /\ Standing' /\ Owned'
    BY <1>1, <1>4, <2>1, <2>7, <2>8, TrampolineKeeps
  <2>10. Waiting'
    BY <1>2, <1>4, <1>6, <2>2, <2>4, <2>6 DEF Waiting, X86, Working
  <2> QED
    BY <2>9, <2>10 DEF Orderly
<1> QED
  BY <1>5, <1>6, <1>7 DEF SmpInv

LEMMA FlagStep == ASSUME SmpInv, NEW c \in Ids, ApFlag(c) PROVE SmpInv'
<1>1. /\ ap[c] = "loaded" /\ place[c] # Nowhere /\ tpl' = [tpl EXCEPT !.flag = TRUE, !.whole = ~X86]
      /\ ap' = [ap EXCEPT ![c] = "parked"]
      /\ late' = (late \/ ~Waited(c)) /\ UNCHANGED <<bpvars, bp, row, place, synced>>
  BY DEF ApFlag
<1>2. UNCHANGED <<mach, x2apic, harts, info, cpu_count, mtrrs, row, bp>>
  BY <1>1 DEF bpvars
<1>3. /\ ap \in [Ids -> States] /\ tpl \in [flag : BOOLEAN, slot : Nat, whole : BOOLEAN, adds : Nat]
  BY DEF SmpInv, SmpTypes
<1>4. /\ tpl' \in [flag : BOOLEAN, slot : Nat, whole : BOOLEAN, adds : Nat] /\ tpl'.slot = tpl.slot /\ tpl'.flag = TRUE
  <2>1. (~X86) \in BOOLEAN
    BY Zenon
  <2> QED
    BY <1>1, <1>3, <2>1
<1>5. SmpTypes'
  <2>1. ap' \in [Ids -> States]
    BY <1>1, <1>3 DEF States
  <2>2. late' \in BOOLEAN
    BY <1>1, Zenon
  <2> QED
    BY <1>1, <1>2, <1>4, <2>1, <2>2 DEF SmpInv, SmpTypes, Roster
<1>6. Counted' /\ Trying' /\ Cur' = Cur
  BY <1>2, <1>4, CountsKept
<1>7. ASSUME ~late' PROVE Orderly'
  <2>1. ~late /\ Waited(c) /\ Waiting
    BY <1>1, <1>7 DEF SmpInv, Orderly
  <2>2. Cur.id = c /\ bp = "poll"
    BY <2>1 DEF Waited
  <2>3. place[c] = tpl.slot /\ (X86 => synced[c])
    BY <1>1, <2>1, <2>2 DEF Waiting
  <2>4. ap'[c] = "parked" /\ place'[c] = tpl.slot /\ (X86 => synced'[c])
    BY <1>1, <1>3, <2>3
  <2>5. ~Up(c)
    BY <1>1 DEF Up
  <2>6. \A d \in Ids : d # c => ap'[d] = ap[d] /\ place'[d] = place[d] /\ synced'[d] = synced[d]
    BY <1>1, <1>3
  <2>7. Unstarted' /\ Standing' /\ Owned'
    BY <1>1, <1>4, <2>1, <2>4, <2>5, <2>6, TrampolineKeeps
  <2>8. Waiting'
    BY <1>2, <1>4, <1>6, <2>2, <2>4 DEF Waiting, X86, Working
  <2> QED
    BY <2>7, <2>8 DEF Orderly
<1> QED
  BY <1>5, <1>6, <1>7 DEF SmpInv

LEMMA GoStep == ASSUME SmpInv, NEW k, KernelGo(k) PROVE SmpInv'
<1>1. /\ bp = "done" /\ ap' = [c \in Ids |-> IF ap[c] = "parked" /\ place[c] = k THEN "kernel" ELSE ap[c]]
      /\ UNCHANGED <<mach, x2apic, harts, info, cpu_count, mtrrs, row, bp, tpl, place, synced, late>>
  BY DEF KernelGo, bpvars
<1>2. ap' \in [Ids -> States] /\ \A c \in Ids : Up(c)' <=> Up(c)
  BY <1>1 DEF SmpInv, SmpTypes, States, Up
<1>3. SmpTypes'
  BY <1>1, <1>2 DEF SmpInv, SmpTypes, Roster
<1>4. Counted' /\ Trying' /\ Cur' = Cur
  BY <1>1, CountsKept
<1>5. ASSUME ~late PROVE Orderly'
  <2>1. Standing /\ Owned
    BY <1>5 DEF SmpInv, Orderly
  <2>2. Unstarted' /\ Waiting'
    BY <1>1 DEF Unstarted, Waiting, Ended, Working
  <2>3. Standing'
    BY <1>1, <1>2, <2>1 DEF Standing, X86
  <2>4. Owned'
    BY <1>1, <1>2, <2>1 DEF Owned, Alias, X86, Up
  <2> QED
    BY <2>2, <2>3, <2>4 DEF Orderly
<1> QED
  BY <1>1, <1>3, <1>4, <1>5 DEF SmpInv

LEMMA SmpInvariant == SmpInv /\ [SmpNext]_smpvars => SmpInv'
<1> SUFFICES ASSUME SmpInv, [SmpNext]_smpvars PROVE SmpInv'
  OBVIOUS
<1>1. CASE BspNext
  BY <1>1, ReadStep, CountStep, PassStep, CountBspStep, PrepareStep, InitStep, SmpStartStep, AnsweredStep, PollStep DEF BspNext
<1>2. CASE ApNext
  BY <1>2, LoadStep, PlaceStep, FlagStep DEF ApNext
<1>3. CASE \E k \in DOMAIN info : KernelGo(k)
  BY <1>3, GoStep
<1>4. CASE UNCHANGED smpvars
  BY <1>4, PollStep
<1> QED
  BY <1>1, <1>2, <1>3, <1>4 DEF SmpNext

LEMMA SmpInvOwnPlace == SmpInv => OwnPlace
<1> SUFFICES ASSUME SmpInv PROVE OwnPlace
  OBVIOUS
<1>1. cpu_count <= Len(info) /\ cpu_count \in Nat
  BY DEF SmpInv, Counted, SmpTypes
<1>2. ASSUME bp = "done", ~late
      PROVE  /\ \A k \in 1 .. cpu_count :
                  \/ info[k] = mach.bsp \/ Alias(k)
                  \/ \A c \in Ids : place[c] = k /\ ap[c] \in {"parked", "kernel"} <=> c = info[k]
             /\ \A c \in Ids : ap[c] \in {"parked", "kernel"} => place[c] \in 1 .. cpu_count /\ (X86 => synced[c])
  <2>1. Standing /\ Owned
    BY <1>2 DEF SmpInv, Orderly
  <2>2. \A c \in Ids : Up(c) => place[c] \in 1 .. cpu_count /\ (X86 => synced[c]) /\ info[place[c]] = c
    BY <1>1, <1>2, <2>1 DEF Standing
  <2>3. \A k \in 1 .. cpu_count : info[k] = mach.bsp \/ Alias(k) \/ (Up(info[k]) /\ place[info[k]] = k)
    BY <2>1 DEF Owned
  <2> QED
    BY <2>2, <2>3 DEF Up
<1> QED
  BY <1>1, <1>2 DEF OwnPlace

(***************************************************************************)
(* The kernel finds at every place it is handed the processor whose id      *)
(* stands there, with the boot processor's MTRRs, and the array of places   *)
(* is never overrun, for every machine whose tables name a processor once   *)
(* and any number of polls (init_smp, smp_start_ap and the trampolines).    *)
(***************************************************************************)
THEOREM SmpOwnPlace == SmpSpec => []OwnPlace
<1>1. SmpInit => SmpInv
  BY SmpStarts
<1>2. SmpInv /\ [SmpNext]_smpvars => SmpInv'
  BY SmpInvariant
<1>3. SmpInv => OwnPlace
  BY SmpInvOwnPlace
<1> QED
  BY <1>1, <1>2, <1>3, PTL DEF SmpSpec

=============================================================================
