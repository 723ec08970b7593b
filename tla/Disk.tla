-------------------------------- MODULE Disk --------------------------------
(***************************************************************************)
(* The PIO driver of ata.c and the ATA device it drives.  A call of the     *)
(* driver runs through its waits: "bsy0" before the command, "bsy" and      *)
(* "drq" before each sector, "xfer" for its 256 words.  A wait gives up     *)
(* after a million reads of the status register, however slow the device    *)
(* is, so that an answer may come after the caller was told of a failure.   *)
(* The device is external: it takes the status BSY with the command.        *)
(***************************************************************************)
EXTENDS Integers, Sequences, FiniteSets

CONSTANTS
  Lba,            \* sectors of the medium, 0 .. size - 1
  Value,          \* contents of a sector
  MaxCount,       \* 128, the longest transfer
  MaxCalls        \* bound on the number of requests

NoRequest == [op |-> "none"]
Nothing   == "nothing"                  \* no sector in the device's buffer

ASSUME DiskAssumption ==
  /\ MaxCount \in Nat \ {0} /\ MaxCalls \in Nat /\ Lba \subseteq Nat
  /\ Value # {} /\ Nothing \notin Value

\* Requests of the file systems: never more sectors than a transfer takes.
Requests ==
  {[op |-> "read", lba |-> l, n |-> n] : l \in Lba, n \in 1 .. MaxCount}
    \cup {[op |-> "write", lba |-> l, n |-> Len(d), data |-> d] :
            l \in Lba, d \in UNION {[1 .. n -> Value] : n \in 1 .. MaxCount}}

VARIABLES
  apc,        \* where the driver waits, "idle" outside a call
  acall,      \* the arguments of the call
  sec,         \* sectors transferred by this call
  abuf,       \* the caller's buffer of a read
  aret,       \* the last return value
  dev,       \* the device: status, command, position, sectors done, buffer
  media,     \* the medium
  acalls      \* requests so far

diskvars == <<apc, acall, sec, abuf, aret, dev, media, acalls>>

DiskInit ==
  /\ apc = "idle" /\ acall = NoRequest /\ sec = 0 /\ abuf = <<>> /\ aret = 0 /\ acalls = 0
  /\ dev = [st |-> "ready", op |-> "none", lba |-> 0, n |-> 0, k |-> 0, latch |-> Nothing]
  /\ media \in [Lba -> {CHOOSE v \in Value : TRUE}]

----------------------------------------------------------------------------
(* The driver.                                                              *)

AtaReturn(r) == apc' = "idle" /\ acall' = NoRequest /\ aret' = r

\* ata_read28 and ata_write28 up to the first wait.
ata_rw28 ==
  /\ apc = "idle" /\ acalls < MaxCalls
  /\ \E r \in Requests : acall' = r
  /\ apc' = "bsy0" /\ sec' = 0 /\ abuf' = <<>> /\ acalls' = acalls + 1
  /\ UNCHANGED <<aret, dev, media>>

\* The registers and the command, as soon as the device is not busy.
AtaCommand ==
  /\ apc = "bsy0" /\ dev.st # "busy"
  /\ dev' = [st |-> "busy", op |-> acall.op, lba |-> acall.lba, n |-> acall.n, k |-> 0, latch |-> Nothing]
  /\ apc' = "bsy" /\ UNCHANGED <<acall, sec, abuf, aret, media, acalls>>

ata_wait_bsy ==
  /\ apc = "bsy" /\ dev.st # "busy"
  /\ apc' = "drq" /\ UNCHANGED <<acall, sec, abuf, aret, dev, media, acalls>>

\* Mutant: an error is taken for a device that is ready.
WaitDrqOnly ==
  /\ apc = "drq" /\ dev.st \in {"drq", "err"}
  /\ apc' = "xfer" /\ UNCHANGED <<acall, sec, abuf, aret, dev, media, acalls>>

ata_wait_drq ==
  /\ apc = "drq" /\ dev.st \in {"drq", "err"}
  /\ IF dev.st = "err" THEN AtaReturn(-3) ELSE apc' = "xfer" /\ UNCHANGED <<acall, aret>>
  /\ UNCHANGED <<sec, abuf, dev, media, acalls>>

\* A million reads of the status register without the answer.
GiveUp ==
  /\ \/ apc = "bsy0" /\ dev.st = "busy" /\ AtaReturn(-1)
     \/ apc = "bsy" /\ dev.st = "busy" /\ AtaReturn(-2)
     \/ apc = "drq" /\ dev.st \in {"busy", "ready"} /\ AtaReturn(-3)
  /\ UNCHANGED <<sec, abuf, dev, media, acalls>>

\* 256 words through the data port; a device that expects none ignores them.
Transfer ==
  /\ apc = "xfer"
  /\ sec' = sec + 1
  /\ IF acall.op = "read"
     THEN /\ abuf' = Append(abuf, IF dev.st = "drq" THEN media[dev.lba + dev.k] ELSE Nothing)
          /\ dev' = IF dev.st = "drq"
                    THEN [dev EXCEPT !.k = @ + 1, !.st = IF dev.k + 1 < dev.n THEN "busy" ELSE "ready"] ELSE dev
     ELSE /\ dev' = IF dev.st = "drq" THEN [dev EXCEPT !.latch = acall.data[sec + 1], !.st = "busy"] ELSE dev
          /\ UNCHANGED abuf
  /\ IF sec + 1 = acall.n THEN AtaReturn(0) ELSE apc' = "bsy" /\ UNCHANGED <<acall, aret>>
  /\ UNCHANGED <<media, acalls>>

----------------------------------------------------------------------------
(* The device (external).                                                   *)

\* The next sector is ready, or there is room for it.
DevReady ==
  /\ dev.st = "busy" /\ dev.latch = Nothing /\ dev.lba + dev.k \in Lba
  /\ dev' = [dev EXCEPT !.st = "drq"] /\ UNCHANGED <<apc, acall, sec, abuf, aret, media, acalls>>

DevCommit ==
  /\ dev.st = "busy" /\ dev.latch # Nothing
  /\ media' = [media EXCEPT ![dev.lba + dev.k] = dev.latch]
  /\ dev' = [dev EXCEPT !.latch = Nothing, !.k = @ + 1,
                        !.st = IF dev.k + 1 = dev.n THEN "ready"
                               ELSE IF dev.lba + dev.k + 1 \in Lba THEN "drq" ELSE "err"]
  /\ UNCHANGED <<apc, acall, sec, abuf, aret, acalls>>

DevFail ==
  /\ dev.st = "busy"
  /\ dev' = [dev EXCEPT !.st = "err", !.latch = Nothing]
  /\ UNCHANGED <<apc, acall, sec, abuf, aret, media, acalls>>

DiskNext ==
  \/ ata_rw28 \/ AtaCommand \/ ata_wait_bsy \/ ata_wait_drq \/ GiveUp \/ Transfer
  \/ DevReady \/ DevCommit \/ DevFail

\* The processor goes on with the call; nothing is asked of the device.
Driver == AtaCommand \/ ata_wait_bsy \/ ata_wait_drq \/ GiveUp \/ Transfer
DiskSpec == DiskInit /\ [][DiskNext]_diskvars /\ WF_diskvars(Driver)

----------------------------------------------------------------------------
(* Properties.                                                              *)

\* The command of the device belongs to the call in progress from Command on.
Active == apc \in {"bsy", "drq", "xfer"}

Store == INSTANCE SectorStore WITH
  store  <- media, req <- acall, got <- abuf,
  landed <- IF Active /\ acall.op = "write" THEN dev.k ELSE 0,
  late   <- IF ~Active /\ dev.latch # Nothing THEN {<<dev.lba + dev.k, dev.latch>>} ELSE {},
  res    <- IF aret = 0 THEN "ok" ELSE "error"

\* ata.c implements the sector store the file systems are written for: errors
\* and timeouts at any wait, and answers that come after them, included.
StoreRefined == Store!StoreSpec

\* Every call returns, whatever the device does: each wait of ata.c is bounded.
CallReturns == apc # "idle" ~> apc = "idle"
=============================================================================
