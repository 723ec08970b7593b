---------------------------- MODULE SectorStore -----------------------------
(***************************************************************************)
(* What the file systems may expect of the disk: one request at a time,     *)
(* sectors land in order and one by one, a request that fails has landed a  *)
(* part of them, and the last sector of a request may land, or be lost,     *)
(* after the request has ended, but never after the next one took effect.   *)
(***************************************************************************)
EXTENDS Integers, Sequences

CONSTANTS Lba, Value, Requests, NoRequest

VARIABLES
  store,     \* the sectors of the medium
  req,       \* the request in progress, or NoRequest
  got,       \* sectors a read has returned so far
  landed,    \* sectors of a write that have landed
  late,      \* at most one sector, <<lba, value>>, still on its way
  res        \* "ok" or "error", of the last request

storevars == <<store, req, got, landed, late, res>>

StoreInit ==
  store \in [Lba -> Value] /\ req = NoRequest /\ got = <<>> /\ landed = 0 /\ late = {} /\ res = "ok"

Sector(i) == <<req.lba + i - 1, req.data[i]>>
Write(c) == [store EXCEPT ![c[1]] = c[2]]

Begin ==
  /\ req = NoRequest
  /\ req' \in Requests
  /\ got' = <<>> /\ landed' = 0 /\ UNCHANGED <<store, late, res>>

\* The next sector of a write reaches the medium, or the next one of a read
\* the caller; not before a late one has settled.
Land ==
  /\ req # NoRequest /\ req.op = "write" /\ late = {} /\ landed < req.n /\ req.lba + landed \in Lba
  /\ store' = Write(Sector(landed + 1)) /\ landed' = landed + 1
  /\ UNCHANGED <<req, got, late, res>>
Fetch ==
  /\ req # NoRequest /\ req.op = "read" /\ late = {} /\ Len(got) < req.n
  /\ req.lba + Len(got) \in Lba
  /\ got' = Append(got, store[req.lba + Len(got)])
  /\ UNCHANGED <<store, req, landed, late, res>>

Settle ==
  /\ late # {}
  /\ late' = {}
  /\ (store' = store \/ \E c \in late : store' = Write(c))
  /\ UNCHANGED <<req, got, landed, res>>

\* A read has all its sectors, a write all but perhaps the last.
EndOk ==
  /\ req # NoRequest /\ late = {}
  /\ IF req.op = "read" THEN Len(got) = req.n /\ late' = {}
     ELSE landed >= req.n - 1 /\ late' = {Sector(i) : i \in landed + 1 .. req.n}
  /\ req' = NoRequest /\ res' = "ok" /\ landed' = 0 /\ UNCHANGED <<store, got>>

EndError ==
  /\ req # NoRequest
  /\ \/ late' = late
     \/ late = {} /\ req.op = "write" /\ landed < req.n /\ late' = {Sector(landed + 1)}
  /\ req' = NoRequest /\ res' = "error" /\ landed' = 0 /\ UNCHANGED <<store, got>>

\* A read whose last sector arrives and that ends in the same step.
FetchLast ==
  /\ req # NoRequest /\ req.op = "read" /\ late = {} /\ Len(got) = req.n - 1
  /\ req.lba + Len(got) \in Lba
  /\ got' = Append(got, store[req.lba + Len(got)])
  /\ req' = NoRequest /\ res' = "ok" /\ landed' = 0 /\ UNCHANGED <<store, late>>

StoreNext == Begin \/ Land \/ Fetch \/ FetchLast \/ Settle \/ EndOk \/ EndError
StoreSpec == StoreInit /\ [][StoreNext]_storevars
=============================================================================
