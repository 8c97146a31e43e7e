------------------------------- MODULE IDGen -------------------------------
(***************************************************************************)
(* The inode id generator, IDGen<InodeID>, and the thread of IDGenMgr that  *)
(* moves it forward with the clock (namenode/common/id_gen.{h,cc}), started *)
(* by NameNodeCtx with timestamp 0, node id 0 and clock sequence 0.         *)
(*                                                                          *)
(* The 64-bit counter id_ is the record of its bit fields.  timestamp is    *)
(* the lowest field, so fetch_add(1) increments it and carries upwards.     *)
(* The clock counts milliseconds, as IDGenMgr computes them from NowNs, and *)
(* what is left after subtracting kEpochTimestampSeconds is truncated to    *)
(* the width of timestamp: it wraps.                                        *)
(*                                                                          *)
(* Next is a single atomic instruction; Update loads id_, decides, and      *)
(* stores, so calls of Next can fall between its load and its store.  The   *)
(* environment is free: requests arrive at any rate and, as nothing in the  *)
(* server waits for IDGenMgr, before the first Update too; the clock jumps  *)
(* forwards and backwards; the server restarts.                             *)
(***************************************************************************)
EXTENDS Integers, Sequences

CONSTANTS
    TimestampMod,               \* 2^kTimestampBits
    kEpochTimestampSeconds,
    MaxClock, MaxTurns, MaxIDs, MaxRestarts   \* bounds of a behaviour

ASSUME IDGenAssumption ==
    /\ TimestampMod \in Nat \ {0, 1}
    /\ kEpochTimestampSeconds \in Nat
    /\ MaxClock \in Nat
    /\ MaxTurns \in Nat
    /\ MaxIDs \in Nat
    /\ MaxRestarts \in Nat

VARIABLES
    id_,        \* IDGen::id_
    up,         \* FALSE once a CHECK has failed: the server has stopped
    pc,         \* where the thread of IDGenMgr is: asleep, stamped or loaded
    stamp,      \* current_timestamp_seconds, as Update receives it
    loaded,     \* raw_id in Update
    clock,      \* milliseconds of the system clock
    restarts

\* History variables, which no action reads but to extend them.
VARIABLES
    issued,     \* every id that Next returned, over all restarts, and how it came about
    updated,    \* this server has completed an Update
    overtaken,  \* the highest counter that a store of this server fell behind
    turns       \* how often the clock's stamp went down: set back, or wrapped

vars == <<id_, up, pc, stamp, loaded, clock, restarts, issued, updated, overtaken, turns>>

\* Four bits each for node_id and clock_sequence.
Nibble == 16
ID == [timestamp : 0..TimestampMod - 1, node_id : 0..Nibble - 1,
       clock_sequence : 0..Nibble - 1, auto_increment_id : Nat]
IDAt(ts) == [timestamp |-> ts, node_id |-> 0, clock_sequence |-> 0, auto_increment_id |-> 0]
kMaxAutoIncrementID == 10000000

\* What id_.fetch_add(1) leaves in id_.
FetchAdd(id) ==
    IF id.timestamp + 1 < TimestampMod THEN [id EXCEPT !.timestamp = @ + 1]
    ELSE IF id.node_id + 1 < Nibble
    THEN [id EXCEPT !.timestamp = 0, !.node_id = @ + 1]
    ELSE IF id.clock_sequence + 1 < Nibble
    THEN [id EXCEPT !.timestamp = 0, !.node_id = 0, !.clock_sequence = @ + 1]
    ELSE [timestamp |-> 0, node_id |-> 0, clock_sequence |-> 0,
          auto_increment_id |-> id.auto_increment_id + 1]

\* Mutant: only the overrun of the auto-increment field is looked at.
ChecksAutoIncrement(id) == id.auto_increment_id < kMaxAutoIncrementID

\* The CHECKs of Next and of Update.
ChecksPass(id) ==
    /\ id.node_id = 0
    /\ id.clock_sequence = 0
    /\ id.auto_increment_id < kMaxAutoIncrementID

\* The CHECK of IDGenMgr on the time it reads, and what of that time fits into a timestamp.
AfterEpoch(c) == c > kEpochTimestampSeconds
StampOf(c) == IF AfterEpoch(c) THEN (c - kEpochTimestampSeconds) % TimestampMod ELSE 0

----------------------------------------------------------------------------
\* The constructor calls Update(0), which finds timestamp 0 and returns.
Init ==
    /\ id_ = IDAt(0)
    /\ up = TRUE
    /\ pc = "asleep"
    /\ stamp = 0
    /\ loaded = IDAt(0)
    /\ clock \in 0..MaxClock
    /\ restarts = 0
    /\ issued = <<>>
    /\ updated = FALSE
    /\ overtaken = 0
    /\ turns = 0

\* An id as Next returns it: by which server, whether that has completed an
\* Update, in which turn of the clock, whether the id is beyond the clock's
\* stamp, and whether a store of Update fell behind it.
Issue(id) ==
    [id |-> id, server |-> restarts, settled |-> updated, turn |-> turns,
     ahead |-> id.timestamp > StampOf(clock), behind |-> id.timestamp <= overtaken]

\* Next: a failed CHECK leaves the incremented counter behind and stops the server.
NextID ==
    LET id == FetchAdd(id_) IN
    /\ up
    /\ Len(issued) < MaxIDs
    /\ id_' = id
    /\ up' = ChecksPass(id)
    /\ issued' = IF ChecksPass(id) THEN Append(issued, Issue(id)) ELSE issued
    /\ UNCHANGED <<pc, stamp, loaded, clock, restarts, updated, overtaken, turns>>

\* IDGenMgr wakes up, reads the clock, and stops the server before the epoch.
ReadClock ==
    /\ up
    /\ pc = "asleep"
    /\ up' = AfterEpoch(clock)
    /\ pc' = "stamped"
    /\ stamp' = StampOf(clock)
    /\ UNCHANGED <<id_, loaded, clock, restarts, issued, updated, overtaken, turns>>

\* Mutant: there is no early return.
NeverReturns(id) == FALSE

\* Update returns early when the id is not behind the time.
NotBehind(id) == id.timestamp >= stamp

\* Update up to its early return: id_.load(), the CHECKs and the comparison.
UpdateLoad ==
    /\ up
    /\ pc = "stamped"
    /\ up' = ChecksPass(id_)
    /\ pc' = IF NotBehind(id_) THEN "asleep" ELSE "loaded"
    /\ updated' = (updated \/ NotBehind(id_))
    /\ loaded' = id_
    /\ UNCHANGED <<id_, stamp, clock, restarts, issued, overtaken, turns>>

\* Mutant: only the auto-increment field is reset.
UpdatedIDKeepsTime(id) == [id EXCEPT !.auto_increment_id = 0]

UpdatedID(id) == [id EXCEPT !.timestamp = stamp, !.auto_increment_id = 0]

\* The load found the counter behind the stamp, and calls of Next have passed it since.
Overtakes == loaded.timestamp < stamp /\ stamp < id_.timestamp

\* The rest of Update: id_ is overwritten with what the load saw, moved to the stamp.
UpdateStore ==
    /\ up
    /\ pc = "loaded"
    /\ pc' = "asleep"
    /\ id_' = UpdatedID(loaded)
    /\ updated' = TRUE
    /\ overtaken' = IF Overtakes /\ id_.timestamp > overtaken THEN id_.timestamp ELSE overtaken
    /\ UNCHANGED <<up, stamp, loaded, clock, restarts, issued, turns>>

\* NowNs reads system_clock: time passes, and an administrator or NTP sets the clock.
ClockMoves(c) ==
    /\ c # clock
    /\ clock' = c
    /\ turns' = IF StampOf(c) < StampOf(clock) THEN turns + 1 ELSE turns
    /\ turns' <= MaxTurns
    /\ UNCHANGED <<id_, up, pc, stamp, loaded, restarts, issued, updated, overtaken>>

\* The server stops, or has stopped, and a new one constructs its generator.
Restart ==
    /\ restarts < MaxRestarts
    /\ restarts' = restarts + 1
    /\ id_' = IDAt(0)
    /\ up' = TRUE
    /\ pc' = "asleep"
    /\ stamp' = 0
    /\ loaded' = IDAt(0)
    /\ updated' = FALSE
    /\ overtaken' = 0
    /\ UNCHANGED <<clock, issued, turns>>

\* The thread of IDGenMgr: an endless loop with a sleep of a second.
Mgr == ReadClock \/ UpdateLoad \/ UpdateStore

Next ==
    \/ NextID
    \/ Mgr
    \/ \E c \in 0..MaxClock : ClockMoves(c)
    \/ Restart

Spec == Init /\ [][Next]_vars

\* The operating system keeps running the thread of IDGenMgr.
FairSpec == Spec /\ WF_vars(Mgr)

----------------------------------------------------------------------------
Issued == [id : ID, server : Nat, settled : BOOLEAN, turn : Nat,
           ahead : BOOLEAN, behind : BOOLEAN]

TypeOK ==
    /\ id_ \in ID
    /\ up \in BOOLEAN
    /\ pc \in {"asleep", "stamped", "loaded"}
    /\ stamp \in 0..TimestampMod - 1
    /\ loaded \in ID
    /\ clock \in 0..MaxClock
    /\ restarts \in 0..MaxRestarts
    /\ issued \in Seq(Issued)
    /\ updated \in BOOLEAN
    /\ overtaken \in 0..TimestampMod - 1
    /\ turns \in 0..MaxTurns

\* The ids that Next returns differ in their timestamps only, and none is zero:
\* an increment that carries out of the timestamp never reaches a handler.
PlainIDs == \A i \in 1..Len(issued) : \E ts \in 1..TimestampMod - 1 : issued[i].id = IDAt(ts)

\* No two calls of Next return the same id.
UniqueIDs == \A i, j \in 1..Len(issued) : i # j => issued[i].id # issued[j].id

\* Time-based ordering, and the four things that break it.  An id is larger than
\* every id the same server issued before it, unless an Update that had loaded
\* the counter stored its stamp below that id meanwhile.  It is larger than every
\* id of an earlier server, unless it was issued before the first Update of its
\* own server, the earlier id was ahead of the clock, or the clock's stamp has
\* gone down between the two.
OrderKept ==
    \A i, j \in 1..Len(issued) : i < j =>
        \/ issued[i].id.timestamp < issued[j].id.timestamp
        \/ issued[i].server = issued[j].server /\ issued[j].behind
        \/ /\ issued[i].server # issued[j].server
           /\ ~issued[j].settled \/ issued[i].ahead \/ issued[i].turn # issued[j].turn

\* A generator that is behind the clock's stamp catches up with it, unless the
\* stamp goes down or a CHECK stops the server, whatever Next calls and restarts
\* fall between the steps of Update.
CatchesUp ==
    \A s \in 0..TimestampMod - 1 :
        StampOf(clock) = s ~> id_.timestamp >= s \/ StampOf(clock) < s \/ ~up
============================================================================
