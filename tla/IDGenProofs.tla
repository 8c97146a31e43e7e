----------------------------- MODULE IDGenProofs -----------------------------
(***************************************************************************)
(* Machine-checked proofs about IDGen, for any width of the timestamp, any  *)
(* clock, any rate of requests and any number of ids and restarts.          *)
(***************************************************************************)
EXTENDS IDGen, SequenceTheorems, TLAPS

\* An id whose node, clock sequence and auto-increment fields are all zero:
\* the only ids a server that has not failed a CHECK holds.
Plain(id) ==
    /\ id \in ID
    /\ id.node_id = 0 /\ id.clock_sequence = 0 /\ id.auto_increment_id = 0

\* Incrementing a plain id moves its timestamp by one, or carries into node_id
\* and fails the CHECKs.
LEMMA FetchAddPlain ==
    ASSUME NEW id, Plain(id)
    PROVE  /\ FetchAdd(id) \in ID
           /\ ChecksPass(FetchAdd(id)) =>
                 Plain(FetchAdd(id)) /\ FetchAdd(id).timestamp = id.timestamp + 1
<1> USE IDGenAssumption DEF Plain, ID, Nibble
<1>1. CASE id.timestamp + 1 < TimestampMod
  <2>1. FetchAdd(id) = [id EXCEPT !.timestamp = id.timestamp + 1]
    BY <1>1 DEF FetchAdd
  <2> QED
    BY <1>1, <2>1
<1>2. CASE ~(id.timestamp + 1 < TimestampMod)
  <2>1. FetchAdd(id) = [id EXCEPT !.timestamp = 0, !.node_id = 1]
    BY <1>2 DEF FetchAdd
  <2>2. 0 \in 0..TimestampMod - 1 /\ 1 \in 0..Nibble - 1
    OBVIOUS
  <2>3. FetchAdd(id) \in ID
    BY <2>1, <2>2, Zenon
  <2>4. ~ChecksPass(FetchAdd(id))
    BY <2>1 DEF ChecksPass
  <2> QED
    BY <2>3, <2>4
<1> QED
  BY <1>1, <1>2

\* What Update stores over a plain id is the plain id of its stamp.
LEMMA UpdatedPlain ==
    ASSUME NEW id, Plain(id), stamp \in 0..TimestampMod - 1
    PROVE  Plain(UpdatedID(id)) /\ UpdatedID(id).timestamp = stamp
BY IDGenAssumption, Zenon DEF Plain, UpdatedID, ID

\* The id that a generator starts with.
LEMMA ZeroPlain == IDAt(0) \in ID /\ Plain(IDAt(0))
<1>1. 0 \in 0..TimestampMod - 1 /\ 0 \in 0..Nibble - 1 /\ 0 \in Nat
  BY IDGenAssumption DEF Nibble
<1>2. IDAt(0) \in ID
  BY <1>1, Zenon DEF IDAt, ID
<1> QED
  BY <1>2, Zenon DEF IDAt, Plain

\* Timestamps of ids are natural numbers below TimestampMod.
LEMMA TimestampTyped == \A id \in ID : id.timestamp \in 0..TimestampMod - 1
BY DEF ID

\* The stamp of a time fits into a timestamp.
LEMMA StampTyped ==
    ASSUME NEW c \in Nat
    PROVE  StampOf(c) \in 0..TimestampMod - 1
BY IDGenAssumption DEF StampOf, AfterEpoch

\* An id that is plain and not zero is the id of its timestamp.
LEMMA PlainIsIDAt ==
    ASSUME NEW id, Plain(id), id.timestamp >= 1
    PROVE  \E ts \in 1..TimestampMod - 1 : id = IDAt(ts)
<1>1. id.timestamp \in 1..TimestampMod - 1
  BY IDGenAssumption DEF Plain, ID
<1>2. id = IDAt(id.timestamp)
  BY Zenon DEF Plain, ID, IDAt
<1> QED
  BY <1>1, <1>2

----------------------------------------------------------------------------
\* s has passed the ids of earlier servers that were within the clock's stamp
\* when they were issued, in the present turn of the clock.
Passed(s) ==
    \A i \in 1..Len(issued) :
        /\ issued[i].server # restarts
        /\ ~issued[i].ahead
        /\ issued[i].turn = turns
        => issued[i].id.timestamp <= s

\* The inductive invariant.  A server that is up holds a plain id, also between
\* the load and the store of an Update, and plain ids are all it issues.  The
\* clock's stamp covers the ids of its turn that were not ahead of it; hence so
\* does a stamp once read, and the counter once an Update is through.  The ids of
\* this server are below its counter, or below one that a store overtook.
OrderInv ==
    /\ TypeOK
    /\ up => Plain(id_)
    /\ up /\ pc = "loaded" => Plain(loaded) /\ loaded.timestamp < stamp
    /\ \A i \in 1..Len(issued) :
          /\ Plain(issued[i].id) /\ issued[i].id.timestamp >= 1
          /\ issued[i].server <= restarts
          /\ issued[i].turn <= turns
          /\ ~issued[i].ahead /\ issued[i].turn = turns =>
                issued[i].id.timestamp <= StampOf(clock)
          /\ up /\ issued[i].server = restarts =>
                \/ issued[i].id.timestamp <= id_.timestamp
                \/ issued[i].id.timestamp <= overtaken
    /\ up /\ pc # "asleep" => Passed(stamp)
    /\ up /\ updated => Passed(id_.timestamp)
    /\ OrderKept

LEMMA OrderInit == Init => OrderInv
<1> SUFFICES ASSUME Init PROVE OrderInv
  OBVIOUS
<1>1. IDAt(0) \in ID /\ Plain(IDAt(0))
  BY ZeroPlain
<1>2. issued \in Seq(Issued) /\ Len(issued) = 0
  BY DEF Init
<1>3. /\ stamp \in 0..TimestampMod - 1 /\ restarts \in 0..MaxRestarts
      /\ overtaken \in 0..TimestampMod - 1 /\ turns \in 0..MaxTurns
  BY IDGenAssumption DEF Init
<1>4. TypeOK
  BY <1>1, <1>2, <1>3, Zenon DEF Init, TypeOK
<1>5. OrderKept /\ ~updated /\ pc = "asleep" /\ Plain(id_)
  BY <1>1, <1>2 DEF Init, OrderKept
<1> QED
  BY <1>2, <1>4, <1>5 DEF OrderInv

\* A step that issues nothing, within one server and one turn of the clock or
\* into a new one, keeps what is said of each issued id when it keeps the
\* counter, or moves it as Update does.
LEMMA QuietStep ==
    ASSUME OrderInv, TypeOK', issued' = issued,
           up' => up,
           restarts' = restarts,
           up' => Plain(id_'),
           up' /\ pc' = "loaded" => Plain(loaded') /\ loaded'.timestamp < stamp',
           \/ turns' = turns /\ StampOf(clock) <= StampOf(clock')
           \/ turns < turns',
           up' => \A i \in 1..Len(issued) :
                     issued[i].server = restarts =>
                        \/ issued[i].id.timestamp <= id_'.timestamp
                        \/ issued[i].id.timestamp <= overtaken',
           up' /\ pc' # "asleep" => Passed(stamp)' ,
           up' /\ updated' => Passed(id_.timestamp)'
    PROVE  OrderInv'
<1>1. /\ StampOf(clock) \in Nat /\ StampOf(clock') \in Nat
      /\ turns \in Nat /\ turns' \in Nat
  <2>1. clock \in Nat /\ clock' \in Nat
    BY IDGenAssumption DEF OrderInv, TypeOK
  <2>2. StampOf(clock) \in 0..TimestampMod - 1 /\ StampOf(clock') \in 0..TimestampMod - 1
    BY <2>1, StampTyped, Zenon
  <2>3. turns \in 0..MaxTurns /\ turns' \in 0..MaxTurns
    BY DEF OrderInv, TypeOK
  <2> QED
    BY <2>2, <2>3, IDGenAssumption
<1>2. OrderKept'
  BY DEF OrderInv, OrderKept
<1>3. ASSUME NEW i \in 1..Len(issued)
      PROVE  /\ Plain(issued[i].id) /\ issued[i].id.timestamp >= 1
             /\ issued[i].server <= restarts
             /\ issued[i].turn <= turns'
             /\ ~issued[i].ahead /\ issued[i].turn = turns' =>
                   issued[i].id.timestamp <= StampOf(clock')
  <2>1. /\ Plain(issued[i].id) /\ issued[i].id.timestamp >= 1
        /\ issued[i].server <= restarts
        /\ issued[i].turn <= turns
        /\ ~issued[i].ahead /\ issued[i].turn = turns =>
              issued[i].id.timestamp <= StampOf(clock)
    BY DEF OrderInv
  <2>2. issued[i].turn \in Nat
    <3>1. issued[i] \in Issued
      BY ElementOfSeq DEF OrderInv, TypeOK
    <3> QED
      BY <3>1 DEF Issued
  <2>3. issued[i].id.timestamp \in Nat
    BY <2>1, IDGenAssumption DEF Plain, ID
  <2> QED
    BY <1>1, <2>1, <2>2, <2>3
<1> QED
  BY <1>2, <1>3 DEF OrderInv

LEMMA OrderStep ==
    ASSUME OrderInv, [Next]_vars
    PROVE  OrderInv'
<1> USE IDGenAssumption
<1>0. /\ id_ \in ID /\ up \in BOOLEAN /\ pc \in {"asleep", "stamped", "loaded"}
      /\ stamp \in 0..TimestampMod - 1 /\ loaded \in ID
      /\ clock \in 0..MaxClock /\ restarts \in 0..MaxRestarts
      /\ issued \in Seq(Issued) /\ Len(issued) \in Nat
      /\ updated \in BOOLEAN /\ overtaken \in 0..TimestampMod - 1 /\ turns \in 0..MaxTurns
  BY DEF OrderInv, TypeOK
<1>a. /\ id_.timestamp \in Nat /\ loaded.timestamp \in Nat /\ stamp \in Nat
      /\ overtaken \in Nat /\ StampOf(clock) \in Nat /\ turns \in Nat
      /\ StampOf(clock) \in 0..TimestampMod - 1
  BY <1>0, StampTyped, TimestampTyped
<1>b. \A i \in 1..Len(issued) :
         /\ issued[i] \in Issued /\ issued[i].id \in ID
         /\ issued[i].id.timestamp \in Nat /\ issued[i].server \in Nat
  <2>1. \A i \in 1..Len(issued) : issued[i] \in Issued
    BY <1>0, ElementOfSeq
  <2>2. \A r \in Issued : r.id \in ID /\ r.server \in Nat
    BY DEF Issued
  <2> QED
    BY <2>1, <2>2, TimestampTyped
<1>1. CASE NextID
  <2> DEFINE id == FetchAdd(id_)
             r == Issue(id)
  <2>1. /\ up /\ Plain(id_) /\ id_' = id /\ up' = ChecksPass(id)
        /\ issued' = IF ChecksPass(id) THEN Append(issued, r) ELSE issued
        /\ UNCHANGED <<pc, stamp, loaded, clock, restarts, updated, overtaken, turns>>
    BY <1>1 DEF NextID, OrderInv
  <2>2. id \in ID /\ (ChecksPass(id) => Plain(id) /\ id.timestamp = id_.timestamp + 1)
    BY <2>1, FetchAddPlain
  <2>3. up' \in BOOLEAN
    BY <2>1 DEF ChecksPass
  <2>r. /\ r.id = id /\ r.server = restarts /\ r.settled = updated /\ r.turn = turns
        /\ r.ahead = (id.timestamp > StampOf(clock))
        /\ r.behind = (id.timestamp <= overtaken)
    BY DEF Issue
  <2>s. r \in Issued
    <3>1. /\ restarts \in Nat /\ turns \in Nat
          /\ (id.timestamp > StampOf(clock)) \in BOOLEAN
          /\ (id.timestamp <= overtaken) \in BOOLEAN
      BY <1>0
    <3> QED
      BY <1>0, <2>2, <3>1, Zenon DEF Issue, Issued
  <2> HIDE DEF id, r
  <2>4. CASE ~ChecksPass(id)
    <3>1. ~up' /\ issued' = issued
      BY <2>1, <2>4
    <3>2. TypeOK'
      BY <1>0, <2>1, <2>2, <2>3, <3>1 DEF TypeOK
    <3> QED
      BY <1>a, <2>1, <3>1, <3>2, QuietStep
  <2>5. CASE ChecksPass(id)
    <3>1. /\ Plain(id) /\ id.timestamp = id_.timestamp + 1 /\ id.timestamp \in Nat
          /\ issued' = Append(issued, r) /\ up'
      BY <1>a, <2>1, <2>2, <2>5
    <3>2. /\ issued' \in Seq(Issued)
          /\ Len(issued') = Len(issued) + 1
          /\ \A i \in 1..Len(issued) : issued'[i] = issued[i]
          /\ issued'[Len(issued) + 1] = r
      BY <1>0, <2>s, <3>1, AppendProperties
    <3>3. TypeOK'
      BY <1>0, <2>1, <2>2, <2>3, <3>2 DEF TypeOK
    <3>4. \A i \in 1..Len(issued') : i \in 1..Len(issued) \/ i = Len(issued) + 1
      BY <1>0, <3>2
    <3>5. ASSUME NEW i \in 1..Len(issued')
          PROVE  /\ Plain(issued'[i].id) /\ issued'[i].id.timestamp >= 1
                 /\ issued'[i].server <= restarts
                 /\ issued'[i].turn <= turns
                 /\ ~issued'[i].ahead /\ issued'[i].turn = turns =>
                       issued'[i].id.timestamp <= StampOf(clock)
                 /\ issued'[i].server = restarts =>
                       \/ issued'[i].id.timestamp <= id.timestamp
                       \/ issued'[i].id.timestamp <= overtaken
      <4>1. CASE i \in 1..Len(issued)
        <5>1. /\ Plain(issued[i].id) /\ issued[i].id.timestamp >= 1
              /\ issued[i].server <= restarts
              /\ issued[i].turn <= turns
              /\ ~issued[i].ahead /\ issued[i].turn = turns =>
                    issued[i].id.timestamp <= StampOf(clock)
              /\ issued[i].server = restarts =>
                    \/ issued[i].id.timestamp <= id_.timestamp
                    \/ issued[i].id.timestamp <= overtaken
          BY <2>1, <4>1 DEF OrderInv
        <5>2. issued[i].id.timestamp <= id_.timestamp => issued[i].id.timestamp <= id.timestamp
          BY <1>a, <1>b, <3>1, <4>1
        <5>3. issued'[i] = issued[i]
          BY <3>2, <4>1
        <5> QED
          BY <5>1, <5>2, <5>3, Zenon
      <4>2. CASE i = Len(issued) + 1
        <5>1. issued'[i] = r
          BY <3>2, <4>2
        <5>2. /\ restarts <= restarts /\ turns <= turns /\ id.timestamp >= 1
              /\ id.timestamp <= id.timestamp
              /\ ~(id.timestamp > StampOf(clock)) => id.timestamp <= StampOf(clock)
          BY <1>0, <1>a, <3>1
        <5> QED
          BY <2>r, <3>1, <5>1, <5>2, Zenon
      <4> QED
        BY <3>4, <4>1, <4>2
    <3>6. ASSUME NEW s, Passed(s)
          PROVE  Passed(s)'
      <4> SUFFICES ASSUME NEW i \in 1..Len(issued'), issued'[i].server # restarts,
                          ~issued'[i].ahead, issued'[i].turn = turns
                   PROVE  issued'[i].id.timestamp <= s
        BY <2>1 DEF Passed
      <4>1. i # Len(issued) + 1
        BY <2>r, <3>2
      <4>2. i \in 1..Len(issued) /\ issued'[i] = issued[i]
        BY <3>2, <3>4, <4>1
      <4> QED
        BY <3>6, <4>2, Zenon DEF Passed
    <3>7. pc' # "asleep" => Passed(stamp)'
      BY <2>1, <3>6 DEF OrderInv, Passed
    <3>8. updated' => Passed(id_.timestamp)'
      <4> SUFFICES ASSUME updated'
                   PROVE  Passed(id_.timestamp)'
        OBVIOUS
      <4>1. Passed(id_.timestamp)
        BY <2>1 DEF OrderInv
      <4>2. Passed(id.timestamp)
        BY <1>a, <1>b, <3>1, <4>1 DEF Passed
      <4> QED
        BY <2>1, <3>6, <4>2 DEF Passed
    <3>9. OrderKept'
      <4> SUFFICES ASSUME NEW i \in 1..Len(issued'), NEW j \in 1..Len(issued'), i < j
                   PROVE  \/ issued'[i].id.timestamp < issued'[j].id.timestamp
                          \/ issued'[i].server = issued'[j].server /\ issued'[j].behind
                          \/ /\ issued'[i].server # issued'[j].server
                             /\ \/ ~issued'[j].settled \/ issued'[i].ahead
                                \/ issued'[i].turn # issued'[j].turn
        BY DEF OrderKept
      <4>1. i \in 1..Len(issued) /\ issued'[i] = issued[i]
        BY <1>0, <3>2
      <4>2. CASE j \in 1..Len(issued)
        <5>1. issued'[j] = issued[j]
          BY <3>2, <4>2
        <5> QED
          BY <4>1, <4>2, <5>1, Zenon DEF OrderInv, OrderKept
      <4>3. CASE j = Len(issued) + 1
        <5>1. issued'[j] = r
          BY <3>2, <4>3
        <5>t. issued[i].id.timestamp \in Nat
          BY <1>b, <4>1
        <5>2. CASE issued[i].server = restarts
          <6>1. \/ issued[i].id.timestamp <= id_.timestamp
                \/ issued[i].id.timestamp <= overtaken
            BY <2>1, <4>1, <5>2 DEF OrderInv
          <6>2. issued[i].id.timestamp < id.timestamp \/ id.timestamp <= overtaken
            BY <1>a, <3>1, <5>t, <6>1
          <6> QED
            BY <2>r, <4>1, <5>1, <5>2, <6>2, Zenon
        <5>3. CASE issued[i].server # restarts
          <6>1. CASE updated /\ ~issued[i].ahead /\ issued[i].turn = turns
            <7>1. issued[i].id.timestamp <= id_.timestamp
              BY <2>1, <4>1, <5>3, <6>1, Zenon DEF OrderInv, Passed
            <7>2. issued[i].id.timestamp < id.timestamp
              BY <1>a, <3>1, <5>t, <7>1
            <7> QED
              BY <2>r, <4>1, <5>1, <7>2
          <6>2. CASE ~updated \/ issued[i].ahead \/ issued[i].turn # turns
            BY <2>r, <4>1, <5>1, <5>3, <6>2
          <6> QED
            BY <6>1, <6>2
        <5> QED
          BY <5>2, <5>3
      <4> QED
        BY <3>4, <4>2, <4>3
    <3>10. up' /\ pc' = "loaded" => Plain(loaded') /\ loaded'.timestamp < stamp'
      BY <2>1 DEF OrderInv
    <3>11. \A i \in 1..Len(issued') :
              /\ Plain(issued'[i].id) /\ issued'[i].id.timestamp >= 1
              /\ issued'[i].server <= restarts'
              /\ issued'[i].turn <= turns'
              /\ ~issued'[i].ahead /\ issued'[i].turn = turns' =>
                    issued'[i].id.timestamp <= StampOf(clock')
              /\ up' /\ issued'[i].server = restarts' =>
                    \/ issued'[i].id.timestamp <= id_'.timestamp
                    \/ issued'[i].id.timestamp <= overtaken'
      BY <2>1, <3>5, Zenon
    <3> QED
      BY <2>1, <3>1, <3>3, <3>7, <3>8, <3>9, <3>10, <3>11 DEF OrderInv
  <2> QED
    BY <2>4, <2>5
<1>2. CASE ReadClock
  <2>1. /\ up /\ pc = "asleep" /\ up' = AfterEpoch(clock) /\ pc' = "stamped"
        /\ stamp' = StampOf(clock)
        /\ UNCHANGED <<id_, loaded, clock, restarts, issued, updated, overtaken, turns>>
    BY <1>2 DEF ReadClock
  <2>2. TypeOK'
    BY <1>0, <1>a, <2>1 DEF TypeOK, AfterEpoch
  <2>3. Passed(stamp)'
    <3>1. \A i \in 1..Len(issued) : ~issued[i].ahead /\ issued[i].turn = turns =>
                 issued[i].id.timestamp <= StampOf(clock)
      BY DEF OrderInv
    <3> QED
      BY <2>1, <3>1 DEF Passed
  <2>4. updated' => Passed(id_.timestamp)'
    BY <2>1 DEF OrderInv, Passed
  <2>5. \A i \in 1..Len(issued) : issued[i].server = restarts =>
                        \/ issued[i].id.timestamp <= id_'.timestamp
                        \/ issued[i].id.timestamp <= overtaken'
    BY <2>1 DEF OrderInv
  <2>6. Plain(id_')
    BY <2>1 DEF OrderInv
  <2> QED
    BY <1>a, <2>1, <2>2, <2>3, <2>4, <2>5, <2>6, QuietStep
<1>3. CASE UpdateLoad
  <2>1. /\ up /\ pc = "stamped" /\ up' = ChecksPass(id_)
        /\ pc' = IF NotBehind(id_) THEN "asleep" ELSE "loaded"
        /\ updated' = (updated \/ NotBehind(id_))
        /\ loaded' = id_
        /\ UNCHANGED <<id_, stamp, clock, restarts, issued, overtaken, turns>>
    BY <1>3 DEF UpdateLoad
  <2>2. TypeOK'
    BY <1>0, <2>1 DEF TypeOK, ChecksPass, NotBehind
  <2>3. Plain(id_) /\ Passed(stamp)
    BY <2>1 DEF OrderInv
  <2>4. pc' = "loaded" => loaded'.timestamp < stamp'
    BY <1>a, <2>1 DEF NotBehind
  <2>5. updated' => Passed(id_.timestamp)
    <3>1. CASE updated
      BY <2>1, <3>1 DEF OrderInv
    <3>2. CASE NotBehind(id_)
      <4>1. \A n \in Nat : n <= stamp => n <= id_.timestamp
        BY <1>a, <3>2 DEF NotBehind
      <4> QED
        BY <1>b, <2>3, <4>1, Zenon DEF Passed
    <3> QED
      BY <2>1, <3>1, <3>2
  <2>6. Passed(stamp)' /\ (updated' => Passed(id_.timestamp)')
    BY <2>1, <2>3, <2>5 DEF Passed
  <2>7. \A i \in 1..Len(issued) : issued[i].server = restarts =>
                        \/ issued[i].id.timestamp <= id_'.timestamp
                        \/ issued[i].id.timestamp <= overtaken'
    BY <2>1 DEF OrderInv
  <2> QED
    BY <1>a, <2>1, <2>2, <2>3, <2>4, <2>6, <2>7, QuietStep
<1>4. CASE UpdateStore
  <2>1. /\ up /\ pc = "loaded" /\ pc' = "asleep" /\ id_' = UpdatedID(loaded) /\ updated' = TRUE
        /\ overtaken' = IF Overtakes /\ id_.timestamp > overtaken
                        THEN id_.timestamp ELSE overtaken
        /\ UNCHANGED <<up, stamp, loaded, clock, restarts, issued, turns>>
    BY <1>4 DEF UpdateStore
  <2>2. Plain(id_') /\ id_' \in ID /\ id_'.timestamp = stamp /\ loaded.timestamp < stamp
    BY <1>0, <2>1, UpdatedPlain DEF OrderInv, Plain
  <2>3. TypeOK'
    BY <1>0, <2>1, <2>2, TimestampTyped DEF TypeOK
  <2>4. Passed(id_.timestamp)'
    <3>1. Passed(stamp)
      BY <2>1 DEF OrderInv
    <3> QED
      BY <2>1, <2>2, <3>1 DEF Passed
  <2>5. ASSUME NEW i \in 1..Len(issued), issued[i].server = restarts
        PROVE  \/ issued[i].id.timestamp <= id_'.timestamp
               \/ issued[i].id.timestamp <= overtaken'
    <3>1. \/ issued[i].id.timestamp <= id_.timestamp
          \/ issued[i].id.timestamp <= overtaken
      BY <2>1, <2>5 DEF OrderInv
    <3>2. issued[i].id.timestamp \in Nat
      BY <1>b
    <3>3. \/ id_.timestamp <= stamp /\ overtaken' = overtaken
          \/ id_.timestamp <= overtaken' /\ overtaken <= overtaken' /\ overtaken' \in Nat
      BY <1>a, <2>1, <2>2 DEF Overtakes
    <3> QED
      BY <1>a, <2>2, <3>1, <3>2, <3>3
  <2> QED
    BY <1>a, <2>1, <2>2, <2>3, <2>4, <2>5, QuietStep
<1>5. CASE \E c \in 0..MaxClock : ClockMoves(c)
  <2>1. PICK c \in 0..MaxClock : ClockMoves(c)
    BY <1>5
  <2>2. /\ clock' = c /\ turns' <= MaxTurns
        /\ turns' = IF StampOf(c) < StampOf(clock) THEN turns + 1 ELSE turns
        /\ UNCHANGED <<id_, up, pc, stamp, loaded, restarts, issued, updated, overtaken>>
    BY <2>1 DEF ClockMoves
  <2>3. StampOf(c) \in Nat
    BY StampTyped
  <2>4. \/ turns' = turns /\ StampOf(clock) <= StampOf(clock')
        \/ turns < turns'
    BY <1>a, <2>2, <2>3
  <2>5. TypeOK'
    BY <1>0, <2>2 DEF TypeOK
  <2>6. ASSUME NEW s, Passed(s)
        PROVE  Passed(s)'
    <3> SUFFICES ASSUME NEW i \in 1..Len(issued), issued[i].server # restarts,
                        ~issued[i].ahead, issued[i].turn = turns'
                 PROVE  issued[i].id.timestamp <= s
      BY <2>2 DEF Passed
    <3>1. issued[i].turn <= turns
      BY DEF OrderInv
    <3>2. turns' = turns
      BY <1>a, <2>2, <3>1
    <3> QED
      BY <2>6, <3>2 DEF Passed
  <2>7. /\ up' /\ pc' # "asleep" => Passed(stamp)'
        /\ up' /\ updated' => Passed(id_.timestamp)'
    <3>1. up /\ pc # "asleep" => Passed(stamp)
      BY DEF OrderInv
    <3>2. up /\ updated => Passed(id_.timestamp)
      BY DEF OrderInv
    <3> QED
      BY <2>2, <2>6, <3>1, <3>2 DEF Passed
  <2>8. /\ up' => Plain(id_')
        /\ up' /\ pc' = "loaded" => Plain(loaded') /\ loaded'.timestamp < stamp'
        /\ up' => \A i \in 1..Len(issued) : issued[i].server = restarts =>
                        \/ issued[i].id.timestamp <= id_'.timestamp
                        \/ issued[i].id.timestamp <= overtaken'
    BY <2>2 DEF OrderInv
  <2> QED
    BY <2>2, <2>4, <2>5, <2>7, <2>8, QuietStep
<1>6. CASE Restart
  <2>1. /\ restarts < MaxRestarts /\ restarts' = restarts + 1
        /\ id_' = IDAt(0) /\ up' = TRUE /\ pc' = "asleep" /\ stamp' = 0
        /\ loaded' = IDAt(0) /\ updated' = FALSE /\ overtaken' = 0
        /\ UNCHANGED <<clock, issued, turns>>
    BY <1>6 DEF Restart
  <2>2. IDAt(0) \in ID /\ Plain(IDAt(0))
    BY ZeroPlain
  <2>3. /\ stamp' \in 0..TimestampMod - 1 /\ restarts' \in 0..MaxRestarts
        /\ overtaken' \in 0..TimestampMod - 1
    BY <1>0, <2>1
  <2>4. TypeOK'
    BY <1>0, <2>1, <2>2, <2>3, Zenon DEF TypeOK
  <2>5. OrderKept'
    BY <2>1 DEF OrderInv, OrderKept
  <2>6. \A i \in 1..Len(issued) :
          /\ Plain(issued[i].id) /\ issued[i].id.timestamp >= 1
          /\ issued[i].server <= restarts'
          /\ issued[i].server # restarts'
          /\ issued[i].turn <= turns
          /\ ~issued[i].ahead /\ issued[i].turn = turns =>
                issued[i].id.timestamp <= StampOf(clock)
    BY <1>0, <1>b, <2>1 DEF OrderInv
  <2> QED
    BY <2>1, <2>2, <2>4, <2>5, <2>6, Zenon DEF OrderInv
<1>7. CASE UNCHANGED vars
  BY <1>7 DEF vars, OrderInv, TypeOK, Passed, OrderKept
<1> QED
  BY <1>1, <1>2, <1>3, <1>4, <1>5, <1>6, <1>7 DEF Next, Mgr

----------------------------------------------------------------------------
\* At any rate of requests and with any changes of the clock, the state keeps
\* its shape: each field of an id stays within its bits.
THEOREM IDGenTypeCorrect == Spec => []TypeOK
<1>1. OrderInv => TypeOK
  BY DEF OrderInv
<1> QED
  BY <1>1, OrderInit, OrderStep, PTL DEF Spec

\* The ids that Next returns differ in their timestamps only and are not zero:
\* the CHECKs stop a server whose increment carries out of the timestamp before
\* it returns the id.
THEOREM IDsArePlain == Spec => []PlainIDs
<1>1. OrderInv => PlainIDs
  BY PlainIsIDAt DEF OrderInv, PlainIDs
<1> QED
  BY <1>1, OrderInit, OrderStep, PTL DEF Spec

\* Next returns ids in ascending order, but for a store of Update that fell
\* behind, an id issued before the first Update of a restarted server, an
\* earlier id ahead of the clock, and a clock whose stamp went down.
THEOREM OrderHolds == Spec => []OrderKept
<1>1. OrderInv => OrderKept
  BY DEF OrderInv
<1> QED
  BY <1>1, OrderInit, OrderStep, PTL DEF Spec
=============================================================================
