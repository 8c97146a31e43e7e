-------------------------- MODULE DirStreamProofs --------------------------
(***************************************************************************)
(* Proofs about DirStream: for every directory, limit and sequence of       *)
(* buffer sizes, readdir returns the listing of opendir in order and whole. *)
(***************************************************************************)
EXTENDS DirStream, SequenceTheorems, TLAPS

Entry == Names \cup {"dot", "dotdot"}

\* e is a listing of the directory, as far as it goes.
Ordered(e) ==
    /\ e \in Seq(Entry)
    /\ \A i \in 1..Len(e) : i <= 2 => e[i] = Dots[i]
    /\ \A i \in 3..Len(e) : e[i] \in dir /\ \A j \in 3..i - 1 : e[j] < e[i]

\* g is the start of e.
Starts(g, e) ==
    /\ g \in Seq(Entry) /\ e \in Seq(Entry)
    /\ Len(g) <= Len(e)
    /\ \A i \in 1..Len(g) : g[i] = e[i]

\* e has what the directory had at opendir, or as many names as the limit.
Whole(e) ==
    \/ \A n \in at_open : \E i \in 3..Len(e) : e[i] = n
    \/ Len(e) = list_dir_default_limit + 2

\* While the cache holds the listing, what was read is the start of it.
Holding ==
    /\ entries # <<>>
    /\ start_off = 0
    /\ end_off < Len(entries)
    /\ Ordered(entries) /\ Whole(entries)
    /\ Starts(got, entries)

\* When it is used up, what was read is all of it, unless the kernel went back.
UsedUp ==
    /\ entries = <<>>
    /\ start_off = end_off
    /\ off = end_off => Whole(got)

DSInv ==
    /\ TypeOK
    /\ dir \subseteq Names
    /\ Ordered(got)
    /\ handle # "closed" => off = Len(got) /\ off <= end_off /\ (Holding \/ UsedUp)
    /\ result = "end" => Whole(got)

\* Reading n entries on in e.
LEMMA ReadOn ==
    ASSUME NEW g, NEW e, NEW n \in Nat, Starts(g, e), Len(g) <= n, n <= Len(e)
    PROVE  LET h == g \o SubSeq(e, Len(g) + 1, n)
           IN  Starts(h, e) /\ Len(h) = n
<1> DEFINE m == Len(g)
           s == SubSeq(e, m + 1, n)
           h == g \o s
<1>1. g \in Seq(Entry) /\ e \in Seq(Entry) /\ m \in Nat /\ \A i \in 1..m : g[i] = e[i]
  BY DEF Starts
<1>2. s \in Seq(Entry) /\ Len(s) = n - m /\ \A i \in 1..(n - m) : s[i] = e[m + i]
  BY <1>1
<1> HIDE DEF s
<1>3. /\ h \in Seq(Entry) /\ Len(h) = m + Len(s)
      /\ \A i \in 1..m + Len(s) : h[i] = IF i <= m THEN g[i] ELSE s[i - m]
  <2>1. g \in Seq(Entry) /\ s \in Seq(Entry)
    BY <1>1, <1>2
  <2> QED
    BY <2>1, ConcatProperties, ZenonT(30)
<1> HIDE DEF h, m
<1>4. Len(h) = n /\ \A i \in 1..n : h[i] = IF i <= m THEN g[i] ELSE s[i - m]
  BY <1>1, <1>2, <1>3
<1>5. ASSUME NEW i \in 1..n
      PROVE  h[i] = e[i]
  <2>1. CASE i <= m
    BY <2>1, <1>1, <1>4
  <2>2. CASE i > m
    <3>1. i - m \in 1..(n - m) /\ m + (i - m) = i
      BY <2>2, <1>1
    <3> QED
      BY <2>2, <3>1, <1>1, <1>2, <1>4
  <2> QED
    BY <2>1, <2>2, <1>1
<1>6. Starts(h, e)
  BY <1>1, <1>3, <1>4, <1>5 DEF Starts
<1> QED
  BY <1>4, <1>6 DEF h, m, s

\* The start of a listing is ordered.
LEMMA OrderedStart ==
    ASSUME NEW g, NEW e, Starts(g, e), Ordered(e)
    PROVE  Ordered(g)
<1>1. g \in Seq(Entry) /\ Len(g) \in Nat /\ Len(e) \in Nat
  BY DEF Starts
<1>2. \A i \in 1..Len(g) : i <= 2 => g[i] = Dots[i]
  BY <1>1 DEF Ordered, Starts
<1>3. \A i \in 3..Len(g) : g[i] \in dir /\ \A j \in 3..i - 1 : g[j] < g[i]
  BY <1>1 DEF Ordered, Starts
<1> QED
  BY <1>1, <1>2, <1>3 DEF Ordered

\* The start of a listing that is as long as it is as whole.
LEMMA WholeStart ==
    ASSUME NEW g, NEW e, Starts(g, e), Len(g) = Len(e), Whole(e)
    PROVE  Whole(g)
BY DEF Starts, Whole

LEMMA DSInit == Init => DSInv
<1> SUFFICES ASSUME Init PROVE DSInv
  OBVIOUS
<1>2. got = <<>> /\ Len(got) = 0 /\ Len(entries) = 0
  BY DEF Init
<1>1. TypeOK
  <2>1. has_more \in BOOLEAN /\ up \in BOOLEAN /\ handle \in {"closed", "open", "reading", "hung"}
    BY Zenon DEF Init
  <2>2. start_off = 0 /\ end_off = 0 /\ off = 0
    BY Zenon DEF Init
  <2> QED
    BY <1>2, <2>1, <2>2 DEF TypeOK
<1>3. Ordered(got)
  BY <1>2 DEF Ordered
<1> QED
  BY <1>1, <1>3 DEF Init, DSInv

\* What FuseOpenDirOp::OnSuccess puts into the cache.
LEMMA Opened ==
    ASSUME DSInv, NEW n \in Nat, NEW ents \in [1..n -> dir], IsResponse(ents)
    PROVE  LET e == Dots \o ents
           IN  /\ e \in Seq(Entry) /\ Len(e) = n + 2
               /\ Ordered(e)
               /\ (\A x \in dir : \E i \in 3..Len(e) : e[i] = x)
                  \/ Len(e) = list_dir_default_limit + 2
<1> DEFINE e == Dots \o ents
<1>1. Dots \in Seq(Entry) /\ Len(Dots) = 2 /\ Dots[1] = "dot" /\ Dots[2] = "dotdot"
  BY DEF Dots, Entry
<1>2. ents \in Seq(Entry) /\ Len(ents) = n
  <2>1. ents \in [1..n -> Entry]
    BY DEF DSInv, Entry
  <2> QED
    BY <2>1
<1>3. e \in Seq(Entry) /\ Len(e) = Len(Dots) + Len(ents)
         /\ \A i \in 1..Len(Dots) + Len(ents) :
               e[i] = IF i <= Len(Dots) THEN Dots[i] ELSE ents[i - Len(Dots)]
  BY <1>1, <1>2, ConcatProperties, Zenon
<1> HIDE DEF e
<1>4. Len(e) = n + 2 /\ \A i \in 1..n + 2 : e[i] = IF i <= 2 THEN Dots[i] ELSE ents[i - 2]
  BY <1>1, <1>2, <1>3
<1>5. \A i \in 3..n + 2 : e[i] = ents[i - 2] /\ i - 2 \in 1..n
  BY <1>4
<1>6. \A i \in 1..n : e[i + 2] = ents[i] /\ i + 2 \in 3..n + 2
  BY <1>5
<1>7. \A i \in 3..Len(e) : e[i] \in dir /\ \A j \in 3..i - 1 : e[j] < e[i]
  <2> SUFFICES ASSUME NEW i \in 3..Len(e)
               PROVE  e[i] \in dir /\ \A j \in 3..i - 1 : e[j] < e[i]
    OBVIOUS
  <2>1. e[i] = ents[i - 2] /\ i - 2 \in 1..n
    BY <1>4, <1>5
  <2>2. ASSUME NEW j \in 3..i - 1
        PROVE  e[j] < e[i]
    <3>1. e[j] = ents[j - 2] /\ j - 2 \in 1..n /\ j - 2 < i - 2
      BY <1>4, <1>5
    <3> QED
      BY <2>1, <3>1, <1>2 DEF IsResponse, Increasing
  <2> QED
    BY <2>1, <2>2
<1>8. Ordered(e)
  <2>1. \A i \in 1..Len(e) : i <= 2 => e[i] = Dots[i]
    BY <1>4
  <2> QED
    BY <1>3, <1>7, <2>1 DEF Ordered
<1>9. (\A x \in dir : \E i \in 3..Len(e) : e[i] = x) \/ Len(e) = list_dir_default_limit + 2
  <2>1. CASE n = list_dir_default_limit
    BY <2>1, <1>4
  <2>2. CASE n # list_dir_default_limit
    <3>1. \A x \in dir : \E i \in 1..n : ents[i] = x
      BY <2>2, <1>2 DEF IsResponse
    <3> QED
      BY <3>1, <1>4, <1>6
  <2> QED
    BY <2>1, <2>2
<1> QED
  BY <1>3, <1>4, <1>8, <1>9 DEF e

\* A readdir that is answered from the cache keeps the invariant.
LEMMA PopulateStep ==
    ASSUME DSInv, NEW room \in Rooms, ReadDirCached(room)
    PROVE  DSInv'
<1> DEFINE n == IF Left <= room THEN Left ELSE room
<1>1. room \in Nat \ {0}
  BY DirStreamAssumption
<1>2. /\ TypeOK /\ Ordered(got) /\ off = Len(got) /\ off = end_off
      /\ Holding \/ UsedUp
  BY DEF DSInv, ReadDirCached
<1>3. CASE Holding
  <2>1. /\ Starts(got, entries) /\ off \in Nat
        /\ Len(entries) \in Nat /\ Len(got) = off
    BY <1>2, <1>3 DEF Holding, Starts, TypeOK
  <2>2. FirstUnread = off /\ Left = Len(entries) - off /\ off < Len(entries)
    BY <1>2, <1>3, <2>1 DEF Holding, FirstUnread, Left
  <2>3. n \in Nat \ {0} /\ off + n <= Len(entries) /\ (n = Left <=> off + n = Len(entries))
    BY <1>1, <2>1, <2>2
  <2> HIDE DEF n
  <2>4. /\ end_off' = off + n /\ off' = off + n
        /\ start_off' = IF n = Left THEN off + n ELSE start_off
        /\ entries' = IF n = Left THEN <<>> ELSE entries
        /\ got' = got \o SubSeq(entries, Len(got) + 1, off + n)
        /\ result' = "some"
        /\ UNCHANGED <<dir, handle, has_more, up, opens, at_open>>
    <3>1. /\ end_off' = end_off + n /\ off' = end_off + n
          /\ start_off' = IF n = Left THEN end_off + n ELSE start_off
          /\ entries' = IF n = Left THEN <<>> ELSE entries
          /\ got' = got \o SubSeq(entries, FirstUnread + 1, FirstUnread + n)
          /\ result' = IF n = 0 THEN "end" ELSE "some"
          /\ UNCHANGED <<dir, handle, has_more, up, opens, at_open>>
      BY Zenon DEF ReadDirCached, PopulateDirEntriesBuffer, Cookie, StartOffAfter, n
    <3> QED
      BY <1>2, <2>1, <2>2, <2>3, <3>1
  <2>5. Starts(got', entries) /\ Len(got') = off + n
    <3>1. off + n \in Nat /\ Len(got) <= off + n
      BY <2>1, <2>3
    <3> QED
      BY <2>1, <2>3, <2>4, <3>1, ReadOn, Zenon
  <2>6. Ordered(got)'
    <3>1. Ordered(got')
      BY <1>3, <2>5, OrderedStart, Zenon DEF Holding
    <3>2. dir' = dir
      BY <2>4
    <3> QED
      BY <3>1, <3>2, Zenon DEF Ordered
  <2>7. CASE n = Left
    <3>1. Whole(got')
      BY <1>3, <2>3, <2>5, <2>7, WholeStart DEF Holding
    <3>2. UsedUp'
      BY <2>4, <2>7, <3>1, Zenon DEF UsedUp, Whole
    <3>3. TypeOK'
      BY <1>2, <2>3, <2>4, <2>7 DEF TypeOK
    <3> QED
      BY <2>4, <2>5, <2>6, <3>2, <3>3 DEF DSInv
  <2>8. CASE n # Left
    <3>1. Holding'
      BY <1>3, <2>1, <2>3, <2>4, <2>5, <2>8 DEF Holding, Ordered, Whole
    <3>2. TypeOK'
      BY <1>2, <1>3, <2>1, <2>3, <2>4, <2>8 DEF TypeOK, Holding
    <3> QED
      BY <2>4, <2>5, <2>6, <3>1, <3>2 DEF DSInv
  <2> QED
    BY <2>7, <2>8
<1>4. CASE UsedUp
  <2>1. Len(entries) = 0 /\ Left = 0 /\ FirstUnread = 0 /\ n = 0
    BY <1>1, <1>2, <1>4 DEF UsedUp, Left, FirstUnread, TypeOK
  <2>2. SubSeq(entries, 1, 0) = <<>>
    BY SubSeqEmpty
  <2>3. got' = got
    <3>1. got' = got \o SubSeq(entries, 1, 0)
      BY <2>1 DEF ReadDirCached, PopulateDirEntriesBuffer
    <3>2. got \in Seq(Entry)
      BY <1>2 DEF Ordered
    <3> QED
      BY <3>1, <3>2, <2>2, ConcatEmptySeq
  <2>4. /\ end_off' = end_off /\ off' = off /\ start_off' = end_off /\ entries' = entries
        /\ UNCHANGED <<dir, handle, has_more, up, opens, at_open>>
    BY <1>2, <1>4, <2>1 DEF ReadDirCached, PopulateDirEntriesBuffer, Cookie, StartOffAfter,
       UsedUp, TypeOK
  <2>5. Whole(got)
    BY <1>2, <1>4 DEF UsedUp
  <2>6. TypeOK'
    BY <1>2, <1>4, <2>1, <2>4 DEF TypeOK, UsedUp
  <2> QED
    BY <1>2, <1>4, <2>3, <2>4, <2>5, <2>6, Zenon DEF DSInv, UsedUp, Ordered, Whole
<1> QED
  BY <1>2, <1>3, <1>4

\* opendir with a new listing keeps the invariant.
LEMMA OpenStep ==
    ASSUME DSInv, OpenDir
    PROVE  DSInv'
<1>1. PICK n \in 0..list_dir_default_limit : \E ents \in [1..n -> dir] :
         IsResponse(ents) /\ entries' = Dots \o ents /\ has_more' = RespHasMore(ents)
  BY Zenon DEF OpenDir
<1>2. PICK ents \in [1..n -> dir] :
         IsResponse(ents) /\ entries' = Dots \o ents /\ has_more' = RespHasMore(ents)
  BY <1>1
<1>3. n \in Nat
  BY DirStreamAssumption
<1>4. /\ entries' \in Seq(Entry) /\ Len(entries') = n + 2
      /\ Ordered(entries')
      /\ \/ \A x \in dir : \E i \in 3..Len(entries') : entries'[i] = x
         \/ Len(entries') = list_dir_default_limit + 2
  BY <1>2, <1>3, Opened, Zenon
<1>5. /\ handle' = "open" /\ start_off' = 0 /\ end_off' = 0 /\ off' = 0
      /\ got' = <<>> /\ at_open' = dir /\ result' = "none" /\ dir' = dir /\ up' = up
  BY Zenon DEF OpenDir
<1>6. has_more' \in BOOLEAN
  BY <1>2, Zenon DEF RespHasMore
<1>7. TypeOK'
  BY <1>3, <1>4, <1>5, <1>6 DEF TypeOK, DSInv
<1>8. got' \in Seq(Entry) /\ Len(got') = 0
  BY <1>5
<1>9. Ordered(got)'
  BY <1>8 DEF Ordered
<1>10. Holding'
  <2>1. Starts(got, entries)'
    BY <1>3, <1>4, <1>8 DEF Starts
  <2>2. Ordered(entries)'
    BY <1>4, <1>5, Zenon DEF Ordered
  <2>3. Whole(entries)'
    BY <1>4, <1>5, Zenon DEF Whole
  <2>4. entries' # <<>> /\ 0 < Len(entries')
    BY <1>3, <1>4
  <2> QED
    BY <1>5, <2>1, <2>2, <2>3, <2>4 DEF Holding
<1> QED
  BY <1>5, <1>7, <1>8, <1>9, <1>10 DEF DSInv

\* Going back to an earlier offset keeps the invariant.
LEMMA SeekStep ==
    ASSUME DSInv, NEW to \in 0..off, Seek(to)
    PROVE  DSInv'
<1>1. /\ off' = to /\ got' = SubSeq(got, 1, to) /\ result' = "none" /\ to < off
      /\ handle = "open"
      /\ UNCHANGED <<dir, handle, start_off, end_off, entries, has_more, up, at_open>>
  BY Zenon DEF Seek, cache
<1>2. TypeOK /\ Ordered(got) /\ off = Len(got) /\ off <= end_off /\ (Holding \/ UsedUp)
  BY <1>1 DEF DSInv
<1>3. got \in Seq(Entry) /\ off \in Nat /\ end_off \in Nat /\ to \in Nat
  BY <1>2 DEF Ordered, TypeOK
<1>4. Len(got') = to /\ Starts(got', got)
  BY <1>1, <1>2, <1>3 DEF Starts
<1>5. Ordered(got)'
  <2>1. Ordered(got')
    BY <1>2, <1>4, OrderedStart, Zenon
  <2> QED
    BY <1>1, <2>1, Zenon DEF Ordered
<1>6. TypeOK'
  BY <1>1, <1>2, <1>3 DEF TypeOK
<1>7. Holding' \/ UsedUp'
  <2>1. CASE Holding
    <3>1. Starts(got', got) /\ Starts(got, entries)
      BY <1>4, <2>1, Zenon DEF Holding
    <3>2. 1..Len(got') \subseteq 1..Len(got) /\ Len(got') <= Len(entries)
      BY <3>1 DEF Starts
    <3>3. Starts(got', entries)
      BY <3>1, <3>2, Zenon DEF Starts
    <3> QED
      BY <1>1, <2>1, <3>3 DEF Holding, Ordered, Whole
  <2>2. CASE UsedUp
    BY <1>1, <1>2, <1>3, <2>2 DEF UsedUp
  <2> QED
    BY <1>2, <2>1, <2>2
<1> QED
  BY <1>1, <1>2, <1>3, <1>4, <1>5, <1>6, <1>7 DEF DSInv

\* Entries of other clients keep the invariant.
LEMMA CreateStep ==
    ASSUME DSInv, NEW x \in Names, Create(x)
    PROVE  DSInv'
<1>1. /\ dir' = dir \cup {x}
      /\ UNCHANGED <<handle, start_off, end_off, entries, has_more, off, result, up, got,
                     at_open>>
  BY Zenon DEF Create, cache
<1>2. ASSUME NEW e, Ordered(e)
      PROVE  /\ e \in Seq(Entry)
             /\ \A i \in 1..Len(e) : i <= 2 => e[i] = Dots[i]
             /\ \A i \in 3..Len(e) : e[i] \in dir' /\ \A j \in 3..i - 1 : e[j] < e[i]
  BY <1>1, <1>2, Zenon DEF Ordered
<1>3. Ordered(got)' /\ (Holding => Ordered(entries)')
  BY <1>1, <1>2, Zenon DEF Ordered, DSInv, Holding
<1>4. TypeOK' /\ dir' \subseteq Names
  BY <1>1, Zenon DEF TypeOK, DSInv
<1>5. (Holding => Holding') /\ (UsedUp => UsedUp') /\ (Whole(got) => Whole(got)')
  BY <1>1, <1>3, Zenon DEF Holding, UsedUp, Whole
<1> QED
  BY <1>1, <1>3, <1>4, <1>5, Zenon DEF DSInv

\* The steps that neither read nor open.
LEMMA OtherStep ==
    ASSUME DSInv,
           OpenDirFails \/ ReadDirSends \/ ReadDirFails \/ ReadDirLost \/ ReadDirChecks
           \/ ReleaseDir \/ UNCHANGED vars
    PROVE  DSInv'
<1>1. CASE OpenDirFails
  BY <1>1, Zenon DEF DSInv, TypeOK, Ordered, Whole, Holding, UsedUp, OpenDirFails, cache
<1>2. CASE ReadDirSends
  BY <1>2, Zenon DEF DSInv, TypeOK, Ordered, Whole, Holding, UsedUp, ReadDirSends, cache
<1>3. CASE ReadDirFails
  BY <1>3, Zenon DEF DSInv, TypeOK, Ordered, Whole, Holding, UsedUp, ReadDirFails, cache
<1>4. CASE ReadDirChecks
  BY <1>4, Zenon DEF DSInv, TypeOK, Ordered, Whole, Holding, UsedUp, ReadDirChecks, cache
<1>5. CASE ReleaseDir
  <2>1. /\ handle' = "closed" /\ start_off' = 0 /\ end_off' = 0 /\ entries' = <<>>
        /\ has_more' = FALSE /\ UNCHANGED <<dir, off, result, up, got, at_open>>
    BY <1>5, Zenon DEF ReleaseDir
  <2>2. Len(entries') = 0
    BY <2>1
  <2>3. TypeOK'
    <3>1. has_more' \in BOOLEAN /\ up' \in BOOLEAN /\ off' \in Nat
      BY <2>1, Zenon DEF TypeOK, DSInv
    <3>2. start_off' = 0 /\ end_off' = 0 /\ handle' = "closed"
      BY <2>1
    <3> QED
      BY <2>2, <3>1, <3>2 DEF TypeOK
  <2> QED
    BY <2>1, <2>3, Zenon DEF DSInv, Ordered, Whole
<1>6. CASE UNCHANGED vars
  BY <1>6, Zenon DEF DSInv, TypeOK, Ordered, Whole, Holding, UsedUp, vars, cache
<1>7. CASE ReadDirLost
  BY <1>7, Zenon DEF DSInv, TypeOK, Ordered, Whole, Holding, UsedUp, ReadDirLost, cache
<1> QED
  BY <1>1, <1>2, <1>3, <1>4, <1>5, <1>6, <1>7

LEMMA DSAlways == Spec => []DSInv
<1>1. DSInv /\ [Next]_vars => DSInv'
  BY PopulateStep, OpenStep, SeekStep, CreateStep, OtherStep, Zenon DEF Next, ReadDir,
     RpcEnds, Ended
<1> QED
  BY DSInit, <1>1, PTL DEF Spec

\* Whatever the buffers and the listings, CacheDirEntries never claims more entries
\* than it holds: the offsets from start_off to end_off are within its list.
THEOREM DirStreamTypeCorrect == Spec => []TypeOK
<1>1. DSInv => TypeOK
  BY DEF DSInv
<1> QED
  BY <1>1, DSAlways, PTL

\* Whatever the directory, the limit of the NameNode and the kernel's buffers, and
\* whatever is created while the directory is open: readdir returns the names in
\* order, each once and each in the directory.
THEOREM ReadsInOrder == Spec => []InOrder
<1>1. DSInv => InOrder
  BY Zenon DEF DSInv, Ordered, InOrder
<1> QED
  BY <1>1, DSAlways, PTL

\* The kernel's offset is the number of entries it has got.
THEOREM OffsetsCount == Spec => []OffsetCounts
<1>1. DSInv => OffsetCounts
  BY DEF DSInv, OffsetCounts
<1> QED
  BY <1>1, DSAlways, PTL

\* The end of a directory is not told before all of it, or as much as the
\* NameNode's limit, was read.
THEOREM EndsComplete == Spec => []EndIsComplete
<1>1. DSInv => EndIsComplete
  BY Zenon DEF DSInv, Whole, EndIsComplete
<1> QED
  BY <1>1, DSAlways, PTL
=============================================================================
