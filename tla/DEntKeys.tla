----------------------------- MODULE DEntKeys -----------------------------
(***************************************************************************)
(* The keys of the dir entries as RocksDB has them: the 64-bit parent id    *)
(* stored big-endian, followed by the bytes of the name (DEntSerde::SerKey),*)
(* compared byte by byte.  Serde and DirTable take such a key for the pair  *)
(* of the id and the name, and a listing for a range of pairs; here it is a *)
(* range of byte strings (KVDEntView::List, RocksDBTxn::GetRange).          *)
(*                                                                          *)
(* A name is a string of bytes below the last one: no UTF-8 text, and so no *)
(* string field of a request, has the byte 0xFF.                            *)
(***************************************************************************)
EXTENDS DirTable, Sequences

CONSTANTS
    Base, Width,    \* 256 values of a byte, 8 bytes of an id
    Bytes           \* the bytes of a name

ASSUME BytesAssumption ==
    /\ Base \in Nat \ {0, 1} /\ Width \in Nat \ {0}
    /\ Bytes \in [Names \cup {0} -> Seq(0..Base - 2)]

\* absl::big_endian::Store64.
Store64(id) == [i \in 1..Width |-> (id \div Base ^ (Width - i)) % Base]

\* The order of rocksdb::BytewiseComparator and of std::string_view.
Before(a, b) ==
    \E i \in 1..Len(b) :
        /\ i <= Len(a) + 1
        /\ \A j \in 1..i - 1 : a[j] = b[j]
        /\ i <= Len(a) => a[i] < b[i]

\* An id fits into its bytes, and names are numbered in their order.
ASSUME OrderAssumption ==
    /\ Ids \subseteq 0..Base ^ Width - 1
    /\ \A m, n \in Names \cup {0} : m < n <=> Before(Bytes[m], Bytes[n])

\* What the powers of a number are.
ASSUME PowersAssumption ==
    Base ^ 0 = 1 /\ \A n \in 0..Width - 1 : Base ^ (n + 1) = Base * Base ^ n

\* Mutants: the name comes first; the end of the range is that of all names.
SerKeyNameFirst(parent_id, name) == name \o Store64(parent_id)
RangeEndOfAll(parent_id) == <<Base - 1>>

\* DEntSerde::SerKey(parent_id, name), and the end of the range of List.
SerKey(parent_id, name) == Store64(parent_id) \o name
RangeEnd(parent_id) == SerKey(parent_id, <<Base - 1>>)

\* GetRange: Seek(start_key), and Next while the key is before end_key.
GetRange(start_key, end_key) ==
    {k \in DOMAIN db.dent :
        LET key == SerKey(k[1], Bytes[k[2]])
        IN  ~Before(key, start_key) /\ Before(key, end_key)}

\* KVDEntView::List without its limit: the entries of the range.
List(parent_id, start_after) ==
    GetRange(SerKey(parent_id, Bytes[start_after]), RangeEnd(parent_id))

----------------------------------------------------------------------------
\* What a listing returns: the range of byte strings holds every entry of the
\* directory from start_after on and nothing of another directory, whatever bytes
\* the ids and the names have in common.
ListIsExact ==
    \A p \in Ids, s \in Names \cup {0} :
        List(p, s) = {k \in DOMAIN db.dent : k[1] = p /\ k[2] >= s}

\* The keys of the entries are told apart and sorted like the pairs of parent id
\* and name that Serde takes them for: no entry hides another, and a listing is
\* in the order of the names.
KeysSortAsPairs ==
    \A k, l \in DOMAIN db.dent :
        Before(SerKey(k[1], Bytes[k[2]]), SerKey(l[1], Bytes[l[2]]))
            <=> k[1] < l[1] \/ (k[1] = l[1] /\ k[2] < l[2])
=============================================================================
