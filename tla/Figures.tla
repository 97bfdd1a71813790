------------------------------ MODULE Figures ------------------------------
(***************************************************************************)
(* The snapshot of adguard-dashboard/src/agh.h and the functions of agh.c   *)
(* that fill it from the two JSON documents.  A document is a record whose  *)
(* values may be Missing: not there, or of a type the code does not take.   *)
(* Texts (domains, clients, versions) are opaque; arrays are functions from *)
(* 0, as in C, and keep what was in them beyond the part that is valid.     *)
(***************************************************************************)
EXTENDS Subsequences

CONSTANTS
    MaxBuckets,     \* AGH_MAX_BUCKETS
    MaxTop,         \* AGH_MAX_TOP
    WordMod,        \* a bucket is a uint32_t: it counts modulo this
    CountMod,       \* a counter is a uint64_t: it counts modulo this
    Keys,           \* domains and clients
    Versions,       \* versions of AdGuard Home
    NoText,         \* the empty string
    Missing,        \* a JSON value that is absent or of another type
    Garbage,        \* a reply that is not JSON
    Failed          \* a request that brought no document with HTTP 200

ASSUME CapAssumption ==
    /\ MaxBuckets \in Nat \ {0} /\ MaxTop \in Nat \ {0}
    /\ WordMod \in Nat /\ WordMod > 4 /\ WordMod % 2 = 0
    /\ CountMod \in Nat \ {0}

\* The empty string is a text like any other: j_str and j_top copy it.
ASSUME TextAssumption == Missing \notin Int /\ Missing \notin BOOLEAN /\ Missing \notin Versions

Charts == {"dns_queries", "blocked_filtering", "blocked_safebrowsing", "blocked_parental"}
Counters == Charts \cup {"blocked_safesearch"}
Lists == {"clients", "queried", "blocked"}

Buckets == 0..(MaxBuckets - 1)
Entries == 0..(MaxTop - 1)

\* Counts are never negative, and one that left the range of a uint32_t or a
\* uint64_t would make the conversion of agh.c:92 or agh.c:123 undefined: AdGuard
\* Home sends neither.
Bucket == 0..(WordMod - 1)
Count == {n \in Nat : n < CountMod}
Entry == [key : Keys, value : Count]
NoEntry == [key |-> NoText, value |-> 0]

Statistics ==
    [counters : [Counters -> Count \cup {Missing}],
     avg : Nat \cup {Missing},      \* in tenths of a millisecond
     series : [Charts -> Seq(Bucket \cup {Missing}) \cup {Missing}],
     tops : [Lists -> Seq(Entry \cup {Missing}) \cup {Missing}]]

Status == [protection : BOOLEAN \cup {Missing}, version : Versions \cup {Missing}]

\* agh_snapshot_t; n holds n_clients, n_queried and n_blocked.
Figures ==
    [counters : [Counters -> Count], avg : Nat, series_len : Nat, buckets : 0..MaxBuckets,
     series : [Charts -> [Buckets -> Bucket]],
     n : [Lists -> 0..MaxTop], tops : [Lists -> [Entries -> Entry \cup {NoEntry}]],
     protection : BOOLEAN, version : Versions \cup {NoText}]

\* static agh_snapshot_t snapshot
Zero ==
    [counters |-> [c \in Counters |-> 0], avg |-> 0, series_len |-> 0, buckets |-> 0,
     series |-> [c \in Charts |-> [b \in Buckets |-> 0]],
     n |-> [l \in Lists |-> 0], tops |-> [l \in Lists |-> [e \in Entries |-> NoEntry]],
     protection |-> FALSE, version |-> NoText]

Longest(S) == CHOOSE n \in S : \A m \in S : m <= n
Smaller(m, n) == IF m < n THEN m ELSE n

\* j_u64, and the bucket conversion of j_u32arr_tail
JNum(v) == IF v = Missing THEN 0 ELSE v

\* j_str leaves the destination alone.
JStr(v, dst) == IF v = Missing THEN dst ELSE v

Length(arr) == IF arr = Missing THEN 0 ELSE Len(arr)

\* Faulty variant: the head of the array is kept.
JU32ArrHead(arr, dst) ==
    LET keep == Smaller(Length(arr), MaxBuckets)
    IN  [b \in Buckets |-> IF b < keep THEN JNum(arr[b + 1]) ELSE dst[b]]

\* j_u32arr_tail: the newest entries go to the front of dst, the rest of dst stays.
JU32ArrTail(arr, dst) ==
    LET keep == Smaller(Length(arr), MaxBuckets)
        skip == Length(arr) - keep
    IN  [b \in Buckets |-> IF b < keep THEN JNum(arr[skip + b + 1]) ELSE dst[b]]

WellFormed(arr) ==
    IF arr = Missing THEN <<>> ELSE Selected(arr, {i \in DOMAIN arr : arr[i] # Missing})

\* Faulty variant: the room there is in the snapshot is not looked at.
JTopCountUnchecked(arr) == Len(WellFormed(arr))

\* j_top: entries without a key or a number are skipped, those beyond the room
\* there is are dropped.
JTopCount(arr) == Smaller(Len(WellFormed(arr)), MaxTop)
JTop(arr, dst) ==
    [e \in Entries |-> IF e < JTopCount(arr) THEN WellFormed(arr)[e + 1] ELSE dst[e]]

\* The memset of the four series, whose lengths may differ.
Cleared(s) == [c \in Charts |-> [b \in Buckets |-> 0]]

ParseStats(doc, s) ==
    [s EXCEPT
        !.counters = [c \in Counters |-> JNum(doc.counters[c])],
        !.avg = JNum(doc.avg),
        !.series = [c \in Charts |-> JU32ArrTail(doc.series[c], Cleared(s)[c])],
        !.series_len = Length(doc.series["dns_queries"]),
        !.buckets = Longest({Smaller(Length(doc.series[c]), MaxBuckets) : c \in Charts}),
        !.n = [l \in Lists |-> JTopCount(doc.tops[l])],
        !.tops = [l \in Lists |-> JTop(doc.tops[l], s.tops[l])]]

\* Faulty variant: protection_enabled is taken without a look at whether it is there.
ParseStatusUnlooked(doc, s) ==
    [s EXCEPT !.protection = doc.protection = TRUE, !.version = JStr(doc.version, s.version)]

ParseStatus(doc, s) ==
    [s EXCEPT !.protection = IF doc.protection = Missing THEN s.protection ELSE doc.protection,
              !.version = JStr(doc.version, s.version)]

IsJson(doc) == doc \notin {Failed, Garbage}

\* The end of agh_client_pump: each document is parsed on its own.
Taken(stats, status, s) ==
    LET t == IF IsJson(stats) THEN ParseStats(stats, s) ELSE s
    IN  IF IsJson(status) THEN ParseStatus(status, t) ELSE t

=============================================================================
