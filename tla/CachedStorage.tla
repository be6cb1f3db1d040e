--------------------------- MODULE CachedStorage ----------------------------
(***************************************************************************)
(* The cache in front of the file-system storage                           *)
(* (src/src/cached_storage.rs), as config.rs puts them together.  Readers  *)
(* fill the cache, every operation that writes resets it first.            *)
(*                                                                         *)
(* terms and entries are least-recently-used caches: sequences of          *)
(* <<index, term>>, the latest used first.  entriesOpen says whether the   *)
(* Option around the entry cache is Some.                                  *)
(***************************************************************************)
EXTENDS FsStorage

CONSTANT CacheSize       \* CACHE_SIZE

ASSUME CacheSizeAssumption == CacheSize \in Nat \ {0}

VARIABLE cache

vars == <<file, entry, todo, up, cache>>

\* The fields of type Option, each the set of the value it holds, if any.
Option == {"initial_state", "first_index", "last_index", "snapshot"}

CacheTypeOK ==
  /\ cache \in [initial_state : SUBSET (Nat \X Nat), first_index : SUBSET Nat,
                last_index : SUBSET Nat, snapshot : SUBSET Nat,
                entriesOpen : BOOLEAN,
                entries : Seq(Index \X Nat), terms : Seq((0..MaxIndex) \X Nat)]
  /\ Len(cache.terms) <= CacheSize
  /\ Len(cache.entries) <= CacheSize

TypeOK == FsTypeOK /\ CacheTypeOK

NewCache == [initial_state |-> {}, first_index |-> {}, last_index |-> {}, snapshot |-> {},
             entriesOpen |-> FALSE, entries |-> << >>, terms |-> << >>]

\* Mutant: the terms are kept.
ResetButTerms(c) ==
  [NewCache EXCEPT !.entriesOpen = c.entriesOpen, !.terms = c.terms]

\* The entry cache is emptied, not closed.
Reset(c) == [NewCache EXCEPT !.entriesOpen = c.entriesOpen]

-----------------------------------------------------------------------------
(***************************************************************************)
(* The least-recently-used cache.  Insertion does not look for an older    *)
(* copy.                                                                   *)
(***************************************************************************)
Insert(s, x) == SubSeq(<<x>> \o s, 1, IF Len(s) < CacheSize THEN Len(s) + 1 ELSE CacheSize)

Positions(s, i) == {j \in DOMAIN s : s[j][1] = i}

\* find: the first match moves to the front.
Found(s, i) == CHOOSE j \in Positions(s, i) : \A l \in Positions(s, i) : j <= l
Touch(s, i) == <<s[Found(s, i)]>> \o SubSeq(s, 1, Found(s, i) - 1)
                                  \o SubSeq(s, Found(s, i) + 1, Len(s))

\* s after the elements low..high-1 have been found or inserted one by one.
TouchAll(s, low, high) ==
  LET after[i \in low..high] == IF i = low THEN s ELSE Touch(after[i - 1], i - 1)
  IN  after[high]

InsertAll(s, low, high, term) ==
  LET after[i \in low..high] ==
        IF i = low THEN s ELSE Insert(after[i - 1], <<i - 1, term[i - 1]>>)
  IN  after[high]

-----------------------------------------------------------------------------
(***************************************************************************)
(* Readers.                                                                *)
(***************************************************************************)
\* The initial state is the HardState and the ConfState of the snapshot.
Answer(f) == CASE f = "initial_state" -> <<commit, snapshot>>
               [] f = "first_index"   -> first
               [] f = "last_index"    -> last
               [] f = "snapshot"      -> snapshot

\* initial_state, first_index, last_index and snapshot.
ReadOption(f) ==
  /\ Idle
  /\ cache[f] = {}
  /\ cache' = [cache EXCEPT ![f] = {Answer(f)}]
  /\ UNCHANGED fsVars

\* term; an error is not cached.
ReadTerm(i) ==
  /\ Idle
  /\ \/ /\ Positions(cache.terms, i) # {}
        /\ cache' = [cache EXCEPT !.terms = Touch(@, i)]
     \/ /\ Positions(cache.terms, i) = {}
        /\ FsTerm(i) >= 0
        /\ cache' = [cache EXCEPT !.terms = Insert(@, <<i, FsTerm(i)>>)]
  /\ UNCHANGED fsVars

\* entries on an open cache: the entries up to the first that is missing are
\* touched; when all are found they are inserted again, otherwise the storage
\* answers and nothing is cached.
CachedTerm(i) == cache.entries[Found(cache.entries, i)][2]

ReadCachedEntries(low, high) ==
  /\ Idle
  /\ cache.entriesOpen
  /\ \/ /\ \A i \in low..(high - 1) : Positions(cache.entries, i) # {}
        /\ cache' = [cache EXCEPT !.entries =
                       InsertAll(TouchAll(@, low, high), low, high,
                                 [i \in low..(high - 1) |-> CachedTerm(i)])]
     \/ \E i \in low..(high - 1) :
          /\ Positions(cache.entries, i) = {}
          /\ \A j \in low..(i - 1) : Positions(cache.entries, j) # {}
          /\ cache' = [cache EXCEPT !.entries = TouchAll(@, low, i)]
  /\ UNCHANGED fsVars

\* The first call that succeeds opens and fills the entry cache.
ReadStoredEntries(low, high) ==
  /\ Idle
  /\ ~cache.entriesOpen
  /\ FsEntriesOK(low, high)
  /\ cache' = [cache EXCEPT !.entriesOpen = TRUE,
                            !.entries =
                              InsertAll(<< >>, low, high, [i \in low..(high - 1) |-> entry[i]])]
  /\ UNCHANGED fsVars

-----------------------------------------------------------------------------
Init == FsInit /\ cache = NewCache

Reader == \/ \E f \in Option : ReadOption(f)
          \/ \E i \in 0..MaxIndex : ReadTerm(i)
          \/ \E low \in Index : \E high \in low..(MaxIndex + 1) :
               ReadCachedEntries(low, high) \/ ReadStoredEntries(low, high)

Resetting == \/ AppendEntries
             \/ SetHardstate
             \/ Compact
             \/ ApplySnapshot
             \/ CreateSnapshot

\* The reset is done before the storage below is called; applied is not cached.
Writer == \/ Resetting /\ cache' = Reset(cache)
          \/ (SetApplied \/ DoWrite) /\ UNCHANGED cache

Starter == \/ Open /\ cache' = NewCache
           \/ (Halt \/ PanicInCreateSnapshot) /\ cache' = NewCache

Next == Reader \/ Writer \/ Starter

Spec == Init /\ [][Next]_vars

-----------------------------------------------------------------------------
\* Nothing stale is cached: whatever value, term or entry the caches hold is the one
\* in the files, after any sequence of reads, writes, evictions, resets and
\* restarts.  This is about contents: entries with an empty range, which an open
\* cache answers without a look at the files, is not among them.
CacheIsTransparent ==
  Idle =>
    /\ \A f \in Option : cache[f] \subseteq {Answer(f)}
    /\ \A j \in DOMAIN cache.terms : FsTerm(cache.terms[j][1]) = cache.terms[j][2]
    /\ \A j \in DOMAIN cache.entries :
         /\ cache.entries[j][1] \in first..last
         /\ entry[cache.entries[j][1]] = cache.entries[j][2]
=============================================================================
