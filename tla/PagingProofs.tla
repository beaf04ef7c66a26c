---------------------------- MODULE PagingProofs ----------------------------
(***************************************************************************)
(* The counts of page frames and swap entries stay exact, a page that may  *)
(* be written is private, and nobody waits for kswapd in vain, for any     *)
(* number of address spaces, pages, frames and swap entries and however    *)
(* page faults, forks, exits and the page daemon interleave.               *)
(***************************************************************************)
EXTENDS Paging, ListsProofs, FiniteSetTheorems

-----------------------------------------------------------------------------
(* The invariant of a memory, also in the middle of a function.            *)

Refs(at, x) == {pl \in Places : at[pl] = x}
Count(at, x) == Cardinality(Refs(at, x))

Held == Frames \cup Entries \cup {None}

\* The content of the place pl is replaced by y.
Moved(at, to, pl, y) == to = [at EXCEPT ![pl] = y]

\* The counts of m are exact, where g is a frame whose count page_insert() has
\* increased for a mapping it has yet to make, or None, and T holds the frames
\* that were allocated and are mapped nowhere yet.
Counts(m, g, T) ==
    /\ \A f \in Frames :
          /\ m.ref[f] = Count(m.at, f) + (IF f = g THEN 1 ELSE 0)
          /\ f \in m.free <=> /\ Refs(m.at, f) = {} /\ m.index[f] = None
                              /\ f \notin T /\ f # g
          /\ f \in T => Refs(m.at, f) = {} /\ m.index[f] = None /\ f # g
    /\ \A e \in m.used : /\ m.mem_map[e] = Count(m.at, e)
                         /\ Refs(m.at, e) # {} \/ Cached(m, e) # {}
    /\ \A e \in Entries \ m.used : Refs(m.at, e) = {}

\* The swap cache and its lists.
Caches(m) ==
    /\ \A f \in Frames : m.index[f] # None =>
          m.index[f] \in m.used /\ \A h \in Frames : m.index[h] = m.index[f] => h = f
    /\ \A f \in Frames : m.index[f] # None <=> f \in m.active \cup m.inactive
    /\ m.active \cap m.inactive = {}

\* A write that the disk misses is known, but for the entries of U.
Known(m, U) ==
    /\ m.dirty \subseteq Spaces \X Pages
    /\ \A e \in (m.stale \cap m.used) \ U :
          \E f \in Cached(m, e) : f \in m.pg_dirty \/ Refs(m.at, f) \cap m.dirty # {}

Books(m, g, T, U) == m \in MemoryType /\ Counts(m, g, T) /\ Caches(m) /\ Known(m, U)

\* Copy on write.
Private(m) ==
    \A pl \in m.writable :
        /\ m.at[pl] \in Frames
        /\ pl[2] \notin Shared =>
              /\ Refs(m.at, m.at[pl]) = {pl}
              /\ m.index[m.at[pl]] # None => Refs(m.at, m.index[m.at[pl]]) = {}

-----------------------------------------------------------------------------
(* Counting.                                                               *)

LEMMA PlacesFinite == IsFiniteSet(Places)
<1>1. IsFiniteSet(Spaces \cup {Shm})
  BY MemoryAssumption, FS_AddElement
<1>2. QED
  BY <1>1, MemoryAssumption, FS_Product DEF Places

LEMMA CountFacts ==
    ASSUME NEW at, NEW x
    PROVE  /\ IsFiniteSet(Refs(at, x)) /\ Count(at, x) \in Nat
           /\ Count(at, x) = 0 <=> Refs(at, x) = {}
<1>1. IsFiniteSet(Refs(at, x))
  BY PlacesFinite, FS_Subset DEF Refs
<1>2. QED
  BY <1>1, FS_CardinalityType, FS_EmptySet DEF Count

\* What another content of one place does to the number of references.
LEMMA Remapped ==
    ASSUME NEW at \in [Places -> Held], NEW to, NEW pl \in Places, NEW y, NEW x,
           Moved(at, to, pl, y)
    PROVE  /\ x = at[pl] /\ x # y => Count(at, x) = Count(to, x) + 1
           /\ x # at[pl] /\ x = y => Count(to, x) = Count(at, x) + 1
           /\ x = at[pl] /\ x = y => Count(to, x) = Count(at, x)
           /\ x # at[pl] /\ x # y => Count(to, x) = Count(at, x)
<1>1. /\ x = y => Refs(to, x) = Refs(at, x) \cup {pl}
      /\ x # y => Refs(to, x) = Refs(at, x) \ {pl}
  BY DEF Refs, Moved
<1>2. pl \in Refs(at, x) <=> at[pl] = x
  BY DEF Refs
<1>3. ASSUME x = at[pl], x # y PROVE Count(at, x) = Count(to, x) + 1
  BY <1>1, <1>2, <1>3, CountFacts, FS_RemoveElement DEF Count
<1>4. ASSUME x # at[pl], x = y PROVE Count(to, x) = Count(at, x) + 1
  BY <1>1, <1>2, <1>4, CountFacts, FS_AddElement DEF Count
<1>5. ASSUME x = at[pl] <=> x = y PROVE Count(to, x) = Count(at, x)
  <2>1. Refs(to, x) = Refs(at, x)
    BY <1>1, <1>2, <1>5
  <2>2. QED
    BY <2>1 DEF Count
<1>6. QED
  BY <1>3, <1>4, <1>5

\* A place that holds x loses it, and an empty place gets x.
LEMMA CountLess ==
    ASSUME NEW at \in [Places -> Held], NEW to, NEW pl \in Places, NEW x,
           at[pl] = x, x # None, Moved(at, to, pl, None)
    PROVE  Count(to, x) \in Nat /\ Count(at, x) = Count(to, x) + 1
  BY CountFacts, Remapped

LEMMA CountMore ==
    ASSUME NEW at \in [Places -> Held], NEW to, NEW pl \in Places, NEW x,
           at[pl] = None, x # None, Moved(at, to, pl, x)
    PROVE  Count(at, x) \in Nat /\ Count(to, x) = Count(at, x) + 1
  BY CountFacts, Remapped

LEMMA CountOther ==
    ASSUME NEW at \in [Places -> Held], NEW to, NEW pl \in Places, NEW y,
           Moved(at, to, pl, y), NEW x, x # y, at[pl] # x
    PROVE  Refs(to, x) = Refs(at, x) /\ Count(to, x) = Count(at, x)
<1>1. Refs(to, x) = Refs(at, x)
  BY DEF Refs, Moved
<1>2. QED
  BY <1>1 DEF Count

-----------------------------------------------------------------------------
(* What the functions of module Memory change.                             *)

LEMMA ClearFields ==
    ASSUME NEW m \in MemoryType, NEW pl \in Places, NEW r, r = Clear(m, pl)
    PROVE  /\ r \in MemoryType
           /\ r.at = [m.at EXCEPT ![pl] = None]
           /\ r.writable = m.writable \ {pl} /\ r.accessed = m.accessed \ {pl}
           /\ r.dirty = m.dirty \ {pl} /\ r.ref = m.ref /\ r.index = m.index
           /\ r.pg_dirty = m.pg_dirty /\ r.active = m.active /\ r.inactive = m.inactive
           /\ r.free = m.free /\ r.used = m.used /\ r.mem_map = m.mem_map
           /\ r.stale = m.stale
  BY DEF Clear, MemoryType

LEMMA LeaveFields ==
    ASSUME NEW m \in MemoryType, NEW f \in Frames, NEW r, r = LeaveCache(m, f)
    PROVE  /\ r \in MemoryType
           /\ r.at = m.at /\ r.writable = m.writable /\ r.accessed = m.accessed
           /\ r.dirty = m.dirty /\ r.ref = m.ref
           /\ r.index = [m.index EXCEPT ![f] = None]
           /\ r.active = m.active \ {f} /\ r.inactive = m.inactive \ {f}
           /\ r.used = m.used /\ r.mem_map = m.mem_map /\ r.stale = m.stale
           /\ m.ref[f] = 0 => r.free = m.free \cup {f} /\ r.pg_dirty = m.pg_dirty \ {f}
           /\ m.ref[f] # 0 => r.free = m.free /\ r.pg_dirty = m.pg_dirty
  BY DEF LeaveCache, free_page, MemoryType

LEMMA FreeFields ==
    ASSUME NEW m \in MemoryType, NEW f \in Frames, NEW r, r = free_page(m, f)
    PROVE  /\ r \in MemoryType
           /\ r.at = m.at /\ r.writable = m.writable /\ r.accessed = m.accessed
           /\ r.dirty = m.dirty /\ r.ref = m.ref /\ r.index = m.index
           /\ r.active = m.active /\ r.inactive = m.inactive
           /\ r.free = m.free \cup {f} /\ r.used = m.used /\ r.mem_map = m.mem_map
           /\ r.stale = m.stale /\ r.pg_dirty = m.pg_dirty \ {f}
  BY DEF free_page, MemoryType

\* What becomes of the memory when a frame loses a mapping.
FrameRemoved(m, r, pl, f) ==
    /\ r \in MemoryType
    /\ r.at = [m.at EXCEPT ![pl] = None]
    /\ r.writable = m.writable \ {pl} /\ r.accessed = m.accessed \ {pl}
    /\ r.dirty = m.dirty \ {pl} /\ r.ref = [m.ref EXCEPT ![f] = @ - 1]
    /\ r.index = m.index /\ r.active = m.active /\ r.inactive = m.inactive
    /\ r.used = m.used /\ r.mem_map = m.mem_map /\ r.stale = m.stale
    /\ r.free = (IF m.ref[f] = 1 /\ m.index[f] = None THEN m.free \cup {f} ELSE m.free)
    /\ pl \in m.dirty /\ m.index[f] # None => f \in r.pg_dirty
    /\ m.pg_dirty \subseteq r.pg_dirty \cup (IF m.index[f] = None THEN {f} ELSE {})

LEMMA RemoveFrameFields ==
    ASSUME NEW m \in MemoryType, NEW pl \in Places, NEW f \in Frames, m.at[pl] = f,
           m.ref[f] \in Nat \ {0}, NEW r, r = page_remove_pte(m, pl)
    PROVE  FrameRemoved(m, r, pl, f)
<1> DEFINE c == Clear(m, pl)
           d == [c EXCEPT !.pg_dirty = IF pl \in m.dirty /\ m.index[f] # None
                                       THEN @ \cup {f} ELSE @]
<1>1. r = page_ref_dec(d, f)
  BY DEF page_remove_pte
<1>2. /\ c \in MemoryType /\ c.at = [m.at EXCEPT ![pl] = None]
      /\ c.writable = m.writable \ {pl} /\ c.accessed = m.accessed \ {pl}
      /\ c.dirty = m.dirty \ {pl} /\ c.ref = m.ref /\ c.index = m.index
      /\ c.pg_dirty = m.pg_dirty /\ c.active = m.active /\ c.inactive = m.inactive
      /\ c.free = m.free /\ c.used = m.used /\ c.mem_map = m.mem_map /\ c.stale = m.stale
  BY ClearFields
<1> HIDE DEF c
<1>3. /\ d \in MemoryType /\ d.at = c.at /\ d.writable = c.writable
      /\ d.accessed = c.accessed /\ d.dirty = c.dirty /\ d.ref = c.ref /\ d.index = c.index
      /\ d.active = c.active /\ d.inactive = c.inactive
      /\ d.free = c.free /\ d.used = c.used /\ d.mem_map = c.mem_map /\ d.stale = c.stale
      /\ d.pg_dirty = IF pl \in m.dirty /\ m.index[f] # None
                      THEN m.pg_dirty \cup {f} ELSE m.pg_dirty
  BY <1>2 DEF MemoryType
<1> HIDE DEF d
<1> DEFINE less == [d EXCEPT !.ref[f] = @ - 1]
<1>4. d.ref[f] = m.ref[f] /\ m.ref[f] - 1 \in Nat
  BY <1>2, <1>3
<1>5. /\ less \in MemoryType /\ less.at = d.at /\ less.writable = d.writable
      /\ less.accessed = d.accessed /\ less.dirty = d.dirty
      /\ less.ref = [m.ref EXCEPT ![f] = @ - 1] /\ less.index = d.index
      /\ less.active = d.active /\ less.inactive = d.inactive
      /\ less.free = d.free /\ less.used = d.used /\ less.mem_map = d.mem_map
      /\ less.stale = d.stale /\ less.pg_dirty = d.pg_dirty
  BY <1>2, <1>3, <1>4 DEF MemoryType
<1>6. less.ref[f] = m.ref[f] - 1
  BY <1>5 DEF MemoryType
<1>7. r = IF less.ref[f] = 0 /\ d.index[f] = None THEN free_page(less, f) ELSE less
  BY <1>1 DEF page_ref_dec
<1> HIDE DEF less
<1>8. CASE m.ref[f] = 1 /\ m.index[f] = None
  <2>1. r = free_page(less, f)
    BY <1>2, <1>3, <1>6, <1>7, <1>8
  <2>2. /\ r \in MemoryType /\ r.at = less.at /\ r.writable = less.writable
        /\ r.accessed = less.accessed /\ r.dirty = less.dirty
        /\ r.ref = less.ref /\ r.index = less.index
        /\ r.active = less.active /\ r.inactive = less.inactive
        /\ r.free = less.free \cup {f} /\ r.used = less.used /\ r.mem_map = less.mem_map
        /\ r.stale = less.stale /\ r.pg_dirty = less.pg_dirty \ {f}
    BY <1>5, <2>1, FreeFields
  <2>3. QED
    BY <1>2, <1>3, <1>5, <1>8, <2>2 DEF FrameRemoved
<1>9. CASE ~(m.ref[f] = 1 /\ m.index[f] = None)
  <2>1. r = less
    BY <1>2, <1>3, <1>6, <1>7, <1>9
  <2>2. QED
    BY <1>2, <1>3, <1>5, <1>9, <2>1 DEF FrameRemoved
<1>10. QED
  BY <1>8, <1>9

\* What becomes of the frames and of the entry e when a reference to e goes.
EntryRemoved(m, r, e) ==
    \/ /\ m.mem_map[e] > 1 \/ \E f \in Cached(m, e) : m.ref[f] # 0
       /\ r.index = m.index /\ r.active = m.active /\ r.inactive = m.inactive
       /\ r.free = m.free /\ r.used = m.used /\ r.pg_dirty = m.pg_dirty
    \/ /\ m.mem_map[e] = 1 /\ Cached(m, e) = {}
       /\ r.index = m.index /\ r.active = m.active /\ r.inactive = m.inactive
       /\ r.free = m.free /\ r.used = m.used \ {e} /\ r.pg_dirty = m.pg_dirty
    \/ \E f \in Cached(m, e) :
       /\ m.mem_map[e] = 1 /\ m.ref[f] = 0
       /\ r.index = [m.index EXCEPT ![f] = None]
       /\ r.active = m.active \ {f} /\ r.inactive = m.inactive \ {f}
       /\ r.free = m.free \cup {f} /\ r.used = m.used \ {e}
       /\ r.pg_dirty = m.pg_dirty \ {f}

\* A swap entry loses a reference: nothing but its count changes, or it is not
\* used any more, and its cached page goes with it.
LEMMA RemoveEntryFields ==
    ASSUME NEW m \in MemoryType, NEW pl \in Places, NEW e \in Entries, m.at[pl] = e,
           m.mem_map[e] \in Nat \ {0}, NEW r, r = page_remove_pte(m, pl)
    PROVE  /\ r \in MemoryType
           /\ r.at = [m.at EXCEPT ![pl] = None]
           /\ r.writable = m.writable \ {pl} /\ r.accessed = m.accessed \ {pl}
           /\ r.dirty = m.dirty \ {pl} /\ r.ref = m.ref /\ r.stale = m.stale
           /\ r.mem_map = [m.mem_map EXCEPT ![e] = @ - 1]
           /\ EntryRemoved(m, r, e)
<1> DEFINE c == Clear(m, pl)
           less == [c EXCEPT !.mem_map[e] = @ - 1]
           gone == [less EXCEPT !.used = @ \ {e}]
<1>1. /\ c \in MemoryType /\ c.at = [m.at EXCEPT ![pl] = None]
      /\ c.writable = m.writable \ {pl} /\ c.accessed = m.accessed \ {pl}
      /\ c.dirty = m.dirty \ {pl} /\ c.ref = m.ref /\ c.index = m.index
      /\ c.pg_dirty = m.pg_dirty /\ c.active = m.active /\ c.inactive = m.inactive
      /\ c.free = m.free /\ c.used = m.used /\ c.mem_map = m.mem_map /\ c.stale = m.stale
  BY ClearFields
<1>2. Cached(c, e) = Cached(m, e)
  BY <1>1 DEF Cached
<1>3. r = swap_remove_entry(c, e)
  BY MemoryAssumption DEF page_remove_pte
<1> HIDE DEF c
<1>4. m.mem_map[e] - 1 \in Nat
  OBVIOUS
<1>5. /\ less \in MemoryType /\ less.at = c.at /\ less.writable = c.writable
      /\ less.accessed = c.accessed /\ less.dirty = c.dirty /\ less.ref = c.ref
      /\ less.index = c.index /\ less.active = c.active /\ less.inactive = c.inactive
      /\ less.free = c.free /\ less.used = c.used /\ less.stale = c.stale
      /\ less.pg_dirty = c.pg_dirty
      /\ less.mem_map = [m.mem_map EXCEPT ![e] = @ - 1]
      /\ less.mem_map[e] = m.mem_map[e] - 1
  BY <1>1, <1>4 DEF MemoryType
<1> HIDE DEF less
<1>6. /\ gone \in MemoryType /\ gone.at = c.at /\ gone.writable = c.writable
      /\ gone.accessed = c.accessed /\ gone.dirty = c.dirty /\ gone.ref = c.ref
      /\ gone.index = c.index /\ gone.active = c.active /\ gone.inactive = c.inactive
      /\ gone.free = c.free /\ gone.used = c.used \ {e} /\ gone.stale = c.stale
      /\ gone.pg_dirty = c.pg_dirty /\ gone.mem_map = less.mem_map
  BY <1>5 DEF MemoryType
<1> HIDE DEF gone
<1>7. r = IF less.mem_map[e] > 0 \/ \E f \in Cached(c, e) : c.ref[f] # 0 THEN less
          ELSE IF Cached(c, e) = {} THEN gone
               ELSE LeaveCache(gone, CHOOSE f \in Cached(c, e) : TRUE)
  BY <1>3 DEF swap_remove_entry, less, gone
<1>8. CASE m.mem_map[e] > 1 \/ \E f \in Cached(m, e) : m.ref[f] # 0
  <2>1. r = less
    BY <1>1, <1>2, <1>5, <1>7, <1>8
  <2>2. QED
    BY <1>1, <1>5, <1>8, <2>1 DEF EntryRemoved
<1>9. CASE m.mem_map[e] = 1 /\ Cached(m, e) = {}
  <2>1. r = gone
    BY <1>1, <1>2, <1>5, <1>7, <1>9
  <2>2. QED
    BY <1>1, <1>5, <1>6, <1>9, <2>1 DEF EntryRemoved
<1>10. CASE m.mem_map[e] = 1 /\ Cached(m, e) # {} /\ ~\E f \in Cached(m, e) : m.ref[f] # 0
  <2> DEFINE f == CHOOSE f \in Cached(m, e) : TRUE
  <2>1. f \in Cached(m, e)
    BY <1>10
  <2>2. f \in Frames /\ m.ref[f] = 0
    BY <1>10, <2>1 DEF Cached
  <2>3. r = LeaveCache(gone, f)
    BY <1>1, <1>2, <1>5, <1>7, <1>10
  <2> HIDE DEF f
  <2>4. gone \in MemoryType /\ gone.ref[f] = 0
    BY <1>1, <1>6, <2>2
  <2>5. /\ r \in MemoryType
        /\ r.at = gone.at /\ r.writable = gone.writable /\ r.accessed = gone.accessed
        /\ r.dirty = gone.dirty /\ r.ref = gone.ref
        /\ r.index = [gone.index EXCEPT ![f] = None]
        /\ r.active = gone.active \ {f} /\ r.inactive = gone.inactive \ {f}
        /\ r.free = gone.free \cup {f} /\ r.pg_dirty = gone.pg_dirty \ {f}
        /\ r.used = gone.used /\ r.mem_map = gone.mem_map /\ r.stale = gone.stale
    BY ONLY <2>2, <2>3, <2>4, LeaveFields
  <2>6. m.mem_map[e] = 1 /\ m.ref[f] = 0
    BY <1>10, <2>2
  <2>7. /\ r \in MemoryType /\ r.at = [m.at EXCEPT ![pl] = None]
        /\ r.writable = m.writable \ {pl} /\ r.accessed = m.accessed \ {pl}
        /\ r.dirty = m.dirty \ {pl} /\ r.ref = m.ref /\ r.stale = m.stale
        /\ r.mem_map = [m.mem_map EXCEPT ![e] = @ - 1]
        /\ r.index = [m.index EXCEPT ![f] = None]
        /\ r.active = m.active \ {f} /\ r.inactive = m.inactive \ {f}
        /\ r.free = m.free \cup {f} /\ r.used = m.used \ {e}
        /\ r.pg_dirty = m.pg_dirty \ {f}
    BY <1>1, <1>5, <1>6, <2>5
  <2>8. QED
    BY <2>1, <2>6, <2>7 DEF EntryRemoved
<1>11. m.mem_map[e] > 1 \/ m.mem_map[e] = 1
  OBVIOUS
<1>12. QED
  BY <1>8, <1>9, <1>10, <1>11

-----------------------------------------------------------------------------
(* page_remove_pte() keeps the books.                                      *)

\* The new content y of a place is not what a private writable page is about,
\* and no page of those joins the swap cache.
Untouched(m, r, y) ==
    \A q \in r.writable : q[2] \notin Shared =>
        /\ y # m.at[q]
        /\ \/ r.index[m.at[q]] = None
           \/ r.index[m.at[q]] = m.index[m.at[q]] /\ y # m.index[m.at[q]]

LEMMA PrivateStays ==
    ASSUME NEW m \in MemoryType, NEW r \in MemoryType, Private(m), NEW pl \in Places,
           NEW y, Moved(m.at, r.at, pl, y), r.writable \subseteq m.writable \ {pl},
           Untouched(m, r, y)
    PROVE  Private(r)
<1> SUFFICES ASSUME NEW q \in r.writable
             PROVE  /\ r.at[q] \in Frames
                    /\ q[2] \notin Shared =>
                          /\ Refs(r.at, r.at[q]) = {q}
                          /\ r.index[r.at[q]] # None => Refs(r.at, r.index[r.at[q]]) = {}
  BY DEF Private
<1>1. /\ q \in Places /\ q # pl /\ q \in m.writable
      /\ m.at \in [Places -> Frames \cup Entries \cup {None}]
      /\ r.at = [m.at EXCEPT ![pl] = y]
      /\ q[2] \notin Shared =>
            /\ y # m.at[q]
            /\ \/ r.index[m.at[q]] = None
               \/ r.index[m.at[q]] = m.index[m.at[q]] /\ y # m.index[m.at[q]]
  BY DEF MemoryType, Moved, Untouched
<1>2. r.at[q] = m.at[q] /\ m.at[q] \in Frames
  BY <1>1 DEF Private
<1>3. ASSUME q[2] \notin Shared
      PROVE  /\ Refs(r.at, m.at[q]) = {q}
             /\ r.index[m.at[q]] # None => Refs(r.at, r.index[m.at[q]]) = {}
  <2>1. /\ Refs(m.at, m.at[q]) = {q}
        /\ m.index[m.at[q]] # None => Refs(m.at, m.index[m.at[q]]) = {}
    BY <1>1, <1>3 DEF Private
  <2>2. Refs(r.at, m.at[q]) = {q}
    BY <1>1, <1>3, <2>1 DEF Refs
  <2>3. ASSUME r.index[m.at[q]] # None PROVE Refs(r.at, r.index[m.at[q]]) = {}
    BY <1>1, <1>3, <2>1, <2>3 DEF Refs
  <2>4. QED
    BY <2>2, <2>3
<1>4. QED
  BY <1>2, <1>3

\* What the callers of page_remove_pte() need to know of its result.
Removed(m, r, pl) ==
    /\ Moved(m.at, r.at, pl, None)
    /\ r.writable \subseteq m.writable \ {pl}
    /\ r.used \subseteq m.used /\ r.stale = m.stale
    /\ m.at[pl] = None => r.used = m.used
    /\ r.inactive \subseteq m.inactive /\ m.free \subseteq r.free
    /\ \A h \in Frames : r.index[h] \in {m.index[h], None}
    /\ \A h \in Frames : m.ref[h] # 0 /\ m.at[pl] # h => h \notin r.free \ m.free

LEMMA RemoveFrameSafe ==
    ASSUME NEW m, NEW g, NEW T, NEW U, Books(m, g, T, U), Private(m),
           NEW pl \in Places, m.at[pl] \in Frames, NEW r, r = page_remove_pte(m, pl)
    PROVE  Books(r, g, T, U) /\ Private(r) /\ Removed(m, r, pl)
<1> DEFINE f == m.at[pl]
<1>0. m \in MemoryType /\ m.at \in [Places -> Frames \cup Entries \cup {None}]
      /\ f \in Frames /\ f \notin Entries \cup {None}
      /\ m.ref \in [Frames -> Nat] /\ m.index \in [Frames -> Entries \cup {None}]
      /\ m.used \subseteq Entries
  BY MemoryAssumption DEF Books, MemoryType
<1>1. pl \in Refs(m.at, f) /\ Count(m.at, f) \in Nat \ {0}
  BY CountFacts DEF Refs
<1>2. m.ref[f] = Count(m.at, f) + (IF f = g THEN 1 ELSE 0) /\ m.ref[f] \in Nat \ {0}
  BY <1>0, <1>1 DEF Books, Counts
<1>3. /\ r \in MemoryType
      /\ r.at = [m.at EXCEPT ![pl] = None]
      /\ r.writable = m.writable \ {pl} /\ r.accessed = m.accessed \ {pl}
      /\ r.dirty = m.dirty \ {pl} /\ r.ref = [m.ref EXCEPT ![f] = @ - 1]
      /\ r.index = m.index /\ r.active = m.active /\ r.inactive = m.inactive
      /\ r.used = m.used /\ r.mem_map = m.mem_map /\ r.stale = m.stale
      /\ r.free = (IF m.ref[f] = 1 /\ m.index[f] = None THEN m.free \cup {f} ELSE m.free)
      /\ pl \in m.dirty /\ m.index[f] # None => f \in r.pg_dirty
      /\ m.pg_dirty \subseteq r.pg_dirty \cup (IF m.index[f] = None THEN {f} ELSE {})
  <2>1. /\ m \in MemoryType /\ pl \in Places /\ f \in Frames /\ m.at[pl] = f
        /\ m.ref[f] \in Nat \ {0} /\ r = page_remove_pte(m, pl)
    BY <1>0, <1>2
  <2> HIDE DEF f
  <2>2. FrameRemoved(m, r, pl, f)
    BY <2>1, RemoveFrameFields
  <2>3. QED
    BY <2>2 DEF FrameRemoved
<1> HIDE DEF f
<1>4. /\ Count(r.at, f) \in Nat /\ Count(m.at, f) = Count(r.at, f) + 1
      /\ Refs(r.at, f) = Refs(m.at, f) \ {pl}
      /\ \A x : x # f /\ x # None =>
            Refs(r.at, x) = Refs(m.at, x) /\ Count(r.at, x) = Count(m.at, x)
  <2>1. f # None /\ m.at[pl] = f /\ Moved(m.at, r.at, pl, None) /\ m.at \in [Places -> Held]
    BY <1>0, <1>3 DEF f, Moved, Held
  <2>2. Count(r.at, f) \in Nat /\ Count(m.at, f) = Count(r.at, f) + 1
    BY <2>1, CountLess
  <2>3. Refs(r.at, f) = Refs(m.at, f) \ {pl}
    BY <2>1 DEF Refs, Moved
  <2>4. ASSUME NEW x, x # f, x # None
        PROVE  Refs(r.at, x) = Refs(m.at, x) /\ Count(r.at, x) = Count(m.at, x)
    BY <2>1, <2>4, CountOther
  <2>5. QED
    BY <2>2, <2>3, <2>4
<1>5. Counts(r, g, T)
  <2>1. ASSUME NEW h \in Frames, h # f
        PROVE  /\ r.ref[h] = Count(r.at, h) + (IF h = g THEN 1 ELSE 0)
               /\ h \in r.free <=> Refs(r.at, h) = {} /\ r.index[h] = None /\ h \notin T /\ h # g
               /\ h \in T => Refs(r.at, h) = {} /\ r.index[h] = None /\ h # g
    <3>1. Refs(r.at, h) = Refs(m.at, h) /\ Count(r.at, h) = Count(m.at, h)
      BY <1>4, <2>1, MemoryAssumption
    <3>2. r.ref[h] = m.ref[h] /\ (h \in r.free <=> h \in m.free) /\ r.index[h] = m.index[h]
      BY <1>0, <1>3, <2>1
    <3>3. QED
      BY <3>1, <3>2 DEF Books, Counts
  <2>2. /\ r.ref[f] = Count(r.at, f) + (IF f = g THEN 1 ELSE 0)
        /\ f \in r.free <=> Refs(r.at, f) = {} /\ r.index[f] = None /\ f \notin T /\ f # g
        /\ f \in T => Refs(r.at, f) = {} /\ r.index[f] = None /\ f # g
    <3>1. r.ref[f] = m.ref[f] - 1 /\ f \notin m.free /\ f \notin T
      BY <1>0, <1>1, <1>3 DEF Books, Counts
    <3>2. Refs(r.at, f) = {} <=> Count(m.at, f) = 1
      BY <1>1, <1>4, CountFacts
    <3>3. QED
      BY <1>1, <1>2, <1>3, <1>4, <3>1, <3>2
  <2>3. \A e \in Entries : /\ Refs(r.at, e) = Refs(m.at, e)
                           /\ Count(r.at, e) = Count(m.at, e)
                           /\ Cached(r, e) = Cached(m, e)
    BY <1>0, <1>3, <1>4, MemoryAssumption DEF Cached
  <2>4. QED
    BY <1>0, <1>3, <2>1, <2>2, <2>3 DEF Books, Counts
<1>6. Caches(r)
  BY <1>3 DEF Books, Caches
<1>7. Known(r, U)
  <2>1. r.dirty \subseteq Spaces \X Pages
    BY <1>3 DEF Books, Known
  <2>2. ASSUME NEW e \in (m.stale \cap m.used) \ U
        PROVE  \E h \in Cached(r, e) : h \in r.pg_dirty \/ Refs(r.at, h) \cap r.dirty # {}
    <3>1. PICK h \in Cached(m, e) : h \in m.pg_dirty \/ Refs(m.at, h) \cap m.dirty # {}
      BY DEF Books, Known
    <3>2. h \in Cached(r, e) /\ h \in Frames /\ m.index[h] # None
      BY <1>0, <1>3, <3>1, MemoryAssumption DEF Cached
    <3>3. CASE h \in m.pg_dirty
      BY <1>3, <3>2, <3>3
    <3>4. CASE Refs(m.at, h) \cap m.dirty # {}
      <4>1. PICK q \in m.dirty : q \in Places /\ m.at[q] = h
        BY <3>4 DEF Refs
      <4>2. CASE q = pl
        BY <1>3, <3>2, <4>1, <4>2 DEF f
      <4>3. CASE q # pl
        <5>1. q \in Refs(r.at, h) \cap r.dirty
          BY <1>0, <1>3, <4>1, <4>3 DEF Refs
        <5>2. QED
          BY <3>2, <5>1
      <4>4. QED
        BY <4>2, <4>3
    <3>5. QED
      BY <3>1, <3>3, <3>4
  <2>3. QED
    BY <1>3, <2>1, <2>2 DEF Known
<1>8. Removed(m, r, pl)
  <2>1. \A h \in Frames : r.index[h] \in {m.index[h], None}
    BY <1>3
  <2>2. \A h \in Frames : m.ref[h] # 0 /\ m.at[pl] # h => h \notin r.free \ m.free
    BY <1>3 DEF f
  <2>3. QED
    BY <1>3, <2>1, <2>2 DEF Removed, Moved
<1>9. Private(r)
  <2>1. \A q \in r.writable : None # m.at[q]
    BY <1>3, MemoryAssumption DEF Private
  <2>2. Untouched(m, r, None)
    BY <1>3, <2>1 DEF Untouched
  <2>3. Moved(m.at, r.at, pl, None) /\ r.writable \subseteq m.writable \ {pl}
    BY <1>3 DEF Moved
  <2>4. QED
    BY <1>0, <1>3, <2>2, <2>3, PrivateStays
<1>10. QED
  BY <1>3, <1>5, <1>6, <1>7, <1>8, <1>9 DEF Books

LEMMA RemoveEntrySafe ==
    ASSUME NEW m, NEW g, NEW T, NEW U, Books(m, g, T, U), Private(m),
           NEW pl \in Places, m.at[pl] \in Entries, NEW r, r = page_remove_pte(m, pl)
    PROVE  Books(r, g, T, U) /\ Private(r) /\ Removed(m, r, pl)
<1> DEFINE e == m.at[pl]
<1>0. m \in MemoryType /\ m.at \in [Places -> Frames \cup Entries \cup {None}]
      /\ e \in Entries /\ e \notin Frames \cup {None}
      /\ m.ref \in [Frames -> Nat] /\ m.index \in [Frames -> Entries \cup {None}]
      /\ m.used \subseteq Entries /\ m.mem_map \in [Entries -> Nat]
  BY MemoryAssumption DEF Books, MemoryType
<1>1. pl \in Refs(m.at, e) /\ Count(m.at, e) \in Nat \ {0}
  BY CountFacts DEF Refs
<1>2. e \in m.used /\ m.mem_map[e] = Count(m.at, e) /\ m.mem_map[e] \in Nat \ {0}
  BY <1>0, <1>1 DEF Books, Counts
<1>3. /\ r \in MemoryType
      /\ r.at = [m.at EXCEPT ![pl] = None]
      /\ r.writable = m.writable \ {pl}
      /\ r.dirty = m.dirty \ {pl} /\ r.ref = m.ref /\ r.stale = m.stale
      /\ r.mem_map = [m.mem_map EXCEPT ![e] = @ - 1]
  BY <1>0, <1>2, RemoveEntryFields
<1>4. EntryRemoved(m, r, e)
  BY <1>0, <1>2, RemoveEntryFields
<1>5. e # None /\ m.at[pl] = e /\ Moved(m.at, r.at, pl, None) /\ m.at \in [Places -> Held]
  BY <1>0, <1>3 DEF Moved, Held
<1> HIDE DEF e
<1>6. /\ Count(r.at, e) \in Nat /\ Count(m.at, e) = Count(r.at, e) + 1
      /\ Refs(r.at, e) = {} <=> m.mem_map[e] = 1
      /\ \A x : x # e /\ x # None =>
            Refs(r.at, x) = Refs(m.at, x) /\ Count(r.at, x) = Count(m.at, x)
  <2>1. Count(r.at, e) \in Nat /\ Count(m.at, e) = Count(r.at, e) + 1
    BY <1>5, CountLess
  <2>2. Refs(r.at, e) = {} <=> Count(r.at, e) = 0
    BY CountFacts
  <2>3. ASSUME NEW x, x # e, x # None
        PROVE  Refs(r.at, x) = Refs(m.at, x) /\ Count(r.at, x) = Count(m.at, x)
    BY <1>5, <2>3, CountOther
  <2>4. QED
    BY <1>2, <2>1, <2>2, <2>3
<1>7. r.mem_map[e] = Count(r.at, e) /\ \A x \in m.used \ {e} : r.mem_map[x] = Count(r.at, x)
  <2>1. ASSUME NEW x \in m.used \ {e} PROVE r.mem_map[x] = Count(r.at, x)
    BY <1>0, <1>3, <1>6, MemoryAssumption DEF Books, Counts
  <2>2. QED
    BY <1>0, <1>2, <1>3, <1>6, <2>1
<1>8. \A h \in Frames : Refs(r.at, h) = Refs(m.at, h) /\ Count(r.at, h) = Count(m.at, h)
  BY <1>0, <1>6, MemoryAssumption
<1>9. \A x \in Entries \ m.used : Refs(r.at, x) = {}
  BY <1>2, <1>6, MemoryAssumption DEF Books, Counts
<1>10. /\ r.dirty \subseteq Spaces \X Pages
       /\ \A h \in Frames : Refs(r.at, h) \cap r.dirty = Refs(m.at, h) \cap m.dirty
  <2>1. ASSUME NEW h \in Frames PROVE pl \notin Refs(m.at, h)
    BY <1>0, <1>5 DEF Refs
  <2>2. QED
    BY <1>3, <1>8, <2>1 DEF Books, Known
<1>11. ASSUME \A h \in Frames : r.index[h] \in {m.index[h], None}
       PROVE  Private(r)
  <2>1. \A q \in r.writable : m.at[q] \in Frames
    BY <1>3 DEF Private
  <2>2. Untouched(m, r, None)
    BY <1>11, <2>1, MemoryAssumption DEF Untouched
  <2>3. r.writable \subseteq m.writable \ {pl}
    BY <1>3
  <2>4. QED
    BY <1>0, <1>3, <1>5, <2>2, <2>3, PrivateStays
<1>12. ASSUME r.index = m.index, r.active = m.active, r.inactive = m.inactive,
              r.free = m.free, r.used \subseteq m.used, r.pg_dirty = m.pg_dirty
       PROVE  /\ Known(r, U) /\ Private(r) /\ Removed(m, r, pl)
              /\ \A x : Cached(r, x) = Cached(m, x)
  <2>1. \A x : Cached(r, x) = Cached(m, x)
    BY <1>12 DEF Cached
  <2>2. Known(r, U)
    <3>1. ASSUME NEW x \in (r.stale \cap r.used) \ U
          PROVE  \E f \in Cached(r, x) : f \in r.pg_dirty \/ Refs(r.at, f) \cap r.dirty # {}
      <4>1. PICK f \in Cached(m, x) : f \in m.pg_dirty \/ Refs(m.at, f) \cap m.dirty # {}
        BY <1>3, <1>12 DEF Books, Known
      <4>2. f \in Frames
        BY DEF Cached
      <4>3. QED
        BY <1>10, <1>12, <2>1, <4>1, <4>2
    <3>2. QED
      BY <1>10, <3>1 DEF Known
  <2>3. QED
    BY <1>3, <1>5, <1>11, <1>12, <2>1, <2>2 DEF Removed
<1>13. CASE /\ m.mem_map[e] > 1 \/ \E f \in Cached(m, e) : m.ref[f] # 0
            /\ r.index = m.index /\ r.active = m.active /\ r.inactive = m.inactive
            /\ r.free = m.free /\ r.used = m.used /\ r.pg_dirty = m.pg_dirty
  <2>1. \A x \in m.used : Refs(r.at, x) # {} \/ Cached(r, x) # {}
    BY <1>0, <1>6, <1>12, <1>13, MemoryAssumption DEF Books, Counts
  <2>2. Counts(r, g, T)
    BY <1>2, <1>3, <1>7, <1>8, <1>9, <1>13, <2>1 DEF Books, Counts
  <2>3. Caches(r)
    BY <1>13 DEF Books, Caches
  <2>4. QED
    BY <1>3, <1>12, <1>13, <2>2, <2>3 DEF Books
<1>14. CASE /\ m.mem_map[e] = 1 /\ Cached(m, e) = {}
            /\ r.index = m.index /\ r.active = m.active /\ r.inactive = m.inactive
            /\ r.free = m.free /\ r.used = m.used \ {e} /\ r.pg_dirty = m.pg_dirty
  <2>1. \A x \in r.used : Refs(r.at, x) # {} \/ Cached(r, x) # {}
    BY <1>0, <1>6, <1>12, <1>14, MemoryAssumption DEF Books, Counts
  <2>2. Counts(r, g, T)
    <3>1. \A x \in Entries \ r.used : Refs(r.at, x) = {}
      BY <1>6, <1>9, <1>14
    <3>2. QED
      BY <1>3, <1>7, <1>8, <1>14, <2>1, <3>1 DEF Books, Counts
  <2>3. Caches(r)
    BY <1>0, <1>14 DEF Books, Caches, Cached
  <2>4. QED
    BY <1>3, <1>12, <1>14, <2>2, <2>3 DEF Books
<1>15. CASE \E f \in Cached(m, e) :
            /\ m.mem_map[e] = 1 /\ m.ref[f] = 0
            /\ r.index = [m.index EXCEPT ![f] = None]
            /\ r.active = m.active \ {f} /\ r.inactive = m.inactive \ {f}
            /\ r.free = m.free \cup {f} /\ r.used = m.used \ {e}
            /\ r.pg_dirty = m.pg_dirty \ {f}
  <2>1. PICK f \in Cached(m, e) :
            /\ m.mem_map[e] = 1 /\ m.ref[f] = 0
            /\ r.index = [m.index EXCEPT ![f] = None]
            /\ r.active = m.active \ {f} /\ r.inactive = m.inactive \ {f}
            /\ r.free = m.free \cup {f} /\ r.used = m.used \ {e}
            /\ r.pg_dirty = m.pg_dirty \ {f}
    BY <1>15
  <2>2. f \in Frames /\ m.index[f] = e /\ \A h \in Frames : m.index[h] = e => h = f
    BY <1>0, <2>1 DEF Cached, Books, Caches
  <2>3. Refs(m.at, f) = {} /\ f # g /\ f \notin T /\ f \notin m.free
    BY <1>0, <2>1, <2>2, CountFacts DEF Books, Counts
  <2>4. \A x : x # e /\ x # None => Cached(r, x) = Cached(m, x)
    BY <1>0, <2>1, <2>2 DEF Cached
  <2>5. /\ \A h \in Frames \ {f} : r.index[h] = m.index[h]
        /\ r.index[f] = None
    BY <1>0, <2>1, <2>2
  <2>6. Counts(r, g, T)
    <3>1. \A h \in Frames :
             /\ r.ref[h] = Count(r.at, h) + (IF h = g THEN 1 ELSE 0)
             /\ h \in T => Refs(r.at, h) = {} /\ r.index[h] = None /\ h # g
      BY <1>3, <1>8, <2>3, <2>5 DEF Books, Counts
    <3>2. \A h \in Frames :
             h \in r.free <=> Refs(r.at, h) = {} /\ r.index[h] = None /\ h \notin T /\ h # g
      BY <1>8, <2>1, <2>2, <2>3, <2>5 DEF Books, Counts
    <3>3. \A x \in r.used : Refs(r.at, x) # {} \/ Cached(r, x) # {}
      BY <1>0, <1>6, <2>1, <2>4, MemoryAssumption DEF Books, Counts
    <3>4. \A x \in Entries \ r.used : Refs(r.at, x) = {}
      BY <1>6, <1>9, <2>1
    <3>5. QED
      BY <1>7, <2>1, <3>1, <3>2, <3>3, <3>4 DEF Counts
  <2>7. Caches(r)
    <3>1. \A h \in Frames : r.index[h] # None =>
             r.index[h] \in r.used /\ \A k \in Frames : r.index[k] = r.index[h] => k = h
      BY <2>1, <2>2, <2>5 DEF Books, Caches
    <3>2. \A h \in Frames : r.index[h] # None <=> h \in r.active \cup r.inactive
      BY <2>1, <2>2, <2>5 DEF Books, Caches
    <3>3. r.active \cap r.inactive = {}
      BY <2>1 DEF Books, Caches
    <3>4. QED
      BY <3>1, <3>2, <3>3 DEF Caches
  <2>8. Known(r, U)
    <3>1. ASSUME NEW x \in (r.stale \cap r.used) \ U
          PROVE  \E h \in Cached(r, x) : h \in r.pg_dirty \/ Refs(r.at, h) \cap r.dirty # {}
      <4>1. PICK h \in Cached(m, x) : h \in m.pg_dirty \/ Refs(m.at, h) \cap m.dirty # {}
        BY <1>3, <2>1 DEF Books, Known
      <4>2. x # e /\ x # None
        BY <1>0, <2>1, MemoryAssumption
      <4>3. h \in Frames /\ h # f /\ h \in Cached(r, x)
        BY <2>2, <2>4, <4>1, <4>2 DEF Cached
      <4>4. QED
        BY <1>10, <2>1, <4>1, <4>3
    <3>2. QED
      BY <1>10, <3>1 DEF Known
  <2>9. Removed(m, r, pl) /\ Private(r)
    <3>1. \A h \in Frames : r.index[h] \in {m.index[h], None}
      BY <2>5
    <3>2. \A h \in Frames : m.ref[h] # 0 /\ m.at[pl] # h => h \notin r.free \ m.free
      BY <2>1
    <3>3. r.used \subseteq m.used /\ r.inactive \subseteq m.inactive /\ m.free \subseteq r.free
      BY <2>1
    <3>4. QED
      BY <1>3, <1>5, <1>11, <3>1, <3>2, <3>3 DEF Removed
  <2>10. QED
    BY <1>3, <2>6, <2>7, <2>8, <2>9 DEF Books
<1>16. QED
  BY <1>4, <1>13, <1>14, <1>15 DEF EntryRemoved

LEMMA RemoveSafe ==
    ASSUME NEW m, NEW g, NEW T, NEW U, Books(m, g, T, U), Private(m),
           NEW pl \in Places, NEW r, r = page_remove_pte(m, pl)
    PROVE  Books(r, g, T, U) /\ Private(r) /\ Removed(m, r, pl)
<1>0. m.at \in [Places -> Frames \cup Entries \cup {None}]
  BY DEF Books, MemoryType
<1>1. CASE m.at[pl] \in Frames \cup Entries
  BY <1>1, RemoveFrameSafe, RemoveEntrySafe
<1>2. CASE m.at[pl] = None
  <2>1. r = m
    BY <1>2, MemoryAssumption DEF page_remove_pte
  <2>2. pl \notin m.writable
    BY <1>2, MemoryAssumption DEF Private
  <2>3. Moved(m.at, m.at, pl, None)
    BY <1>0, <1>2 DEF Moved
  <2>4. QED
    BY <2>1, <2>2, <2>3 DEF Removed
<1>3. QED
  BY <1>0, <1>1, <1>2

-----------------------------------------------------------------------------
(* The steps page_insert() and the page faults are made of.                *)

LEMMA TypeFacts ==
    ASSUME NEW m \in MemoryType
    PROVE  /\ m.at \in [Places -> Held]
           /\ m.ref \in [Frames -> Nat] /\ m.index \in [Frames -> Entries \cup {None}]
           /\ m.writable \subseteq Places /\ m.used \subseteq Entries
           /\ m.mem_map \in [Entries -> Nat] /\ m.free \subseteq Frames
           /\ m.stale \subseteq Entries
           /\ m.active \subseteq Frames /\ m.inactive \subseteq Frames
           /\ Frames \cap Entries = {} /\ None \notin Frames /\ None \notin Entries
  BY MemoryAssumption DEF MemoryType, Held

\* A frame is allocated, and given back.
LEMMA TakeSafe ==
    ASSUME NEW m, NEW g, NEW T, NEW U, Books(m, g, T, U), Private(m),
           NEW f \in m.free, NEW r, r = [m EXCEPT !.free = @ \ {f}]
    PROVE  /\ Books(r, g, T \cup {f}, U) /\ Private(r) /\ f \in Frames
           /\ r.at = m.at /\ r.index = m.index /\ r.writable = m.writable
           /\ r.inactive = m.inactive /\ r.used = m.used /\ r.stale = m.stale
<1>1. m \in MemoryType /\ f \in Frames
  BY DEF Books, MemoryType
<1>2. /\ r \in MemoryType /\ r.free = m.free \ {f}
      /\ r.at = m.at /\ r.writable = m.writable /\ r.dirty = m.dirty /\ r.ref = m.ref
      /\ r.index = m.index /\ r.pg_dirty = m.pg_dirty /\ r.active = m.active
      /\ r.inactive = m.inactive /\ r.used = m.used /\ r.mem_map = m.mem_map
      /\ r.stale = m.stale
  BY <1>1 DEF MemoryType
<1>3. \A e : Cached(r, e) = Cached(m, e)
  BY <1>2 DEF Cached
<1>4. Counts(r, g, T \cup {f})
  BY <1>1, <1>2, <1>3 DEF Books, Counts
<1>5. Caches(r) /\ Private(r)
  BY <1>2 DEF Books, Caches, Private
<1>6. Known(r, U)
  BY <1>2, <1>3 DEF Books, Known
<1>7. QED
  BY <1>1, <1>2, <1>4, <1>5, <1>6 DEF Books

LEMMA FreeSafe ==
    ASSUME NEW m, NEW g, NEW T, NEW U, Books(m, g, T, U), Private(m),
           NEW f \in T, f \in Frames, NEW r, r = free_page(m, f)
    PROVE  /\ Books(r, g, T \ {f}, U) /\ Private(r)
           /\ r.at = m.at /\ r.index = m.index /\ r.writable = m.writable
           /\ r.inactive = m.inactive /\ r.used = m.used /\ r.stale = m.stale
<1>1. m \in MemoryType /\ m.index[f] = None
  BY DEF Books, Counts
<1>2. /\ r \in MemoryType /\ r.free = m.free \cup {f}
      /\ r.at = m.at /\ r.writable = m.writable /\ r.dirty = m.dirty /\ r.ref = m.ref
      /\ r.index = m.index /\ r.pg_dirty = m.pg_dirty \ {f} /\ r.active = m.active
      /\ r.inactive = m.inactive /\ r.used = m.used /\ r.mem_map = m.mem_map
      /\ r.stale = m.stale
  BY <1>1, FreeFields
<1>3. \A e : Cached(r, e) = Cached(m, e)
  BY <1>2 DEF Cached
<1>4. Counts(r, g, T \ {f})
  BY <1>1, <1>2, <1>3 DEF Books, Counts
<1>5. \A e \in Entries : f \notin Cached(m, e)
  BY <1>1, MemoryAssumption DEF Cached
<1>6. Known(r, U)
  BY <1>1, <1>2, <1>3, <1>5 DEF Books, Known, MemoryType
<1>7. QED
  BY <1>1, <1>2, <1>3, <1>4, <1>6 DEF Books, Caches, Private

\* page_ref_inc() ahead of a new mapping.
LEMMA ReserveSafe ==
    ASSUME NEW m, NEW T, NEW U, Books(m, None, T, U), Private(m),
           NEW f \in Frames, f \notin m.free, NEW r, r = [m EXCEPT !.ref[f] = @ + 1]
    PROVE  /\ Books(r, f, T \ {f}, U) /\ Private(r)
           /\ r.at = m.at /\ r.index = m.index /\ r.writable = m.writable
           /\ r.inactive = m.inactive /\ r.used = m.used /\ r.stale = m.stale
<1>1. m \in MemoryType /\ m.ref \in [Frames -> Nat]
  BY DEF Books, MemoryType
<1>2. /\ r \in MemoryType /\ r.free = m.free
      /\ r.at = m.at /\ r.writable = m.writable /\ r.dirty = m.dirty
      /\ r.ref = [m.ref EXCEPT ![f] = @ + 1]
      /\ r.index = m.index /\ r.pg_dirty = m.pg_dirty /\ r.active = m.active
      /\ r.inactive = m.inactive /\ r.used = m.used /\ r.mem_map = m.mem_map
      /\ r.stale = m.stale
  BY <1>1 DEF MemoryType
<1>3. \A e : Cached(r, e) = Cached(m, e)
  BY <1>2 DEF Cached
<1>4. \A h \in Frames : r.ref[h] = Count(m.at, h) + (IF h = f THEN 1 ELSE 0)
  BY <1>1, <1>2, MemoryAssumption, CountFacts DEF Books, Counts
<1>5. \A h \in Frames :
         /\ h \in m.free <=> /\ Refs(m.at, h) = {} /\ m.index[h] = None
                             /\ h \notin T \ {f} /\ h # f
         /\ h \in T \ {f} => Refs(m.at, h) = {} /\ m.index[h] = None /\ h # f
  BY MemoryAssumption DEF Books, Counts
<1>6. Counts(r, f, T \ {f})
  BY <1>2, <1>3, <1>4, <1>5 DEF Books, Counts
<1>7. QED
  BY <1>1, <1>2, <1>3, <1>6 DEF Books, Caches, Known, Private

\* set_page_table_entry(): the mapping that was counted is made.
Map(m, pl, f, write) ==
    [Clear(m, pl) EXCEPT !.at[pl] = f,
                         !.writable = IF write THEN @ \cup {pl} ELSE @]

Mapped(m, r, pl, f, write) ==
    /\ r \in MemoryType /\ Moved(m.at, r.at, pl, f) /\ r.dirty = m.dirty \ {pl}
    /\ r.writable \subseteq m.writable \cup {pl} /\ (pl \in r.writable <=> write)
    /\ r.ref = m.ref /\ r.index = m.index
    /\ r.pg_dirty = m.pg_dirty /\ r.active = m.active /\ r.inactive = m.inactive
    /\ r.free = m.free /\ r.used = m.used /\ r.mem_map = m.mem_map
    /\ r.stale = m.stale

LEMMA MapFields ==
    ASSUME NEW m \in MemoryType, NEW pl \in Places, NEW f \in Held, NEW write \in BOOLEAN,
           NEW r, r = Map(m, pl, f, write)
    PROVE  Mapped(m, r, pl, f, write)
<1> DEFINE c == Clear(m, pl)
<1>1. /\ c \in MemoryType /\ c.at = [m.at EXCEPT ![pl] = None]
      /\ c.writable = m.writable \ {pl} /\ c.accessed = m.accessed \ {pl}
      /\ c.dirty = m.dirty \ {pl} /\ c.ref = m.ref /\ c.index = m.index
      /\ c.pg_dirty = m.pg_dirty /\ c.active = m.active /\ c.inactive = m.inactive
      /\ c.free = m.free /\ c.used = m.used /\ c.mem_map = m.mem_map /\ c.stale = m.stale
  BY ClearFields
<1>2. r = [c EXCEPT !.at[pl] = f, !.writable = IF write THEN @ \cup {pl} ELSE @]
  BY DEF Map
<1> HIDE DEF c
<1>3. /\ r.at = [c.at EXCEPT ![pl] = f]
      /\ r.writable = (IF write THEN c.writable \cup {pl} ELSE c.writable)
      /\ r.dirty = c.dirty /\ r.ref = c.ref /\ r.index = c.index
      /\ r.pg_dirty = c.pg_dirty /\ r.active = c.active /\ r.inactive = c.inactive
      /\ r.free = c.free /\ r.used = c.used /\ r.mem_map = c.mem_map /\ r.stale = c.stale
  BY <1>1, <1>2 DEF MemoryType
<1> DEFINE at == [c.at EXCEPT ![pl] = f]
           writable == IF write THEN c.writable \cup {pl} ELSE c.writable
<1>4. /\ at \in [Places -> Frames \cup Entries \cup {None}]
      /\ writable \in SUBSET Places /\ r = [c EXCEPT !.at = at, !.writable = writable]
  BY <1>1, <1>2 DEF MemoryType, Held
<1> HIDE DEF at, writable
<1>5. r \in MemoryType
  BY <1>1, <1>4 DEF MemoryType
<1>6. r.at = [m.at EXCEPT ![pl] = f]
  BY <1>1, <1>3 DEF MemoryType
<1>7. QED
  BY <1>1, <1>3, <1>5, <1>6 DEF Moved, Mapped

\* A place that is or becomes writable has its page for itself.
OwnPage(m, pl, f, write) ==
    /\ \A q \in m.writable : q # pl /\ q[2] \notin Shared => m.at[q] # f
    /\ write /\ pl[2] \notin Shared =>
          /\ Refs(m.at, f) \subseteq {pl}
          /\ m.index[f] # None => Refs(m.at, m.index[f]) \subseteq {pl}

LEMMA PlacePrivate ==
    ASSUME NEW m \in MemoryType, Private(m), NEW pl \in Places, NEW f \in Frames,
           NEW write \in BOOLEAN, OwnPage(m, pl, f, write),
           NEW r \in MemoryType, Moved(m.at, r.at, pl, f), r.index = m.index,
           r.writable \subseteq m.writable \cup {pl}, pl \in r.writable => write
    PROVE  Private(r)
<1>0. /\ m.at \in [Places -> Held] /\ r.writable \subseteq Places
      /\ m.index \in [Frames -> Entries \cup {None}] /\ f \notin Entries /\ f # None
  BY TypeFacts
<1> SUFFICES ASSUME NEW q \in r.writable
             PROVE  /\ r.at[q] \in Frames
                    /\ q[2] \notin Shared =>
                          /\ Refs(r.at, r.at[q]) = {q}
                          /\ r.index[r.at[q]] # None => Refs(r.at, r.index[r.at[q]]) = {}
  BY DEF Private
<1>1. CASE q = pl
  <2>1. r.at[q] = f
    BY <1>0, <1>1 DEF Moved
  <2>2. ASSUME q[2] \notin Shared PROVE Refs(r.at, f) = {q}
    BY <1>0, <1>1, <2>2 DEF OwnPage, Refs, Moved
  <2>3. ASSUME q[2] \notin Shared, m.index[f] # None PROVE Refs(r.at, m.index[f]) = {}
    <3>1. m.index[f] \in Entries /\ Refs(m.at, m.index[f]) \subseteq {pl}
      BY <1>0, <1>1, <2>3 DEF OwnPage
    <3>2. QED
      BY <1>0, <3>1 DEF Refs, Moved
  <2>4. QED
    BY <2>1, <2>2, <2>3
<1>2. CASE q # pl
  <2>1. /\ q \in m.writable /\ r.at[q] = m.at[q] /\ m.at[q] \in Frames /\ q \in Places
    BY <1>0, <1>2 DEF Moved, Private
  <2>2. ASSUME q[2] \notin Shared
        PROVE  /\ Refs(r.at, m.at[q]) = {q}
               /\ m.index[m.at[q]] # None => Refs(r.at, m.index[m.at[q]]) = {}
    <3>1. /\ m.at[q] # f /\ Refs(m.at, m.at[q]) = {q}
          /\ m.index[m.at[q]] # None => Refs(m.at, m.index[m.at[q]]) = {}
      BY <1>2, <2>1, <2>2 DEF OwnPage, Private
    <3>2. Refs(r.at, m.at[q]) = {q}
      BY <1>0, <1>2, <3>1 DEF Refs, Moved
    <3>3. ASSUME m.index[m.at[q]] # None PROVE Refs(r.at, m.index[m.at[q]]) = {}
      <4>1. m.index[m.at[q]] # f
        BY <1>0, <2>1
      <4>2. QED
        BY <1>0, <3>1, <3>3, <4>1 DEF Refs, Moved
    <3>4. QED
      BY <3>2, <3>3
  <2>3. QED
    BY <2>1, <2>2
<1>3. QED
  BY <1>1, <1>2

LEMMA MapSafe ==
    ASSUME NEW m, NEW T, NEW U, NEW f \in Frames, Books(m, f, T, U), Private(m),
           NEW pl \in Places, m.at[pl] = None, NEW write \in BOOLEAN,
           OwnPage(m, pl, f, write), NEW r, Mapped(m, r, pl, f, write)
    PROVE  /\ Books(r, None, T, U) /\ Private(r) /\ Moved(m.at, r.at, pl, f)
           /\ r.inactive = m.inactive /\ r.used = m.used /\ r.stale = m.stale
<1>1. m \in MemoryType /\ f \in Held
  BY DEF Books, Held
<1>2. /\ r \in MemoryType /\ Moved(m.at, r.at, pl, f) /\ r.dirty = m.dirty \ {pl}
      /\ r.writable \subseteq m.writable \cup {pl} /\ (pl \in r.writable <=> write)
      /\ r.ref = m.ref /\ r.index = m.index
      /\ r.pg_dirty = m.pg_dirty /\ r.active = m.active /\ r.inactive = m.inactive
      /\ r.free = m.free /\ r.used = m.used /\ r.mem_map = m.mem_map
      /\ r.stale = m.stale
  BY DEF Mapped
<1>3. m.at \in [Places -> Held] /\ f # None /\ f \notin Entries /\ None \notin Frames
      /\ None \notin Entries
  BY <1>1, TypeFacts
<1>4. Count(m.at, f) \in Nat /\ Count(r.at, f) = Count(m.at, f) + 1 /\ Refs(r.at, f) # {}
  <2>1. pl \in Refs(r.at, f)
    BY <1>2, <1>3 DEF Refs, Moved
  <2>2. QED
    BY <1>2, <1>3, <2>1, CountMore
<1>5. ASSUME NEW x, x # f, x # None
      PROVE  Refs(r.at, x) = Refs(m.at, x) /\ Count(r.at, x) = Count(m.at, x)
  BY <1>2, <1>3, <1>5, CountOther
<1>6. \A e : Cached(r, e) = Cached(m, e)
  BY <1>2 DEF Cached
<1>7. Counts(r, None, T)
  <2>1. ASSUME NEW h \in Frames
        PROVE  /\ r.ref[h] = Count(r.at, h)
               /\ h \in r.free <=> Refs(r.at, h) = {} /\ r.index[h] = None /\ h \notin T
               /\ h \in T => Refs(r.at, h) = {} /\ r.index[h] = None
    <3>1. CASE h = f
      BY <1>2, <1>4, <3>1 DEF Books, Counts
    <3>2. CASE h # f
      <4>1. Refs(r.at, h) = Refs(m.at, h) /\ Count(r.at, h) = Count(m.at, h)
        BY <1>3, <1>5, <3>2
      <4>2. Count(m.at, h) \in Nat
        BY CountFacts
      <4>3. QED
        BY <1>2, <3>2, <4>1, <4>2 DEF Books, Counts
    <3>3. QED
      BY <3>1, <3>2
  <2>2. \A h \in Frames : h # None /\ Count(r.at, h) \in Nat
    BY <1>3, CountFacts
  <2>3. \A e \in Entries : Refs(r.at, e) = Refs(m.at, e) /\ Count(r.at, e) = Count(m.at, e)
    BY <1>3, <1>5
  <2>4. r.used \subseteq Entries
    BY <1>2 DEF MemoryType
  <2>5. QED
    BY <1>2, <1>6, <2>1, <2>2, <2>3, <2>4 DEF Books, Counts
<1>8. Known(r, U)
  <2>1. ASSUME NEW h \in Frames, Refs(m.at, h) \cap m.dirty # {}
        PROVE  Refs(r.at, h) \cap r.dirty # {}
    <3>1. PICK q \in Places : q \in m.dirty /\ m.at[q] = h
      BY <2>1 DEF Refs
    <3>2. q # pl /\ q \in r.dirty /\ r.at[q] = h
      BY <1>2, <1>3, <3>1 DEF Moved
    <3>3. QED
      BY <3>2 DEF Refs
  <2>2. \A e : Cached(m, e) \subseteq Frames
    BY DEF Cached
  <2>3. QED
    BY <1>2, <1>6, <2>1, <2>2 DEF Books, Known
<1>9. Private(r)
  BY <1>1, <1>2, PlacePrivate
<1>10. QED
  BY <1>2, <1>7, <1>8, <1>9 DEF Books, Caches

\* The same frame is mapped again: PTE_D is lost.
Forgotten(m, pl, f) ==
    IF m.at[pl] = f /\ pl \in m.dirty /\ m.index[f] # None /\ f \notin m.pg_dirty
    THEN {m.index[f]} ELSE {}

LEMMA AgainSafe ==
    ASSUME NEW m, NEW T, NEW U, NEW f \in Frames, Books(m, None, T, U), Private(m),
           NEW pl \in Places, m.at[pl] = f, NEW write \in BOOLEAN,
           OwnPage(m, pl, f, write), NEW r, Mapped(m, r, pl, f, write)
    PROVE  /\ Books(r, None, T, U \cup Forgotten(m, pl, f)) /\ Private(r)
           /\ Moved(m.at, r.at, pl, f)
           /\ r.inactive = m.inactive /\ r.used = m.used /\ r.stale = m.stale
<1>1. m \in MemoryType /\ f \in Held
  BY DEF Books, Held
<1>2. /\ r \in MemoryType /\ Moved(m.at, r.at, pl, f) /\ r.dirty = m.dirty \ {pl}
      /\ r.writable \subseteq m.writable \cup {pl} /\ (pl \in r.writable <=> write)
      /\ r.ref = m.ref /\ r.index = m.index
      /\ r.pg_dirty = m.pg_dirty /\ r.active = m.active /\ r.inactive = m.inactive
      /\ r.free = m.free /\ r.used = m.used /\ r.mem_map = m.mem_map
      /\ r.stale = m.stale
  BY DEF Mapped
<1>3. r.at = m.at
  <2>1. m.at \in [Places -> Held]
    BY <1>1, TypeFacts
  <2>2. QED
    BY <1>2, <2>1 DEF Moved
<1>4. \A e : Cached(r, e) = Cached(m, e)
  BY <1>2 DEF Cached
<1>5. Counts(r, None, T) /\ Caches(r)
  BY <1>2, <1>3, <1>4 DEF Books, Counts, Caches
<1>6. Known(r, U \cup Forgotten(m, pl, f))
  <2>1. ASSUME NEW e \in (m.stale \cap m.used) \ (U \cup Forgotten(m, pl, f))
        PROVE  \E h \in Cached(m, e) : h \in m.pg_dirty \/ Refs(m.at, h) \cap r.dirty # {}
    <3>1. PICK h \in Cached(m, e) : h \in m.pg_dirty \/ Refs(m.at, h) \cap m.dirty # {}
      BY DEF Books, Known
    <3>2. CASE h = f /\ pl \in m.dirty
      <4>1. m.index[f] = e /\ m.index[f] # None
        BY <1>1, <3>1, <3>2, TypeFacts DEF Cached
      <4>2. f \in m.pg_dirty
        BY <2>1, <3>2, <4>1 DEF Forgotten
      <4>3. QED
        BY <3>1, <3>2, <4>2
    <3>3. CASE ~(h = f /\ pl \in m.dirty)
      <4>1. Refs(m.at, h) \cap m.dirty # {} => Refs(m.at, h) \cap r.dirty # {}
        BY <1>2, <3>3 DEF Refs
      <4>2. QED
        BY <3>1, <4>1
    <3>4. QED
      BY <3>2, <3>3
  <2>2. QED
    BY <1>2, <1>3, <1>4, <2>1 DEF Books, Known
<1>7. Private(r)
  BY <1>1, <1>2, PlacePrivate
<1>8. QED
  BY <1>2, <1>5, <1>6, <1>7 DEF Books

\* page_insert() keeps the books.
Inserted(m, r, pl, f) ==
    /\ Moved(m.at, r.at, pl, f)
    /\ r.inactive \subseteq m.inactive /\ r.used \subseteq m.used /\ r.stale = m.stale
    /\ m.at[pl] = None => r.used = m.used

LEMMA InsertSafe ==
    ASSUME NEW m, NEW T, NEW U, NEW f \in Frames, Books(m, None, T, U), Private(m),
           f \notin m.free, NEW pl \in Places, NEW write \in BOOLEAN,
           OwnPage(m, pl, f, write), NEW r, r = page_insert(m, pl, f, write)
    PROVE  /\ Books(r, None, T \ {f}, U \cup Forgotten(m, pl, f)) /\ Private(r)
           /\ Inserted(m, r, pl, f)
<1>0. m \in MemoryType
  BY DEF Books
<1>1. CASE m.at[pl] = f
  <2>1. r = Map(m, pl, f, write)
    BY <1>1 DEF page_insert, Map
  <2> f \in Held
    BY DEF Held
  <2>2. /\ Books(r, None, T, U \cup Forgotten(m, pl, f)) /\ Private(r)
        /\ Moved(m.at, r.at, pl, f)
        /\ r.inactive = m.inactive /\ r.used = m.used /\ r.stale = m.stale
    <3>1. Mapped(m, r, pl, f, write)
      BY <1>0, <2>1, MapFields
    <3>2. QED
      BY <1>1, <3>1, AgainSafe
  <2>3. f \notin T
    <3>1. pl \in Refs(m.at, f)
      BY <1>1 DEF Refs
    <3>2. QED
      BY <3>1 DEF Books, Counts
  <2>4. T \ {f} = T
    BY <2>3
  <2>5. QED
    BY <2>2, <2>4 DEF Inserted
<1>2. CASE m.at[pl] # f
  <2> DEFINE more == [m EXCEPT !.ref[f] = @ + 1]
             held == page_remove_pte(more, pl)
  <2>1. r = Map(held, pl, f, write)
    BY <1>2 DEF page_insert, Map
  <2> f \in Held
    BY DEF Held
  <2>2. /\ Books(more, f, T \ {f}, U) /\ Private(more)
        /\ more.at = m.at /\ more.index = m.index /\ more.writable = m.writable
        /\ more.inactive = m.inactive /\ more.used = m.used /\ more.stale = m.stale
    BY ReserveSafe
  <2> HIDE DEF more
  <2>3. Books(held, f, T \ {f}, U) /\ Private(held) /\ Removed(more, held, pl)
    BY <2>2, RemoveSafe
  <2> HIDE DEF held
  <2>4. /\ m.at \in [Places -> Held] /\ f # None /\ f \notin Entries /\ None \notin Entries
        /\ m.index \in [Frames -> Entries \cup {None}] /\ m.writable \subseteq Places
    BY <1>0, TypeFacts
  <2>5. /\ Moved(m.at, held.at, pl, None) /\ held.writable \subseteq m.writable \ {pl}
        /\ held.used \subseteq m.used /\ held.stale = m.stale
        /\ m.at[pl] = None => held.used = m.used
        /\ held.inactive \subseteq m.inactive
        /\ \A h \in Frames : held.index[h] \in {m.index[h], None}
    BY <2>2, <2>3 DEF Removed
  <2>6. held.at[pl] = None
    BY <2>4, <2>5 DEF Moved
  <2>7. OwnPage(held, pl, f, write)
    <3>1. \A q \in held.writable : q # pl /\ q[2] \notin Shared => held.at[q] # f
      BY <2>4, <2>5 DEF OwnPage, Moved
    <3>2. \A x \in Frames \cup Entries : Refs(held.at, x) \subseteq Refs(m.at, x)
      BY <2>4, <2>5, MemoryAssumption DEF Refs, Moved
    <3>3. held.index[f] # None => held.index[f] = m.index[f] /\ m.index[f] \in Entries
      BY <2>4, <2>5
    <3>4. QED
      BY <3>1, <3>2, <3>3 DEF OwnPage
  <2>8. /\ Books(r, None, T \ {f}, U) /\ Private(r) /\ Moved(held.at, r.at, pl, f)
        /\ r.inactive = held.inactive /\ r.used = held.used /\ r.stale = held.stale
    <3>1. held \in MemoryType
      BY <2>3 DEF Books
    <3>2. Mapped(held, r, pl, f, write)
      BY <2>1, <3>1, MapFields
    <3>3. QED
      BY <2>3, <2>6, <2>7, <3>2, MapSafe
  <2>9. Moved(m.at, r.at, pl, f)
    BY <2>4, <2>5, <2>8 DEF Moved
  <2>10. Forgotten(m, pl, f) = {}
    BY <1>2 DEF Forgotten
  <2>11. U \cup Forgotten(m, pl, f) = U
    BY <2>10
  <2>12. QED
    BY <2>5, <2>8, <2>9, <2>11 DEF Inserted
<1>3. QED
  BY <1>1, <1>2

-----------------------------------------------------------------------------
(* The swap cache.                                                         *)

\* A page that was read from an entry that is not in the cache joins it.
LEMMA ReadSafe ==
    ASSUME NEW m, NEW T, NEW U, Books(m, None, T, U), Private(m),
           NEW f \in T, f \in Frames, NEW e \in m.used, Cached(m, e) = {},
           NEW r, r = swap_page_add(m, f, e)
    PROVE  /\ Books(r, None, T \ {f}, U) /\ Private(r)
           /\ r.at = m.at /\ r.writable = m.writable /\ r.used = m.used
           /\ r.inactive = m.inactive /\ r.stale = m.stale /\ r.free = m.free
           /\ r.index = [m.index EXCEPT ![f] = e] /\ r.mem_map = m.mem_map /\ r.ref = m.ref
<1>1. /\ m \in MemoryType /\ e \in Entries /\ f # None /\ e # None
      /\ m.index \in [Frames -> Entries \cup {None}]
      /\ m.index[f] = None /\ Refs(m.at, f) = {} /\ m.at \in [Places -> Held]
  BY TypeFacts DEF Books, Counts
<1>2. /\ r \in MemoryType
      /\ r.at = m.at /\ r.writable = m.writable /\ r.dirty = m.dirty /\ r.ref = m.ref
      /\ r.index = [m.index EXCEPT ![f] = e] /\ r.pg_dirty = m.pg_dirty
      /\ r.active = m.active \cup {f} /\ r.inactive = m.inactive
      /\ r.free = m.free /\ r.used = m.used /\ r.mem_map = m.mem_map
      /\ r.stale = m.stale
  BY <1>1 DEF swap_page_add, MemoryType
<1>3. r.index[f] = e /\ \A h \in Frames \ {f} : r.index[h] = m.index[h]
  BY <1>1, <1>2
<1>4. Cached(r, e) = {f} /\ \A x \in Entries \ {e} : Cached(r, x) = Cached(m, x)
  BY <1>1, <1>3, TypeFacts DEF Cached
<1>5. Counts(r, None, T \ {f})
  <2>1. \A h \in Frames :
           /\ r.ref[h] = Count(r.at, h) + (IF h = None THEN 1 ELSE 0)
           /\ h \in T \ {f} => Refs(r.at, h) = {} /\ r.index[h] = None /\ h # None
           /\ h \in r.free <=> /\ Refs(r.at, h) = {} /\ r.index[h] = None
                               /\ h \notin T \ {f} /\ h # None
    BY <1>1, <1>2, <1>3 DEF Books, Counts
  <2>2. \A x \in r.used : /\ r.mem_map[x] = Count(r.at, x)
                          /\ Refs(r.at, x) # {} \/ Cached(r, x) # {}
    BY <1>1, <1>2, <1>4, TypeFacts DEF Books, Counts
  <2>3. QED
    BY <1>2, <2>1, <2>2 DEF Books, Counts
<1>6. Caches(r)
  <2>1. \A h \in Frames : m.index[h] # e
    BY DEF Cached
  <2>2. f \notin m.active \cup m.inactive
    BY <1>1 DEF Books, Caches
  <2>3. QED
    BY <1>1, <1>2, <1>3, <2>1, <2>2 DEF Books, Caches
<1>7. Known(r, U)
  <2>1. ASSUME NEW x \in (m.stale \cap m.used) \ U
        PROVE  \E h \in Cached(r, x) : h \in m.pg_dirty \/ Refs(m.at, h) \cap m.dirty # {}
    <3>1. PICK h \in Cached(m, x) : h \in m.pg_dirty \/ Refs(m.at, h) \cap m.dirty # {}
      BY DEF Books, Known
    <3>2. x # e /\ x \in Entries
      BY <1>1, <3>1, TypeFacts
    <3>3. QED
      BY <1>4, <3>1, <3>2
  <2>2. QED
    BY <1>2, <2>1 DEF Books, Known
<1>8. Private(r)
  <2>1. \A q \in m.writable : m.at[q] \in Frames /\ m.at[q] # f
    BY <1>1, TypeFacts DEF Private, Refs
  <2>2. QED
    BY <1>2, <1>3, <2>1 DEF Private
<1>9. QED
  BY <1>2, <1>5, <1>6, <1>7, <1>8 DEF Books

Away(m, D, f) == LeaveCache([m EXCEPT !.used = D], f)

\* A cached page leaves, because it is not in use, or with its entry, because
\* nobody wants that.
LEMMA LeaveSafe ==
    ASSUME NEW m, NEW T, NEW U, Books(m, None, T, U), Private(m),
           NEW f \in Frames, m.index[f] # None, NEW D,
           \/ /\ D = m.used /\ m.ref[f] = 0 /\ m.mem_map[m.index[f]] # 0
              /\ m.index[f] \notin m.stale \ U
           \/ D = m.used \ {m.index[f]} /\ m.mem_map[m.index[f]] = 0,
           NEW r, r = Away(m, D, f)
    PROVE  /\ Books(r, None, T, U) /\ Private(r)
           /\ r.at = m.at /\ r.inactive = m.inactive \ {f} /\ r.used = D /\ r.stale = m.stale
           /\ r.active = m.active \ {f} /\ r.index = [m.index EXCEPT ![f] = None]
           /\ r.writable = m.writable /\ r.dirty = m.dirty /\ r.ref = m.ref
           /\ r.mem_map = m.mem_map
<1> DEFINE e == m.index[f]
           d == [m EXCEPT !.used = D]
<1>1. /\ m \in MemoryType /\ e \in Entries /\ f # None /\ e # None /\ e \in m.used
      /\ m.index \in [Frames -> Entries \cup {None}] /\ m.used \subseteq Entries
      /\ \A h \in Frames : m.index[h] = e => h = f
  BY TypeFacts DEF Books, Caches
<1>2. (Refs(m.at, f) = {} <=> m.ref[f] = 0) /\ f \notin m.free /\ (Refs(m.at, e) = {} <=> m.mem_map[e] = 0) /\ f \notin T
  BY <1>1, CountFacts, TypeFacts DEF Books, Counts
<1>3. /\ d \in MemoryType
      /\ d.at = m.at /\ d.writable = m.writable /\ d.dirty = m.dirty /\ d.ref = m.ref
      /\ d.index = m.index /\ d.pg_dirty = m.pg_dirty /\ d.active = m.active
      /\ d.inactive = m.inactive /\ d.free = m.free /\ d.used = D /\ d.mem_map = m.mem_map
      /\ d.stale = m.stale /\ d.accessed = m.accessed
  BY <1>1 DEF MemoryType
<1>4. r = LeaveCache(d, f)
  BY DEF Away
<1>5. \/ D = m.used /\ Refs(m.at, e) # {} /\ e \notin m.stale \ U
      \/ D = m.used \ {e} /\ Refs(m.at, e) = {}
  BY <1>2
<1> HIDE DEF d, e
<1>6. /\ r \in MemoryType
      /\ r.at = d.at /\ r.writable = d.writable /\ r.accessed = d.accessed
      /\ r.dirty = d.dirty /\ r.ref = d.ref
      /\ r.index = [d.index EXCEPT ![f] = None]
      /\ r.active = d.active \ {f} /\ r.inactive = d.inactive \ {f}
      /\ r.used = d.used /\ r.mem_map = d.mem_map /\ r.stale = d.stale
      /\ m.ref[f] = 0 => r.free = m.free \cup {f}
      /\ m.ref[f] # 0 => r.free = m.free
      /\ m.pg_dirty \ {f} \subseteq r.pg_dirty
  <2>1. d \in MemoryType /\ f \in Frames
    BY <1>3
  <2>2. /\ r \in MemoryType
        /\ r.at = d.at /\ r.writable = d.writable /\ r.accessed = d.accessed
        /\ r.dirty = d.dirty /\ r.ref = d.ref
        /\ r.index = [d.index EXCEPT ![f] = None]
        /\ r.active = d.active \ {f} /\ r.inactive = d.inactive \ {f}
        /\ r.used = d.used /\ r.mem_map = d.mem_map /\ r.stale = d.stale
        /\ d.ref[f] = 0 => r.free = d.free \cup {f} /\ r.pg_dirty = d.pg_dirty \ {f}
        /\ d.ref[f] # 0 => r.free = d.free /\ r.pg_dirty = d.pg_dirty
    BY ONLY <1>4, <2>1, LeaveFields
  <2>3. QED
    BY <1>3, <2>2
<1>7. r.index[f] = None /\ \A h \in Frames \ {f} : r.index[h] = m.index[h]
  BY <1>1, <1>3, <1>6
<1>8. \A x \in Entries \ {e} : Cached(r, x) = Cached(m, x)
  BY <1>1, <1>7, TypeFacts DEF Cached, e
<1>9. Counts(r, None, T)
  <2>1. \A h \in Frames :
           /\ r.ref[h] = Count(r.at, h) + (IF h = None THEN 1 ELSE 0)
           /\ h \in T => Refs(r.at, h) = {} /\ r.index[h] = None /\ h # None
           /\ h \in r.free <=> /\ Refs(r.at, h) = {} /\ r.index[h] = None
                               /\ h \notin T /\ h # None
    BY <1>1, <1>2, <1>3, <1>6, <1>7 DEF Books, Counts
  <2>2. \A x \in r.used : /\ r.mem_map[x] = Count(r.at, x)
                          /\ Refs(r.at, x) # {} \/ Cached(r, x) # {}
    BY <1>1, <1>3, <1>5, <1>6, <1>8 DEF Books, Counts
  <2>3. \A x \in Entries \ r.used : Refs(r.at, x) = {}
    BY <1>1, <1>3, <1>5, <1>6 DEF Books, Counts
  <2>4. QED
    BY <2>1, <2>2, <2>3 DEF Counts
<1>10. Caches(r)
  <2>1. \A h \in Frames : r.index[h] # None => h # f /\ r.index[h] = m.index[h] /\ m.index[h] # e
    BY <1>1, <1>7
  <2>2. \A h \in Frames : r.index[h] # None => r.index[h] \in r.used
    BY <1>3, <1>5, <1>6, <2>1 DEF Books, Caches
  <2>3. \A h, k \in Frames : r.index[h] # None /\ r.index[k] = r.index[h] => k = h
    BY <2>1 DEF Books, Caches
  <2>4. \A h \in Frames : r.index[h] # None <=> h \in r.active \cup r.inactive
    BY <1>1, <1>3, <1>6, <1>7 DEF Books, Caches
  <2>5. r.active \cap r.inactive = {}
    BY <1>3, <1>6 DEF Books, Caches
  <2>6. QED
    BY <2>2, <2>3, <2>4, <2>5 DEF Caches
<1>11. Known(r, U)
  <2>1. ASSUME NEW x \in (r.stale \cap r.used) \ U
        PROVE  \E h \in Cached(r, x) : h \in r.pg_dirty \/ Refs(r.at, h) \cap r.dirty # {}
    <3>1. x # e /\ x \in Entries /\ x \in (m.stale \cap m.used) \ U
      BY <1>1, <1>3, <1>5, <1>6
    <3>2. PICK h \in Cached(m, x) : h \in m.pg_dirty \/ Refs(m.at, h) \cap m.dirty # {}
      BY <3>1 DEF Books, Known
    <3>3. h # f /\ h \in Cached(r, x)
      BY <1>8, <3>1, <3>2 DEF Cached, e
    <3>4. QED
      BY <1>3, <1>6, <3>2, <3>3
  <2>2. QED
    BY <1>3, <1>6, <2>1 DEF Books, Known
<1>12. Private(r)
  BY <1>3, <1>6, <1>7 DEF Private
<1>13. QED
  BY <1>3, <1>6, <1>9, <1>10, <1>11, <1>12 DEF Books

\* A page joins the cache with an entry that was not in use; it is marked, since
\* the disk does not have it.
Join(m, f, e) ==
    [swap_page_add([m EXCEPT !.used = @ \cup {e}, !.mem_map[e] = 0], f, e)
        EXCEPT !.pg_dirty = @ \cup {f}, !.stale = @ \cup {e}]

Joined(m, r, f, e) ==
    /\ r.at = m.at /\ r.writable = m.writable /\ r.dirty = m.dirty /\ r.ref = m.ref
    /\ r.index = [m.index EXCEPT ![f] = e] /\ r.pg_dirty = m.pg_dirty \cup {f}
    /\ r.active = m.active \cup {f} /\ r.inactive = m.inactive
    /\ r.free = m.free /\ r.used = m.used \cup {e}
    /\ r.mem_map = [m.mem_map EXCEPT ![e] = 0] /\ r.stale = m.stale \cup {e}

LEMMA JoinSafe ==
    ASSUME NEW m, NEW T, NEW U, Books(m, None, T, U), Private(m),
           NEW f \in Frames, m.index[f] = None, Refs(m.at, f) # {},
           NEW e \in Entries \ m.used, NEW r \in MemoryType, Joined(m, r, f, e)
    PROVE  Books(r, None, T, U) /\ Private(r)
<1>1. /\ m \in MemoryType /\ f # None /\ e # None
      /\ m.index \in [Frames -> Entries \cup {None}] /\ m.used \subseteq Entries
      /\ m.mem_map \in [Entries -> Nat] /\ Refs(m.at, e) = {} /\ Count(m.at, e) = 0
  BY TypeFacts, CountFacts DEF Books, Counts
<1>2. r.index[f] = e /\ \A h \in Frames \ {f} : r.index[h] = m.index[h]
  BY <1>1 DEF Joined
<1>3. \A h \in Frames : m.index[h] # e
  BY <1>1 DEF Books, Caches
<1>4. f \in Cached(r, e) /\ \A x \in Entries \ {e} : Cached(r, x) = Cached(m, x)
  BY <1>1, <1>2, TypeFacts DEF Cached
<1>5. Counts(r, None, T)
  <2>1. \A h \in Frames :
           /\ r.ref[h] = Count(r.at, h) + (IF h = None THEN 1 ELSE 0)
           /\ h \in T => Refs(r.at, h) = {} /\ r.index[h] = None /\ h # None
           /\ h \in r.free <=> /\ Refs(r.at, h) = {} /\ r.index[h] = None
                               /\ h \notin T /\ h # None
    BY <1>1, <1>2 DEF Books, Counts, Joined
  <2>2. \A x \in r.used : /\ r.mem_map[x] = Count(r.at, x)
                          /\ Refs(r.at, x) # {} \/ Cached(r, x) # {}
    BY <1>1, <1>4 DEF Books, Counts, Joined
  <2>3. \A x \in Entries \ r.used : Refs(r.at, x) = {}
    BY DEF Books, Counts, Joined
  <2>4. QED
    BY <2>1, <2>2, <2>3 DEF Counts
<1>6. Caches(r)
  <2>1. f \notin m.active \cup m.inactive
    BY DEF Books, Caches
  <2>2. QED
    BY <1>1, <1>2, <1>3, <2>1 DEF Books, Caches, Joined
<1>7. Known(r, U)
  <2>1. ASSUME NEW x \in (r.stale \cap r.used) \ U
        PROVE  \E h \in Cached(r, x) : h \in r.pg_dirty \/ Refs(r.at, h) \cap r.dirty # {}
    <3>1. CASE x = e
      BY <1>4, <3>1 DEF Joined
    <3>2. CASE x # e
      <4>1. x \in (m.stale \cap m.used) \ U /\ x \in Entries
        BY <1>1, <3>2 DEF Joined
      <4>2. PICK h \in Cached(m, x) : h \in m.pg_dirty \/ Refs(m.at, h) \cap m.dirty # {}
        BY <4>1 DEF Books, Known
      <4>3. QED
        BY <1>4, <3>2, <4>1, <4>2 DEF Joined
    <3>3. QED
      BY <3>1, <3>2
  <2>2. QED
    BY <2>1 DEF Books, Known, Joined
<1>8. Private(r)
  BY <1>1, <1>2 DEF Private, Joined
<1>9. QED
  BY <1>5, <1>6, <1>7, <1>8 DEF Books

LEMMA JoinFields ==
    ASSUME NEW m \in MemoryType, NEW f \in Frames, NEW e \in Entries,
           NEW r, r = Join(m, f, e)
    PROVE  r \in MemoryType /\ Joined(m, r, f, e)
  BY DEF Join, Joined, swap_page_add, MemoryType

\* swap_out_vma() has a swap entry for the page it takes away.
LEMMA EntrySafe ==
    ASSUME NEW T, NEW U, Books(mem, None, T, U), Private(mem),
           NEW f \in Frames, Refs(mem.at, f) # {}, NEW r \in WithEntry(f)
    PROVE  /\ Books(r, None, T, U) /\ Private(r)
           /\ r.at = mem.at /\ r.dirty = mem.dirty /\ r.index[f] \in Entries
           /\ r.inactive \subseteq mem.inactive /\ r.writable = mem.writable
<1>0. mem \in MemoryType
  BY DEF Books
<1>1. CASE mem.index[f] # None
  <2>1. r = mem
    BY <1>1 DEF WithEntry
  <2>2. QED
    BY <1>0, <1>1, <2>1, TypeFacts
<1>2. CASE mem.index[f] = None /\ mem.used # Entries
  <2>1. PICK e \in Entries \ mem.used : r = Join(mem, f, e)
    <3>1. PICK a \in AllocEntry(mem) :
            r = [swap_page_add(a.mem, f, a.entry) EXCEPT !.pg_dirty = @ \cup {f},
                                                         !.stale = @ \cup {a.entry}]
      BY <1>2 DEF WithEntry
    <3>2. PICK e \in Entries \ mem.used :
            a = [entry |-> e, mem |-> [mem EXCEPT !.used = @ \cup {e}, !.mem_map[e] = 0]]
      BY <1>2 DEF AllocEntry
    <3>3. a.entry = e /\ a.mem = [mem EXCEPT !.used = @ \cup {e}, !.mem_map[e] = 0]
      BY <3>2
    <3>4. QED
      BY <3>1, <3>3 DEF Join
  <2>2. r \in MemoryType /\ Joined(mem, r, f, e)
    BY <1>0, <2>1, JoinFields
  <2>3. Books(r, None, T, U) /\ Private(r)
    BY <1>2, <2>2, JoinSafe
  <2>4. QED
    BY <1>0, <2>2, <2>3, TypeFacts DEF Joined
<1>3. CASE mem.index[f] = None /\ mem.used = Entries
  <2>1. PICK e \in Entries : /\ e \in mem.used /\ mem.mem_map[e] = 0
                             /\ r = [swap_page_add(LeaveCache(mem, CHOOSE h \in Cached(mem, e) : TRUE), f, e)
                                        EXCEPT !.pg_dirty = @ \cup {f}, !.stale = @ \cup {e}]
    <3>1. PICK a \in AllocEntry(mem) :
            r = [swap_page_add(a.mem, f, a.entry) EXCEPT !.pg_dirty = @ \cup {f},
                                                         !.stale = @ \cup {a.entry}]
      BY <1>3 DEF WithEntry
    <3>2. PICK e \in {x \in mem.used : mem.mem_map[x] = 0} :
            a = [entry |-> e, mem |-> LeaveCache(mem, CHOOSE h \in Cached(mem, e) : TRUE)]
      BY <1>3 DEF AllocEntry
    <3>3. a.entry = e /\ a.mem = LeaveCache(mem, CHOOSE h \in Cached(mem, e) : TRUE)
      BY <3>2
    <3>4. QED
      BY <1>3, <3>1, <3>2, <3>3
  <2> DEFINE h == CHOOSE h \in Cached(mem, e) : TRUE
             gone == LeaveCache([mem EXCEPT !.used = @ \ {e}], h)
             here == LeaveCache(mem, h)
  <2>2. h \in Frames /\ mem.index[h] = e /\ e # None
    <3>1. Refs(mem.at, e) = {} /\ Cached(mem, e) # {}
      BY <2>1, CountFacts DEF Books, Counts
    <3>2. h \in Cached(mem, e)
      BY <3>1
    <3>3. QED
      BY <3>2, MemoryAssumption DEF Cached
  <2> HIDE DEF h
  <2>3. gone = LeaveCache([mem EXCEPT !.used = mem.used \ {e}], h)
    OBVIOUS
  <2>4. /\ Books(gone, None, T, U) /\ Private(gone)
        /\ gone.at = mem.at /\ gone.inactive = mem.inactive \ {h}
        /\ gone.used = mem.used \ {e} /\ gone.stale = mem.stale
        /\ gone.active = mem.active \ {h} /\ gone.index = [mem.index EXCEPT ![h] = None]
        /\ gone.writable = mem.writable /\ gone.dirty = mem.dirty /\ gone.ref = mem.ref
        /\ gone.mem_map = mem.mem_map
    <3> DEFINE D == mem.used \ {e}
    <3>1. /\ Books(mem, None, T, U) /\ Private(mem) /\ h \in Frames /\ mem.index[h] = e
          /\ e # None /\ mem.mem_map[e] = 0 /\ gone = Away(mem, D, h)
      BY <2>1, <2>2, <2>3 DEF Away
    <3>2. D = mem.used \ {e}
      OBVIOUS
    <3> HIDE DEF D, gone
    <3>3. QED
      BY ONLY <3>1, <3>2, LeaveSafe
  <2>5. /\ gone.free = here.free /\ gone.pg_dirty = here.pg_dirty
        /\ gone.writable = here.writable /\ gone.inactive = here.inactive
        /\ here.at = mem.at /\ here.dirty = mem.dirty /\ here.ref = mem.ref
        /\ here.index = [mem.index EXCEPT ![h] = None] /\ here.active = mem.active \ {h}
        /\ here.used = mem.used /\ here.mem_map = mem.mem_map /\ here.stale = mem.stale
        /\ here \in MemoryType
    BY <1>0, <2>2 DEF LeaveCache, free_page, MemoryType
  <2>6. r = [swap_page_add(here, f, e) EXCEPT !.pg_dirty = @ \cup {f}, !.stale = @ \cup {e}]
    BY <2>1 DEF h
  <2> HIDE DEF gone, here
  <2>7. /\ r \in MemoryType
        /\ r.at = here.at /\ r.writable = here.writable /\ r.dirty = here.dirty
        /\ r.ref = here.ref /\ r.free = here.free /\ r.used = here.used
        /\ r.index = [here.index EXCEPT ![f] = e] /\ r.pg_dirty = here.pg_dirty \cup {f}
        /\ r.active = here.active \cup {f} /\ r.inactive = here.inactive
        /\ r.mem_map = here.mem_map /\ r.stale = here.stale \cup {e}
    <3>1. e \in Entries /\ f \in Frames
      BY <2>1
    <3>2. QED
      BY ONLY <2>5, <2>6, <3>1 DEF swap_page_add, MemoryType
  <2>8. mem.mem_map = [mem.mem_map EXCEPT ![e] = 0] /\ mem.used = (mem.used \ {e}) \cup {e}
    BY <1>0, <2>1, TypeFacts
  <2>9. Joined(gone, r, f, e)
    BY <2>4, <2>5, <2>7, <2>8 DEF Joined
  <2>10. gone.index[f] = None /\ r.index[f] = e /\ e \in Entries \ gone.used
    BY <1>0, <1>3, <2>1, <2>2, <2>4, <2>5, <2>7, TypeFacts
  <2>11. Books(r, None, T, U) /\ Private(r)
    BY <2>4, <2>7, <2>9, <2>10, JoinSafe
  <2>12. QED
    BY <2>1, <2>4, <2>5, <2>7, <2>10, <2>11
<1>4. QED
  BY <1>1, <1>2, <1>3

\* A mapping is replaced by the swap entry of its frame.
LEMMA ReplaceFields ==
    ASSUME NEW m \in MemoryType, NEW pl \in Places, NEW f \in Frames, NEW e \in Entries,
           m.ref[f] \in Nat \ {0}, NEW r, r = Replace(m, pl, f, e)
    PROVE  /\ r \in MemoryType /\ Moved(m.at, r.at, pl, e)
           /\ r.writable = m.writable \ {pl} /\ r.dirty = m.dirty \ {pl}
           /\ r.ref = [m.ref EXCEPT ![f] = @ - 1] /\ r.index = m.index
           /\ r.pg_dirty = m.pg_dirty /\ r.active = m.active /\ r.inactive = m.inactive
           /\ r.free = m.free /\ r.used = m.used /\ r.stale = m.stale
           /\ r.mem_map = [m.mem_map EXCEPT ![e] = @ + 1]
<1> DEFINE more == swap_duplicate(m, e)
           c == Clear(more, pl)
<1>1. /\ more \in MemoryType /\ more.mem_map = [m.mem_map EXCEPT ![e] = @ + 1]
      /\ more.at = m.at /\ more.writable = m.writable /\ more.dirty = m.dirty
      /\ more.ref = m.ref /\ more.index = m.index /\ more.pg_dirty = m.pg_dirty
      /\ more.active = m.active /\ more.inactive = m.inactive /\ more.free = m.free
      /\ more.used = m.used /\ more.stale = m.stale
  BY DEF swap_duplicate, MemoryType
<1> HIDE DEF more
<1>2. /\ c \in MemoryType /\ c.at = [more.at EXCEPT ![pl] = None]
      /\ c.writable = more.writable \ {pl} /\ c.accessed = more.accessed \ {pl}
      /\ c.dirty = more.dirty \ {pl} /\ c.ref = more.ref /\ c.index = more.index
      /\ c.pg_dirty = more.pg_dirty /\ c.active = more.active /\ c.inactive = more.inactive
      /\ c.free = more.free /\ c.used = more.used /\ c.mem_map = more.mem_map
      /\ c.stale = more.stale
  BY <1>1, ClearFields DEF c
<1> HIDE DEF c
<1>3. r = [c EXCEPT !.at[pl] = e, !.ref[f] = @ - 1]
  BY DEF Replace, c, more
<1>4. c.ref[f] - 1 \in Nat
  BY <1>1, <1>2
<1>5. /\ r \in MemoryType /\ r.at = [c.at EXCEPT ![pl] = e]
      /\ r.writable = c.writable /\ r.dirty = c.dirty
      /\ r.ref = [c.ref EXCEPT ![f] = @ - 1] /\ r.index = c.index
      /\ r.pg_dirty = c.pg_dirty /\ r.active = c.active /\ r.inactive = c.inactive
      /\ r.free = c.free /\ r.used = c.used /\ r.mem_map = c.mem_map /\ r.stale = c.stale
  BY ONLY <1>2, <1>3, <1>4, pl \in Places, f \in Frames, e \in Entries DEF MemoryType
<1>6. r.at = [m.at EXCEPT ![pl] = e]
  BY <1>1, <1>2, <1>5 DEF MemoryType
<1>7. QED
  BY <1>1, <1>2, <1>5, <1>6 DEF Moved

LEMMA ReplaceSafe ==
    ASSUME NEW m, NEW T, NEW U, Books(m, None, T, U), Private(m), NEW pl \in Places,
           NEW f \in Frames, m.at[pl] = f, NEW e \in Entries, m.index[f] = e,
           pl \in m.dirty => f \in m.pg_dirty, NEW r, r = Replace(m, pl, f, e)
    PROVE  /\ Books(r, None, T, U) /\ Private(r) /\ Moved(m.at, r.at, pl, e)
           /\ r.inactive = m.inactive /\ r.used = m.used /\ r.index = m.index
           /\ r.dirty = m.dirty \ {pl} /\ r.writable = m.writable \ {pl}
<1>1. /\ m \in MemoryType /\ f # None /\ e # None /\ e # f /\ m.at \in [Places -> Held]
      /\ m.ref \in [Frames -> Nat] /\ m.mem_map \in [Entries -> Nat] /\ None \notin Frames
      /\ m.used \subseteq Entries /\ None \notin Entries /\ f \notin Entries /\ e \notin Frames
  BY TypeFacts DEF Books
<1>2. e \in m.used /\ f \in Cached(m, e) /\ \A h \in Frames : m.index[h] = e => h = f
  BY <1>1 DEF Books, Caches, Cached
<1>3. pl \in Refs(m.at, f) /\ m.ref[f] = Count(m.at, f) /\ m.mem_map[e] = Count(m.at, e)
      /\ m.ref[f] \in Nat \ {0} /\ f \notin T /\ f \notin m.free
  <2>1. pl \in Refs(m.at, f) /\ m.mem_map[e] = Count(m.at, e)
    BY <1>2 DEF Books, Counts, Refs
  <2>2. m.ref[f] = Count(m.at, f) + 0 /\ Count(m.at, f) \in Nat \ {0}
    BY <1>1, <2>1, CountFacts DEF Books, Counts
  <2>3. QED
    BY <2>1, <2>2 DEF Books, Counts
<1>4. /\ r \in MemoryType /\ Moved(m.at, r.at, pl, e)
      /\ r.writable = m.writable \ {pl} /\ r.dirty = m.dirty \ {pl}
      /\ r.ref = [m.ref EXCEPT ![f] = @ - 1] /\ r.index = m.index
      /\ r.pg_dirty = m.pg_dirty /\ r.active = m.active /\ r.inactive = m.inactive
      /\ r.free = m.free /\ r.used = m.used /\ r.stale = m.stale
      /\ r.mem_map = [m.mem_map EXCEPT ![e] = @ + 1]
  BY <1>1, <1>3, ReplaceFields
<1>5. /\ Count(m.at, f) = Count(r.at, f) + 1 /\ Count(r.at, e) = Count(m.at, e) + 1
      /\ Count(r.at, f) \in Nat
  BY <1>1, <1>4, Remapped, CountFacts
<1>6. ASSUME NEW x, x # f, x # e
      PROVE  Refs(r.at, x) = Refs(m.at, x) /\ Count(r.at, x) = Count(m.at, x)
  BY <1>1, <1>4, <1>6, CountOther
<1>7. \A x : Cached(r, x) = Cached(m, x)
  BY <1>4 DEF Cached
<1>8. Counts(r, None, T)
  <2>1. ASSUME NEW h \in Frames
        PROVE  /\ r.ref[h] = Count(r.at, h)
               /\ h \in r.free <=> Refs(r.at, h) = {} /\ r.index[h] = None /\ h \notin T
               /\ h \in T => Refs(r.at, h) = {} /\ r.index[h] = None
    <3>1. CASE h = f
      BY <1>1, <1>3, <1>4, <1>5, <3>1
    <3>2. CASE h # f
      <4>1. Refs(r.at, h) = Refs(m.at, h) /\ Count(r.at, h) = Count(m.at, h)
        BY <1>1, <1>6, <3>2
      <4>2. r.ref[h] = m.ref[h] /\ m.ref[h] = Count(m.at, h)
        BY <1>1, <1>4, <3>2, CountFacts DEF Books, Counts
      <4>3. QED
        BY <1>1, <1>4, <4>1, <4>2 DEF Books, Counts
    <3>3. QED
      BY <3>1, <3>2
  <2>2. ASSUME NEW x \in r.used
        PROVE  r.mem_map[x] = Count(r.at, x) /\ (Refs(r.at, x) # {} \/ Cached(r, x) # {})
    <3>1. CASE x = e
      BY <1>1, <1>2, <1>3, <1>4, <1>5, <1>7, <3>1
    <3>2. CASE x # e
      <4>1. Refs(r.at, x) = Refs(m.at, x) /\ Count(r.at, x) = Count(m.at, x)
        BY <1>1, <1>4, <1>6, <3>2
      <4>2. x \in m.used /\ r.mem_map[x] = m.mem_map[x]
        BY <1>1, <1>4, <3>2
      <4>3. QED
        BY <1>7, <4>1, <4>2 DEF Books, Counts
    <3>3. QED
      BY <3>1, <3>2
  <2>3. \A x \in Entries \ r.used : Refs(r.at, x) = {}
    BY <1>1, <1>2, <1>4, <1>6 DEF Books, Counts
  <2>4. \A h \in Frames : h # None /\ Count(r.at, h) \in Nat
    BY <1>1, CountFacts
  <2>5. QED
    BY <2>1, <2>2, <2>3, <2>4 DEF Counts
<1>9. Known(r, U)
  <2>1. ASSUME NEW h \in Frames, h \in m.pg_dirty \/ Refs(m.at, h) \cap m.dirty # {}
        PROVE  h \in r.pg_dirty \/ Refs(r.at, h) \cap r.dirty # {}
    <3>1. CASE h \in m.pg_dirty
      BY <1>4, <3>1
    <3>2. CASE h \notin m.pg_dirty
      <4>1. PICK q \in Places : q \in m.dirty /\ m.at[q] = h
        BY <2>1, <3>2 DEF Refs
      <4>2. q # pl /\ q \in r.dirty /\ r.at[q] = h
        BY <1>1, <1>4, <3>2, <4>1 DEF Moved
      <4>3. QED
        BY <4>2 DEF Refs
    <3>3. QED
      BY <3>1, <3>2
  <2>2. \A x : Cached(m, x) \subseteq Frames
    BY DEF Cached
  <2>3. r.dirty \subseteq Spaces \X Pages
    BY <1>4 DEF Books, Known
  <2>4. QED
    BY <1>4, <1>7, <2>1, <2>2, <2>3 DEF Books, Known
<1>10. Private(r)
  <2>1. \A q \in r.writable : m.at[q] \in Frames /\ q # pl /\ q \in m.writable
    BY <1>4 DEF Private
  <2>2. ASSUME NEW q \in r.writable, q[2] \notin Shared
        PROVE  e # m.at[q] /\ e # m.index[m.at[q]]
    <3>1. Refs(m.at, m.at[q]) = {q} /\ m.at[q] \in Frames /\ q # pl
      BY <2>1, <2>2 DEF Private
    <3>2. m.at[q] # f
      BY <1>3, <3>1
    <3>3. QED
      BY <1>1, <1>2, <3>1, <3>2
  <2>3. Untouched(m, r, e) /\ r.writable \subseteq m.writable \ {pl}
    BY <1>4, <2>2 DEF Untouched
  <2>4. QED
    BY <1>1, <1>4, <2>3, PrivateStays
<1>11. QED
  BY <1>4, <1>8, <1>9, <1>10 DEF Books, Caches

\* copy_range() copies a swap entry.
CopyEntry(m, pl, e) == [swap_duplicate(m, e) EXCEPT !.at[pl] = e]

LEMMA CopyEntrySafe ==
    ASSUME NEW m, NEW T, NEW U, Books(m, None, T, U), Private(m), NEW pl \in Places,
           m.at[pl] = None, NEW e \in Entries, Refs(m.at, e) # {},
           NEW r, r = CopyEntry(m, pl, e)
    PROVE  /\ Books(r, None, T, U) /\ Private(r) /\ Moved(m.at, r.at, pl, e)
           /\ r.inactive = m.inactive /\ r.used = m.used /\ r.stale = m.stale
<1>1. /\ m \in MemoryType /\ e # None /\ m.at \in [Places -> Held]
      /\ m.mem_map \in [Entries -> Nat] /\ None \notin Frames
      /\ m.used \subseteq Entries /\ None \notin Entries /\ e \notin Frames
  BY TypeFacts DEF Books
<1>2. e \in m.used /\ m.mem_map[e] = Count(m.at, e)
  BY DEF Books, Counts
<1>3. /\ r \in MemoryType /\ r.at = [m.at EXCEPT ![pl] = e]
      /\ r.writable = m.writable /\ r.dirty = m.dirty
      /\ r.ref = m.ref /\ r.index = m.index
      /\ r.pg_dirty = m.pg_dirty /\ r.active = m.active /\ r.inactive = m.inactive
      /\ r.free = m.free /\ r.used = m.used /\ r.stale = m.stale
      /\ r.mem_map = [m.mem_map EXCEPT ![e] = @ + 1]
  <2> DEFINE mem_map == [m.mem_map EXCEPT ![e] = @ + 1]
             at == [m.at EXCEPT ![pl] = e]
  <2>1. /\ mem_map \in [Entries -> Nat] /\ at \in [Places -> Frames \cup Entries \cup {None}]
        /\ r = [[m EXCEPT !.mem_map = mem_map] EXCEPT !.at = at]
    BY <1>1 DEF CopyEntry, swap_duplicate, MemoryType, Held
  <2> HIDE DEF mem_map, at
  <2>2. QED
    BY <1>1, <2>1 DEF MemoryType, mem_map, at
<1>4. Moved(m.at, r.at, pl, e)
  BY <1>3 DEF Moved
<1>5. Count(r.at, e) = Count(m.at, e) + 1 /\ Refs(r.at, e) # {}
  <2>1. Count(r.at, e) = Count(m.at, e) + 1
    BY <1>1, <1>4, CountMore
  <2>2. pl \in Refs(r.at, e)
    BY <1>1, <1>3 DEF Refs
  <2>3. QED
    BY <2>1, <2>2
<1>6. ASSUME NEW x, x # None, x # e
      PROVE  Refs(r.at, x) = Refs(m.at, x) /\ Count(r.at, x) = Count(m.at, x)
  BY <1>1, <1>4, <1>6, CountOther
<1>7. \A x : Cached(r, x) = Cached(m, x)
  BY <1>3 DEF Cached
<1>8. \A h \in Frames : Refs(r.at, h) = Refs(m.at, h) /\ Count(r.at, h) = Count(m.at, h)
  BY <1>1, <1>6
<1>9. Counts(r, None, T)
  <2>1. ASSUME NEW x \in r.used
        PROVE  r.mem_map[x] = Count(r.at, x) /\ (Refs(r.at, x) # {} \/ Cached(r, x) # {})
    <3>1. CASE x = e
      BY <1>1, <1>2, <1>3, <1>5, <3>1
    <3>2. CASE x # e
      <4>1. Refs(r.at, x) = Refs(m.at, x) /\ Count(r.at, x) = Count(m.at, x)
        BY <1>1, <1>3, <1>6, <3>2
      <4>2. x \in m.used /\ r.mem_map[x] = m.mem_map[x]
        BY <1>1, <1>3, <3>2
      <4>3. QED
        BY <1>7, <4>1, <4>2 DEF Books, Counts
    <3>3. QED
      BY <3>1, <3>2
  <2>2. \A x \in Entries \ r.used : Refs(r.at, x) = {}
    BY <1>1, <1>2, <1>3, <1>6 DEF Books, Counts
  <2>3. QED
    BY <1>3, <1>8, <2>1, <2>2 DEF Books, Counts
<1>10. Known(r, U)
  <2>1. \A x : Cached(m, x) \subseteq Frames
    BY DEF Cached
  <2>2. QED
    BY <1>3, <1>7, <1>8, <2>1 DEF Books, Known
<1>11. Private(r)
  <2>1. pl \notin m.writable
    BY <1>1 DEF Private
  <2>2. \A q \in m.writable : m.at[q] \in Frames
    BY DEF Private
  <2>3. \A q \in m.writable : q[2] \notin Shared =>
            e # m.at[q] /\ (m.index[m.at[q]] # None => e # m.index[m.at[q]])
    BY <1>1, <2>2 DEF Private
  <2>4. Untouched(m, r, e) /\ r.writable \subseteq m.writable \ {pl}
    BY <1>3, <2>1, <2>3 DEF Untouched
  <2>5. QED
    BY <1>1, <1>3, <1>4, <2>4, PrivateStays
<1>12. QED
  BY <1>3, <1>4, <1>9, <1>10, <1>11 DEF Books, Caches

-----------------------------------------------------------------------------
(* Unmapping a set of places goes through them one by one.                 *)

Some(s) == CHOOSE x \in s : TRUE

Pass(m, it, s) == IF s = {} THEN m ELSE page_remove_pte(it[s \ {Some(s)}], Some(s))

Small(P, n) == {s \in SUBSET P : Cardinality(s) <= n}

LEMMA SmallFacts ==
    ASSUME NEW P, IsFiniteSet(P), NEW s \in SUBSET P
    PROVE  /\ Cardinality(s) \in Nat /\ Cardinality(s) <= Cardinality(P)
           /\ Cardinality(P) \in Nat
           /\ Cardinality(s) <= 0 => s = {}
           /\ s # {} => /\ Some(s) \in s /\ s \ {Some(s)} \in SUBSET P
                        /\ Cardinality(s \ {Some(s)}) = Cardinality(s) - 1
<1>1. IsFiniteSet(s) /\ Cardinality(s) \in Nat /\ Cardinality(P) \in Nat
      /\ Cardinality(s) <= Cardinality(P)
  BY FS_Subset, FS_CardinalityType
<1>2. s # {} => Some(s) \in s
  BY DEF Some
<1>3. s # {} => Cardinality(s \ {Some(s)}) = Cardinality(s) - 1
  BY <1>1, <1>2, FS_RemoveElement
<1>4. Cardinality(s) <= 0 => s = {}
  <2>1. Cardinality(s) = 0 => s = {}
    BY <1>1, FS_EmptySet
  <2>2. QED
    BY <1>1, <2>1
<1>5. QED
  BY <1>1, <1>2, <1>3, <1>4

LEMMA PassesExist ==
    ASSUME NEW m, NEW P, IsFiniteSet(P)
    PROVE  \E it : it = [s \in SUBSET P |-> Pass(m, it, s)]
<1> DEFINE Done(n) == \E it : it = [s \in Small(P, n) |-> Pass(m, it, s)]
           D == {n \in Nat : Done(n)}
<1>1. 0 \in D
  <2> DEFINE it == [s \in Small(P, 0) |-> m]
  <2>1. \A s \in Small(P, 0) : s = {}
    BY SmallFacts DEF Small
  <2>2. it = [s \in Small(P, 0) |-> Pass(m, it, s)]
    BY <2>1 DEF Pass
  <2>3. QED
    BY <2>2
<1>2. ASSUME NEW n \in D PROVE n + 1 \in D
  <2>1. PICK it : it = [s \in Small(P, n) |-> Pass(m, it, s)]
    OBVIOUS
  <2> DEFINE next == [s \in Small(P, n + 1) |-> Pass(m, it, s)]
  <2>2. \A s \in Small(P, n) : s \in Small(P, n + 1) /\ next[s] = it[s]
    <3>1. ASSUME NEW s \in Small(P, n) PROVE s \in Small(P, n + 1)
      <4>1. Cardinality(s) \in Nat /\ Cardinality(s) <= n
        BY SmallFacts DEF Small
      <4>2. QED
        BY <4>1 DEF Small
    <3>2. QED
      BY <2>1, <3>1
  <2>3. ASSUME NEW s \in Small(P, n + 1) PROVE Pass(m, it, s) = Pass(m, next, s)
    <3>1. CASE s = {}
      BY <3>1 DEF Pass
    <3>2. CASE s # {}
      <4>1. s \ {Some(s)} \in Small(P, n)
        <5>1. /\ Cardinality(s) \in Nat /\ Cardinality(s) <= n + 1
              /\ s \ {Some(s)} \in SUBSET P
              /\ Cardinality(s \ {Some(s)}) = Cardinality(s) - 1
          <6>1. s \in SUBSET P /\ Cardinality(s) <= n + 1
            BY DEF Small
          <6>2. QED
            BY <3>2, <6>1, SmallFacts
        <5>2. QED
          BY <5>1 DEF Small
      <4>2. next[s \ {Some(s)}] = it[s \ {Some(s)}]
        BY <2>2, <4>1
      <4> HIDE DEF next
      <4>3. QED
        BY <4>2 DEF Pass
    <3>3. QED
      BY <3>1, <3>2
  <2>4. next = [s \in Small(P, n + 1) |-> Pass(m, next, s)]
    BY <2>3
  <2>5. n + 1 \in Nat
    OBVIOUS
  <2> HIDE DEF next
  <2>6. Done(n + 1)
    BY <2>4
  <2>7. QED
    BY <2>5, <2>6
<1> HIDE DEF Done
<1>3. D = Nat
  BY <1>1, <1>2, NatSetInduction
<1>4. Cardinality(P) \in Nat /\ Small(P, Cardinality(P)) = SUBSET P
  <2>1. \A s \in SUBSET P : Cardinality(s) <= Cardinality(P)
    BY SmallFacts
  <2>2. QED
    BY <2>1, FS_CardinalityType DEF Small
<1>5. Done(Cardinality(P))
  BY <1>3, <1>4
<1>6. QED
  BY <1>4, <1>5 DEF Done

\* The places of S are empty now; nothing else was done to the page tables.
Unmapped(m, r, S) ==
    /\ r.at = [q \in Places |-> IF q \in S THEN None ELSE m.at[q]]
    /\ r.used \subseteq m.used /\ r.stale = m.stale /\ r.inactive \subseteq m.inactive

LEMMA UnmapSafe ==
    ASSUME NEW m, NEW T, NEW U, Books(m, None, T, U), Private(m),
           NEW P \in SUBSET Places, NEW r, r = Unmap(m, P)
    PROVE  Books(r, None, T, U) /\ Private(r) /\ Unmapped(m, r, P)
<1>0. IsFiniteSet(P) /\ m.at \in [Places -> Held]
  BY PlacesFinite, FS_Subset, TypeFacts DEF Books
<1> DEFINE it == CHOOSE it : it = [s \in SUBSET P |-> Pass(m, it, s)]
<1>1. it = [s \in SUBSET P |-> Pass(m, it, s)]
  BY <1>0, PassesExist
<1>2. r = it[P]
  BY DEF Unmap, FoldSet, MapThenFoldSet, Pass, Some
<1> HIDE DEF it
<1> DEFINE Good(s) == Books(it[s], None, T, U) /\ Private(it[s]) /\ Unmapped(m, it[s], s)
           D == {n \in Nat : \A s \in Small(P, n) : Good(s)}
<1>3. 0 \in D
  <2>1. ASSUME NEW s \in Small(P, 0) PROVE Good(s)
    <3>1. s = {} /\ s \in SUBSET P
      BY <1>0, SmallFacts DEF Small
    <3>2. it[s] = m
      BY <1>1, <3>1 DEF Pass
    <3>3. QED
      BY <1>0, <3>1, <3>2 DEF Unmapped
  <2>2. QED
    BY <2>1
<1>4. ASSUME NEW n \in D PROVE n + 1 \in D
  <2>1. ASSUME NEW s \in Small(P, n + 1), s # {} PROVE Good(s)
    <3> DEFINE x == Some(s)
               t == s \ {x}
    <3>1. x \in s /\ x \in Places /\ t \in Small(P, n) /\ s \in SUBSET P
      <4>1. /\ Cardinality(s) \in Nat /\ Cardinality(s) <= n + 1
            /\ t \in SUBSET P /\ x \in s /\ Cardinality(t) = Cardinality(s) - 1
        BY <1>0, <2>1, SmallFacts DEF Small
      <4>2. QED
        BY <4>1 DEF Small
    <3>2. it[s] = page_remove_pte(it[t], x)
      BY <1>1, <2>1, <3>1 DEF Pass
    <3>3. s = t \cup {x}
      BY <3>1
    <3> HIDE DEF x, t
    <3>4. Books(it[t], None, T, U) /\ Private(it[t]) /\ Unmapped(m, it[t], t)
      BY <3>1
    <3>5. Books(it[s], None, T, U) /\ Private(it[s]) /\ Removed(it[t], it[s], x)
      BY <3>1, <3>2, <3>4, RemoveSafe
    <3>6. Unmapped(m, it[s], s)
      BY <3>1, <3>3, <3>4, <3>5, ZenonT(40) DEF Unmapped, Removed, Moved
    <3>7. QED
      BY <3>5, <3>6
  <2>2. ASSUME NEW s \in Small(P, n + 1), s = {} PROVE Good(s)
    <3>1. s \in Small(P, 0)
      BY <2>2, FS_EmptySet DEF Small
    <3>2. QED
      BY <1>3, <3>1
  <2> HIDE DEF Good
  <2>3. QED
    BY <2>1, <2>2
<1> HIDE DEF Good
<1>5. D = Nat
  BY <1>3, <1>4, NatSetInduction
<1>6. Cardinality(P) \in Nat /\ P \in Small(P, Cardinality(P))
  BY <1>0, SmallFacts DEF Small
<1>7. Good(P)
  BY <1>5, <1>6
<1>8. QED
  BY <1>2, <1>7 DEF Good

-----------------------------------------------------------------------------
(* The inductive invariant.                                                *)

\* The frames that somebody who waits in swap_in_page() has for a copy.
Taken == {newpage[s] : s \in Spaces} \ {None}

NewPages ==
    /\ \A s, r \in Spaces : newpage[s] = newpage[r] /\ newpage[s] # None => s = r
    /\ \A s \in Spaces : newpage[s] # None => pc[s] = "in"

\* Who waits in swap_in_page() waits for an entry, and has a frame for a copy.
Faults == \A s \in Spaces :
    /\ pc[s] \in {"fault", "in"} => fault[s].page \in Pages
    /\ pc[s] = "in" => /\ mem.at[Place(s)] \in Entries
                       /\ fault[s].page \notin Shared => newpage[s] # None

Forks == \A s \in Spaces :
    /\ pc[s] = "fork" <=> fork[s].to # None
    /\ fork[s].to # None => pc[fork[s].to] = "none"
    /\ \A r \in Spaces : fork[s].to = fork[r].to /\ fork[s].to # None => s = r

\* An address space that does not exist is empty, but for what a fork has copied.
Copies == \A s \in Spaces, v \in Pages :
    pc[s] = "none" /\ mem.at[<<s, v>>] # None =>
        \E r \in Spaces : fork[r].to = s /\ v \notin fork[r].left

Daemon ==
    /\ kswapd # "launder" => scan = {}
    /\ scan \subseteq mem.inactive
    /\ kswapd \in {"asleep", "woken"} => pressure >= 0
    /\ WaitersServed

Memories ==
    /\ Books(mem, None, Taken, undirtied)
    /\ Private(mem)
    /\ mem.stale \subseteq mem.used

Processes == NewPages /\ Faults /\ Forks /\ Copies

IInv == TypeOK /\ Memories /\ Processes /\ Daemon

LEMMA InitHolds == Init => IInv
<1> SUFFICES ASSUME Init PROVE IInv
  OBVIOUS
<1> USE DEF Init
<1>1. /\ mem.at = [pl \in Places |-> None] /\ mem.writable = {} /\ mem.accessed = {}
      /\ mem.dirty = {} /\ mem.ref = [f \in Frames |-> 0]
      /\ mem.index = [f \in Frames |-> None] /\ mem.pg_dirty = {} /\ mem.active = {}
      /\ mem.inactive = {} /\ mem.free = Frames /\ mem.used = {} /\ mem.stale = {}
      /\ mem.mem_map = [e \in Entries |-> 0]
  BY DEF EmptyMemory
<1>2. mem \in MemoryType
  <2>1. /\ [pl \in Places |-> None] \in [Places -> Frames \cup Entries \cup {None}]
        /\ [f \in Frames |-> 0] \in [Frames -> Nat]
        /\ [f \in Frames |-> None] \in [Frames -> Entries \cup {None}]
        /\ [e \in Entries |-> 0] \in [Entries -> Nat]
    OBVIOUS
  <2>2. QED
    BY <2>1 DEF EmptyMemory, MemoryType
<1>3. TypeOK
  BY <1>2 DEF TypeOK, NoFault, NoFork
<1>4. Memories
  <2>1. Taken = {}
    BY DEF Taken
  <2>2. \A x \in Frames \cup Entries : Refs(mem.at, x) = {} /\ Count(mem.at, x) = 0
    <3>1. \A x \in Frames \cup Entries : Refs(mem.at, x) = {}
      BY <1>1, MemoryAssumption DEF Refs
    <3>2. QED
      BY <3>1, CountFacts
  <2>3. Counts(mem, None, Taken)
    BY <1>1, <2>1, <2>2, MemoryAssumption DEF Counts
  <2>4. Caches(mem)
    BY <1>1 DEF Caches
  <2>5. Known(mem, undirtied) /\ Private(mem)
    BY <1>1 DEF Known, Private
  <2>6. QED
    BY <1>1, <1>2, <2>3, <2>4, <2>5 DEF Memories, Books
<1>5. Processes
  <2>1. \A s \in Spaces : /\ newpage[s] = None /\ pc[s] \in {"user", "none"}
                          /\ fork[s].to = None
    BY DEF NoFork
  <2>2. \A pl \in Places : mem.at[pl] = None
    BY <1>1
  <2>3. \A s \in Spaces, v \in Pages : <<s, v>> \in Places
    BY DEF Places
  <2>4. QED
    BY <2>1, <2>2, <2>3 DEF Processes, NewPages, Faults, Forks, Copies
<1>6. Daemon
  BY DEF Daemon, WaitersServed
<1>7. QED
  BY <1>3, <1>4, <1>5, <1>6 DEF IInv

\* Entries that are not in use have no history.
LEMMA TrimSafe ==
    ASSUME NEW m, NEW T, NEW U, Books(m, None, T, U), Private(m),
           NEW r, r = [m EXCEPT !.stale = @ \cap m.used]
    PROVE  /\ Books(r, None, T, m.used \cap U) /\ Private(r) /\ r.stale \subseteq r.used
           /\ r.at = m.at /\ r.used = m.used /\ r.inactive = m.inactive
<1>1. m \in MemoryType
  BY DEF Books
<1>2. /\ r \in MemoryType /\ r.stale = m.stale \cap m.used
      /\ r.at = m.at /\ r.writable = m.writable /\ r.dirty = m.dirty /\ r.ref = m.ref
      /\ r.index = m.index /\ r.pg_dirty = m.pg_dirty /\ r.active = m.active
      /\ r.inactive = m.inactive /\ r.used = m.used /\ r.mem_map = m.mem_map
      /\ r.free = m.free
  BY <1>1 DEF MemoryType
<1>3. \A e : Cached(r, e) = Cached(m, e)
  BY <1>2 DEF Cached
<1>4. Counts(r, None, T) /\ Caches(r)
  BY <1>2, <1>3 DEF Books, Counts, Caches
<1>5. Known(r, m.used \cap U)
  BY <1>2, <1>3 DEF Books, Known
<1>6. QED
  BY <1>2, <1>4, <1>5 DEF Books, Private

LEMMA PlaceFacts ==
    ASSUME NEW s \in Spaces, NEW v \in Pages
    PROVE  <<s, v>> \in Places /\ <<Shm, v>> \in Places /\ Shm # s
  BY MemoryAssumption DEF Places

\* A process that is not in fork() goes back to user mode, or is no more.
OthersPages(s) == {newpage[r] : r \in Spaces \ {s}} \ {None}

LEMMA ProcessEnds ==
    ASSUME TypeOK, Processes, NEW s \in Spaces, pc[s] \in {"user", "fault", "in"},
           NEW x \in {"user", "none"}, pc' = [pc EXCEPT ![s] = x],
           fault' = [fault EXCEPT ![s] = NoFault],
           newpage' = [newpage EXCEPT ![s] = None], fork' = fork,
           \A r \in Spaces \ {s}, v \in Pages : mem'.at[<<r, v>>] = mem.at[<<r, v>>],
           x = "none" => \A v \in Pages : mem'.at[<<s, v>>] = None
    PROVE  Processes' /\ Taken' = OthersPages(s)
<1>1. /\ \A r \in Spaces \ {s} : pc'[r] = pc[r] /\ fault'[r] = fault[r] /\ newpage'[r] = newpage[r]
      /\ pc'[s] = x /\ newpage'[s] = None
      /\ fork[s].to = None
  BY DEF TypeOK, Processes, Forks
<1>2. NewPages'
  BY <1>1 DEF Processes, NewPages
<1>3. Faults'
  BY <1>1 DEF Processes, Faults, Place
<1>4. Forks'
  <2>1. ASSUME NEW q \in Spaces, fork[q].to # None
        PROVE  fork[q].to \in Spaces \ {s} /\ pc[fork[q].to] = "none"
    BY <2>1 DEF TypeOK, Processes, Forks
  <2>2. QED
    BY <1>1, <2>1 DEF Processes, Forks
<1>5. Copies'
  BY <1>1 DEF Processes, Copies
<1>6. Taken' = OthersPages(s)
  BY <1>1 DEF Taken, OthersPages
<1>7. QED
  BY <1>2, <1>3, <1>4, <1>5, <1>6 DEF Processes

-----------------------------------------------------------------------------
(* Page faults.                                                            *)

\* In do_pgfault() with a memory m on which newpage may have been allocated.
Handling(s, m, newp) ==
    /\ pc[s] \in {"fault", "in"} /\ m.at = mem.at
    /\ newp \in Frames \cup {None} /\ newp \notin OthersPages(s)
    /\ Books(m, None, OthersPages(s) \cup ({newp} \ {None}), undirtied) /\ Private(m)
    /\ fault[s].page \notin Shared => newp # None

\* A process leaves the kernel with the memory m, while kswapd sleeps.
LEMMA EndKeeps ==
    ASSUME TypeOK, Processes, Daemon, UNCHANGED swap_vars, kswapd \in {"asleep", "woken"},
           UNCHANGED <<fork, panic>>, shm_lock' \in {shm_lock, None},
           NEW s \in Spaces, pc[s] \in {"user", "fault", "in"},
           NEW x \in {"user", "none"}, pc' = [pc EXCEPT ![s] = x],
           fault' = [fault EXCEPT ![s] = NoFault],
           newpage' = [newpage EXCEPT ![s] = None],
           NEW m, NEW U \in SUBSET Entries, Books(m, None, OthersPages(s), U), Private(m),
           mem' = [m EXCEPT !.stale = @ \cap m.used], undirtied' = m.used \cap U,
           \A r \in Spaces \ {s}, v \in Pages : m.at[<<r, v>>] = mem.at[<<r, v>>],
           x = "none" => \A v \in Pages : m.at[<<s, v>>] = None
    PROVE  IInv'
<1>1. /\ Books(mem', None, OthersPages(s), undirtied') /\ Private(mem')
      /\ mem'.stale \subseteq mem'.used /\ mem'.at = m.at
  BY TrimSafe
<1>2. /\ \A r \in Spaces \ {s}, v \in Pages : mem'.at[<<r, v>>] = mem.at[<<r, v>>]
      /\ x = "none" => \A v \in Pages : mem'.at[<<s, v>>] = None
  BY <1>1
<1>3. Processes' /\ Taken' = OthersPages(s)
  BY <1>2, ProcessEnds
<1>4. Memories'
  BY <1>1, <1>3 DEF Memories
<1>5. Daemon'
  BY DEF Daemon, WaitersServed, swap_vars
<1>6. TypeOK'
  <2>1. mem' \in MemoryType /\ undirtied' \subseteq Entries
    BY <1>1 DEF Books
  <2>2. QED
    BY <2>1 DEF TypeOK, swap_vars
<1>7. QED
  BY <1>3, <1>4, <1>5, <1>6 DEF IInv

LEMMA ResolveKeeps ==
    ASSUME TypeOK, Processes, Daemon, kswapd \in {"asleep", "woken"},
           NEW s \in Spaces, NEW m, NEW newp, Handling(s, m, newp), NEW page \in Frames,
           \/ m.at[Place(s)] = page
           \/ m.at[Place(s)] \in Entries /\ m.index[page] = m.at[Place(s)],
           Resolve(s, m, page, newp)
    PROVE  IInv'
<1> DEFINE pl == Place(s)
           T == OthersPages(s) \cup ({newp} \ {None})
           cow == fault[s].page \notin Shared
           may_copy == m.at[pl] \in Frames \/ fault[s].write
           copy == cow /\ may_copy /\ m.ref[page] + swap_page_count(m, page) > 1
           spare == newp # None /\ ~copy
           target == IF copy THEN newp ELSE page
           write == ~cow \/ may_copy
           done == page_insert(m, pl, target, write)
           end == IF spare THEN free_page(done, newp) ELSE done
           forgets == /\ m.at[pl] = page /\ ~copy /\ pl \in m.dirty
                      /\ m.index[page] # None /\ page \notin m.pg_dirty
           U == IF forgets THEN undirtied \cup {m.index[page]} ELSE undirtied
<1>1. /\ mem' = [end EXCEPT !.stale = @ \cap end.used] /\ undirtied' = end.used \cap U
      /\ pc' = [pc EXCEPT ![s] = "user"] /\ fault' = [fault EXCEPT ![s] = NoFault]
      /\ newpage' = [newpage EXCEPT ![s] = None]
      /\ UNCHANGED <<fork, shm_lock, panic>> /\ UNCHANGED swap_vars
  BY DEF Resolve, EndFault, Goto
<1>2. /\ pc[s] \in {"fault", "in"} /\ m.at = mem.at
      /\ newp \in Frames \cup {None} /\ newp \notin OthersPages(s)
      /\ Books(m, None, T, undirtied) /\ Private(m) /\ m \in MemoryType
      /\ cow => newp # None
  BY DEF Handling, Books
<1>3. pl \in Places /\ pl = <<s, fault[s].page>> /\ fault[s].page \in Pages
  BY <1>2, PlaceFacts DEF Place, Processes, Faults
<1>4. /\ m.at \in [Places -> Held] /\ m.ref \in [Frames -> Nat] /\ None \notin Frames
      /\ m.index \in [Frames -> Entries \cup {None}] /\ None \notin Entries
      /\ m.used \subseteq Entries /\ m.mem_map \in [Entries -> Nat]
      /\ Frames \cap Entries = {}
  BY <1>2, TypeFacts
<1> HIDE DEF pl, T, copy
<1>5. page \notin m.free /\ page \notin T /\ m.ref[page] = Count(m.at, page)
  <2>1. pl \in Refs(m.at, m.at[pl])
    BY <1>3 DEF Refs
  <2>2. Refs(m.at, page) # {} \/ m.index[page] # None
    BY <1>4, <2>1 DEF pl
  <2>3. m.ref[page] = Count(m.at, page) + 0
    BY <1>2, <1>4 DEF Books, Counts
  <2>4. QED
    BY <1>2, <1>4, <2>2, <2>3, CountFacts DEF Books, Counts
<1>6. \A q \in m.writable : q # pl /\ q[2] \notin Shared => m.at[q] # page
  <2>1. pl \in Refs(m.at, m.at[pl])
    BY <1>3 DEF Refs
  <2>2. ASSUME NEW q \in m.writable, q # pl, q[2] \notin Shared, m.at[q] = page
        PROVE  FALSE
    <3>1. /\ Refs(m.at, page) = {q}
          /\ m.index[page] # None => Refs(m.at, m.index[page]) = {}
      BY <1>2, <2>2 DEF Private
    <3>2. QED
      BY <1>4, <2>1, <2>2, <3>1 DEF pl
  <2>3. QED
    BY <2>2
<1>7. CASE copy
  <2>1. newp \in Frames /\ newp \in T /\ target = newp /\ ~forgets /\ end = done
    BY <1>2, <1>7 DEF T, copy
  <2>2. Refs(m.at, newp) = {} /\ m.index[newp] = None /\ newp \notin m.free
    BY <1>2, <2>1 DEF Books, Counts
  <2>3. OwnPage(m, pl, newp, write)
    <3>1. \A q \in m.writable : m.at[q] # newp
      BY <1>2, <2>2 DEF Refs, MemoryType
    <3>2. QED
      BY <2>2, <3>1 DEF OwnPage
  <2>4. Forgotten(m, pl, newp) = {} /\ m.at[pl] # newp
    BY <1>3, <2>2 DEF Forgotten, Refs
  <2>5. /\ Books(done, None, T \ {newp}, undirtied \cup Forgotten(m, pl, newp))
        /\ Private(done) /\ Inserted(m, done, pl, newp)
    <3>1. done = page_insert(m, pl, newp, write) /\ write \in BOOLEAN
      BY <2>1
    <3> HIDE DEF done, write
    <3>2. QED
      BY <1>2, <1>3, <2>1, <2>2, <2>3, <3>1, InsertSafe
  <2>6. T \ {newp} = OthersPages(s) /\ undirtied \cup Forgotten(m, pl, newp) = U
    BY <1>2, <2>1, <2>4 DEF T
  <2> HIDE DEF done, target
  <2>7. Books(end, None, OthersPages(s), U) /\ Private(end) /\ Moved(m.at, end.at, pl, newp)
    BY <2>1, <2>5, <2>6 DEF Inserted
  <2>8. U \subseteq Entries
    BY <2>1 DEF TypeOK
  <2> HIDE DEF end, U
  <2>9. \A r \in Spaces \ {s}, v \in Pages : end.at[<<r, v>>] = mem.at[<<r, v>>]
    BY <1>2, <1>3, <1>4, <2>7, PlaceFacts, ZenonT(40) DEF Moved
  <2>10. QED
    BY <1>1, <1>2, <2>7, <2>8, <2>9, EndKeeps
<1>8. CASE ~copy
  <2>1. target = page /\ (spare <=> newp # None)
    BY <1>8
  <2>2. OwnPage(m, pl, page, write)
    <3>1. ASSUME write, pl[2] \notin Shared
          PROVE  /\ Refs(m.at, page) \subseteq {pl}
                 /\ m.index[page] # None => Refs(m.at, m.index[page]) \subseteq {pl}
      <4>1. m.ref[page] + swap_page_count(m, page) <= 1
        <5>1. cow /\ may_copy
          BY <1>3, <3>1
        <5>2. swap_page_count(m, page) \in Nat
          BY <1>4 DEF swap_page_count
        <5>3. QED
          BY <1>4, <1>8, <5>1, <5>2 DEF copy
      <4>2. m.index[page] # None =>
               /\ m.index[page] \in m.used /\ m.index[page] \in Entries
               /\ swap_page_count(m, page) = Count(m.at, m.index[page])
        BY <1>2, <1>4 DEF swap_page_count, Books, Caches, Counts
      <4>3. m.index[page] = None => swap_page_count(m, page) = 0
        BY DEF swap_page_count
      <4>4. Count(m.at, page) \in Nat /\ Count(m.at, m.index[page]) \in Nat
        BY CountFacts
      <4>5. pl \in Refs(m.at, m.at[pl])
        BY <1>3 DEF Refs
      <4>6. ASSUME NEW x, Count(m.at, x) <= 1, pl \in Refs(m.at, x) PROVE Refs(m.at, x) = {pl}
        <5>1. Count(m.at, x) = 1 /\ IsFiniteSet(Refs(m.at, x))
          BY <4>6, CountFacts
        <5>2. QED
          BY <4>6, <5>1, FS_Singleton DEF Count
      <4>7. CASE m.at[pl] = page
        <5>1. Count(m.at, page) # 0
          BY <4>5, <4>7, CountFacts
        <5>2. Count(m.at, page) <= 1 /\ (m.index[page] # None => Count(m.at, m.index[page]) = 0)
          BY <1>5, <4>1, <4>2, <4>3, <4>4, <5>1
        <5>3. QED
          BY <4>5, <4>6, <4>7, <5>2, CountFacts
      <4>8. CASE m.at[pl] \in Entries /\ m.index[page] = m.at[pl]
        <5>1. m.index[page] # None /\ Count(m.at, m.index[page]) # 0
          BY <1>4, <4>5, <4>8, CountFacts
        <5>2. Count(m.at, m.index[page]) <= 1 /\ Count(m.at, page) = 0
          BY <1>5, <4>1, <4>2, <4>4, <5>1
        <5>3. QED
          BY <4>5, <4>6, <4>8, <5>2, CountFacts
      <4>9. QED
        BY <4>7, <4>8 DEF pl
    <3>2. QED
      BY <1>6, <3>1 DEF OwnPage
  <2>3. /\ Books(done, None, T \ {page}, undirtied \cup Forgotten(m, pl, page))
        /\ Private(done) /\ Inserted(m, done, pl, page)
    <3>1. done = page_insert(m, pl, page, write) /\ write \in BOOLEAN
      BY <2>1
    <3> HIDE DEF done, write
    <3>2. QED
      BY <1>2, <1>3, <1>5, <2>2, <3>1, InsertSafe
  <2>4. T \ {page} = T /\ undirtied \cup Forgotten(m, pl, page) = U
    BY <1>5, <1>8 DEF Forgotten
  <2>5. Books(done, None, T, U) /\ Private(done) /\ Moved(m.at, done.at, pl, page)
    BY <2>3, <2>4 DEF Inserted
  <2>6. U \subseteq Entries
    BY <1>4 DEF TypeOK
  <2> HIDE DEF done, target, U
  <2>7. Books(end, None, OthersPages(s), U) /\ Private(end) /\ end.at = done.at
    <3>1. CASE newp = None
      BY <2>1, <2>5, <3>1 DEF T
    <3>2. CASE newp # None
      <4>1. end = free_page(done, newp) /\ newp \in T /\ newp \in Frames
        BY <1>2, <2>1, <3>2 DEF T
      <4>2. Books(end, None, T \ {newp}, U) /\ Private(end) /\ end.at = done.at
        BY <2>5, <4>1, FreeSafe
      <4>3. T \ {newp} = OthersPages(s)
        BY <1>2, <3>2 DEF T
      <4>4. QED
        BY <4>2, <4>3
    <3>3. QED
      BY <3>1, <3>2
  <2> HIDE DEF end
  <2>8. \A r \in Spaces \ {s}, v \in Pages : end.at[<<r, v>>] = mem.at[<<r, v>>]
    <3>1. ASSUME NEW r \in Spaces \ {s}, NEW v \in Pages
          PROVE  done.at[<<r, v>>] = m.at[<<r, v>>]
      <4>1. <<r, v>> \in Places \ {pl}
        BY <1>3, PlaceFacts DEF Place
      <4>2. QED
        BY <1>4, <2>5, <4>1 DEF Moved
    <3>2. QED
      BY <1>2, <2>7, <3>1
  <2>9. QED
    BY <1>1, <1>2, <2>6, <2>7, <2>8, EndKeeps
<1>9. QED
  BY <1>7, <1>8

\* exit_mmap()
LEMMA LeaveKeeps ==
    ASSUME TypeOK, Processes, Daemon, kswapd \in {"asleep", "woken"},
           NEW s \in Spaces, pc[s] \in {"user", "fault", "in"}, NEW m, m.at = mem.at,
           Books(m, None, OthersPages(s), undirtied), Private(m), Leave(s, m)
    PROVE  IInv'
<1> DEFINE P == {s} \X Pages \cup (IF Others(s) = {} THEN {Shm} \X Pages ELSE {})
           r == Unmap(m, P)
           x == IF Others(s) = {} THEN "user" ELSE "none"
<1>1. /\ mem' = [r EXCEPT !.stale = @ \cap r.used] /\ undirtied' = r.used \cap undirtied
      /\ pc' = [pc EXCEPT ![s] = x] /\ fault' = [fault EXCEPT ![s] = NoFault]
      /\ newpage' = [newpage EXCEPT ![s] = None]
      /\ UNCHANGED <<fork, shm_lock, panic>> /\ UNCHANGED swap_vars
  BY DEF Leave, Update, Goto
<1>2. P \in SUBSET Places /\ x \in {"user", "none"}
  BY DEF Places
<1>3. Books(r, None, OthersPages(s), undirtied) /\ Private(r) /\ Unmapped(m, r, P)
  <2> HIDE DEF P
  <2>1. QED
    BY <1>2, UnmapSafe
<1>4. \A t \in Spaces \ {s}, v \in Pages : r.at[<<t, v>>] = mem.at[<<t, v>>]
  <2>1. ASSUME NEW t \in Spaces \ {s}, NEW v \in Pages PROVE <<t, v>> \in Places \ P
    BY MemoryAssumption DEF Places
  <2> HIDE DEF P, r
  <2>2. QED
    BY <1>3, <2>1 DEF Unmapped
<1>5. \A v \in Pages : r.at[<<s, v>>] = None
  <2>1. ASSUME NEW v \in Pages PROVE <<s, v>> \in Places /\ <<s, v>> \in P
    BY DEF Places
  <2> HIDE DEF P, r
  <2>2. QED
    BY <1>3, <2>1 DEF Unmapped
<1>6. undirtied \in SUBSET Entries
  BY DEF TypeOK
<1> HIDE DEF r, x, P
<1>7. QED
  BY <1>1, <1>2, <1>3, <1>4, <1>5, <1>6, EndKeeps

LEMMA OthersFacts ==
    ASSUME TypeOK, Processes, NEW s \in Spaces
    PROVE  /\ newpage[s] \in Frames \cup {None} /\ newpage[s] \notin OthersPages(s)
           /\ Taken = OthersPages(s) \cup ({newpage[s]} \ {None})
           /\ OthersPages(s) \subseteq Frames
  BY DEF TypeOK, Processes, NewPages, Taken, OthersPages

\* swap_in_page() reads the page, or fails.
LEMMA ReadKeeps ==
    ASSUME TypeOK, Processes, Daemon, kswapd \in {"asleep", "woken"},
           NEW s \in Spaces, NEW m, NEW newp, Handling(s, m, newp),
           m.at[Place(s)] \in Entries, Cached(m, m.at[Place(s)]) = {}, Read(s, m, newp)
    PROVE  IInv'
<1> DEFINE e == m.at[Place(s)]
           T == OthersPages(s) \cup ({newp} \ {None})
<1>1. /\ pc[s] \in {"fault", "in"} /\ m.at = mem.at
      /\ newp \in Frames \cup {None} /\ newp \notin OthersPages(s)
      /\ Books(m, None, T, undirtied) /\ Private(m) /\ m \in MemoryType
      /\ fault[s].page \notin Shared => newp # None
  BY DEF Handling, Books
<1>2. e \in m.used
  <2>1. Place(s) \in Places
    BY <1>1, PlaceFacts DEF Place, Processes, Faults
  <2>2. Place(s) \in Refs(m.at, e)
    BY <2>1 DEF Refs
  <2>3. QED
    BY <1>1, <2>2 DEF Books, Counts
<1> HIDE DEF e
<1>3. ASSUME NEW f \in m.free,
             Resolve(s, swap_page_add([m EXCEPT !.free = @ \ {f}], f, e), f, newp)
      PROVE  IInv'
  <2> DEFINE taken == [m EXCEPT !.free = @ \ {f}]
             read == swap_page_add(taken, f, e)
  <2>1. /\ Books(taken, None, T \cup {f}, undirtied) /\ Private(taken) /\ f \in Frames
        /\ taken.at = m.at /\ taken.index = m.index /\ taken.used = m.used
    BY <1>1, TakeSafe
  <2>2. f \notin T /\ m.index \in [Frames -> Entries \cup {None}]
    BY <1>1, <2>1, TypeFacts DEF Books, Counts
  <2>3. Cached(taken, e) = {} /\ f \in T \cup {f}
    BY <2>1 DEF Cached, e
  <2> HIDE DEF taken
  <2>4. /\ Books(read, None, (T \cup {f}) \ {f}, undirtied) /\ Private(read)
        /\ read.at = taken.at /\ read.index = [taken.index EXCEPT ![f] = e]
    BY <1>2, <2>1, <2>3, ReadSafe
  <2>5. (T \cup {f}) \ {f} = T /\ read.index[f] = e /\ read.at = m.at
    BY <2>1, <2>2, <2>4
  <2>6. Resolve(s, read, f, newp)
    BY <1>3 DEF taken
  <2> HIDE DEF read
  <2>7. Handling(s, read, newp)
    BY <1>1, <2>4, <2>5 DEF Handling
  <2>8. read.at[Place(s)] \in Entries /\ read.index[f] = read.at[Place(s)]
    BY <2>5 DEF e
  <2>9. QED
    BY <2>1, <2>6, <2>7, <2>8, ResolveKeeps
<1>4. ASSUME Leave(s, IF newp = None THEN m ELSE free_page(m, newp)) PROVE IInv'
  <2>1. CASE newp = None
    <3>1. T = OthersPages(s)
      BY <2>1
    <3>2. QED
      BY <1>1, <1>4, <2>1, <3>1, LeaveKeeps
  <2>2. CASE newp # None
    <3> DEFINE r == free_page(m, newp)
    <3>1. newp \in T /\ newp \in Frames /\ T \ {newp} = OthersPages(s)
      BY <1>1, <2>2
    <3>2. Books(r, None, T \ {newp}, undirtied) /\ Private(r) /\ r.at = m.at
      BY <1>1, <3>1, FreeSafe
    <3>3. Leave(s, r)
      BY <1>4, <2>2
    <3> HIDE DEF r, T
    <3>4. QED
      BY <1>1, <3>1, <3>2, <3>3, LeaveKeeps
  <2>3. QED
    BY <2>1, <2>2
<1>5. QED
  BY <1>3, <1>4 DEF Read, e

\* No wakeup is lost: the one who waits has woken kswapd.
LEMMA WaitKeeps ==
    ASSUME TypeOK, Daemon, kswapd \in {"asleep", "woken"}, NEW s \in Spaces,
           try_free_pages(s)
    PROVE  /\ Daemon' /\ waiting' \subseteq Spaces /\ pressure' \in Int
           /\ kswapd' = "woken" /\ scan' = scan
<1>1. /\ scan = {} /\ scan' = scan /\ kswapd' = "woken" /\ pressure' = pressure + 1
      /\ pressure \in Int /\ pressure >= 0 /\ waiting' = waiting \cup {s}
      /\ waiting \subseteq Spaces
  BY DEF Daemon, TypeOK, try_free_pages
<1>2. QED
  BY <1>1 DEF Daemon, WaitersServed

LEMMA HandleKeeps ==
    ASSUME TypeOK, Memories, Processes, Daemon, kswapd \in {"asleep", "woken"},
           NEW s \in Spaces, NEW m, NEW newp, Handling(s, m, newp), pc[s] = "fault",
           m.stale \subseteq m.used, Handle(s, m, newp)
    PROVE  IInv'
<1> DEFINE at == m.at[Place(s)]
<1>1. CASE at \in Frames /\ Resolve(s, m, at, newp)
  BY <1>1, ResolveKeeps
<1>2. CASE \E f \in Cached(m, at) : at \in Entries /\ Resolve(s, m, f, newp)
  <2>1. PICK f \in Cached(m, at) : at \in Entries /\ Resolve(s, m, f, newp)
    BY <1>2
  <2>2. f \in Frames /\ m.index[f] = at
    BY <2>1 DEF Cached
  <2>3. QED
    BY <2>1, <2>2, ResolveKeeps
<1>3. CASE at \in Entries /\ Cached(m, at) = {} /\ Read(s, m, newp)
  BY <1>3, ReadKeeps
<1>4. CASE /\ at \in Entries /\ mem' = m
           /\ newpage' = [newpage EXCEPT ![s] = newp]
           /\ Goto(s, "in")
           /\ try_free_pages(s)
           /\ UNCHANGED <<fault, fork, shm_lock, panic, undirtied>>
  <2>1. /\ m.at = mem.at /\ newp \in Frames \cup {None} /\ newp \notin OthersPages(s)
        /\ Books(m, None, OthersPages(s) \cup ({newp} \ {None}), undirtied) /\ Private(m)
        /\ fault[s].page \notin Shared => newp # None
    BY DEF Handling
  <2>2. /\ pc' = [pc EXCEPT ![s] = "in"] /\ fault' = fault /\ fork' = fork
        /\ newpage' = [newpage EXCEPT ![s] = newp] /\ mem' = m /\ undirtied' = undirtied
        /\ shm_lock' = shm_lock /\ panic' = panic
    BY <1>4 DEF Goto
  <2>3. /\ \A r \in Spaces \ {s} : pc'[r] = pc[r] /\ newpage'[r] = newpage[r]
        /\ pc'[s] = "in" /\ newpage'[s] = newp
        /\ fork[s].to = None
    BY <2>2 DEF TypeOK, Processes, Forks
  <2>4. Taken' = OthersPages(s) \cup ({newp} \ {None})
    BY <2>3 DEF Taken, OthersPages
  <2>5. Memories'
    BY <2>1, <2>2, <2>4 DEF Memories
  <2>6. Daemon' /\ waiting' \subseteq Spaces /\ pressure' \in Int
        /\ kswapd' = "woken" /\ scan' = scan
    BY <1>4, WaitKeeps
  <2>7. NewPages'
    <3>1. \A r \in Spaces \ {s} : newpage[r] # newp \/ newp = None
      BY <2>1 DEF OthersPages
    <3>2. QED
      BY <2>3, <3>1 DEF Processes, NewPages
  <2>8. Faults'
    BY <1>4, <2>1, <2>2, <2>3 DEF Processes, Faults, Place
  <2>9. Forks'
    <3>1. ASSUME NEW q \in Spaces, fork[q].to # None
          PROVE  fork[q].to \in Spaces \ {s} /\ pc[fork[q].to] = "none"
      BY <3>1 DEF TypeOK, Processes, Forks
    <3>2. QED
      BY <2>2, <2>3, <3>1 DEF Processes, Forks
  <2>10. Copies'
    BY <2>1, <2>2, <2>3 DEF Processes, Copies
  <2>11. TypeOK'
    BY <2>1, <2>2, <2>6 DEF TypeOK, Books
  <2>12. QED
    BY <2>5, <2>6, <2>7, <2>8, <2>9, <2>10, <2>11 DEF IInv, Processes
<1>5. QED
  BY <1>1, <1>2, <1>3, <1>4 DEF Handle

\* The processes do not notice a change that leaves the page tables alone.
LEMMA SameTables ==
    ASSUME Processes, UNCHANGED proc_vars, mem'.at = mem.at
    PROVE  Processes' /\ Taken' = Taken
<1>1. pc' = pc /\ fault' = fault /\ newpage' = newpage /\ fork' = fork
  BY DEF proc_vars
<1>2. NewPages' /\ Faults' /\ Forks' /\ Copies'
  BY <1>1 DEF Processes, NewPages, Faults, Forks, Copies, Place
<1>3. QED
  BY <1>1, <1>2 DEF Processes, Taken

LEMMA AccessKeeps ==
    ASSUME IInv, NEW s \in Spaces, NEW v \in Pages, NEW write \in BOOLEAN,
           Access(s, v, write)
    PROVE  IInv'
<1> DEFINE pl == <<s, v>>
           f == mem.at[pl]
<1>1. /\ f \in Frames /\ (write => pl \in mem.writable) /\ pl \in Places
      /\ mem \in MemoryType /\ mem.index \in [Frames -> Entries \cup {None}]
      /\ mem.index[f] # None => mem.index[f] \in mem.used
  BY PlaceFacts, TypeFacts DEF Access, IInv, TypeOK, Memories, Books, Caches
<1>2. /\ mem'.dirty = (IF write THEN mem.dirty \cup {pl} ELSE mem.dirty)
      /\ mem'.stale = (IF write THEN mem.stale \cup ({mem.index[f]} \ {None}) ELSE mem.stale)
      /\ mem'.at = mem.at /\ mem'.writable = mem.writable /\ mem'.ref = mem.ref
      /\ mem'.index = mem.index /\ mem'.pg_dirty = mem.pg_dirty /\ mem'.active = mem.active
      /\ mem'.inactive = mem.inactive /\ mem'.used = mem.used /\ mem'.mem_map = mem.mem_map
      /\ mem'.free = mem.free
  BY <1>1 DEF Access, MemoryType
<1>3. mem' \in MemoryType
  <2> DEFINE accessed == mem.accessed \cup {pl}
             dirty == IF write THEN mem.dirty \cup {pl} ELSE mem.dirty
             stale == IF write THEN mem.stale \cup ({mem.index[f]} \ {None}) ELSE mem.stale
  <2>1. /\ accessed \in SUBSET Places /\ dirty \in SUBSET Places /\ stale \in SUBSET Entries
        /\ mem' = [mem EXCEPT !.accessed = accessed, !.dirty = dirty, !.stale = stale]
    BY <1>1 DEF Access, MemoryType
  <2> HIDE DEF accessed, dirty, stale
  <2>2. QED
    BY <1>1, <2>1 DEF MemoryType
<1>4. /\ UNCHANGED proc_vars /\ UNCHANGED swap_vars /\ UNCHANGED <<panic, undirtied>>
  BY DEF Access
<1>5. \A e : Cached(mem', e) = Cached(mem, e)
  BY <1>2 DEF Cached
<1>6. Taken' = Taken
  BY <1>4 DEF Taken, proc_vars
<1>7. Counts(mem', None, Taken') /\ Caches(mem') /\ Private(mem') /\ mem'.stale \subseteq mem'.used
  BY <1>1, <1>2, <1>5, <1>6 DEF IInv, Memories, Books, Counts, Caches, Private
<1>8. Known(mem', undirtied')
  <2>1. mem'.dirty \subseteq Spaces \X Pages
    BY <1>2 DEF IInv, Memories, Books, Known
  <2>2. ASSUME NEW e \in (mem'.stale \cap mem.used) \ undirtied
        PROVE  \E h \in Cached(mem, e) : h \in mem.pg_dirty \/ Refs(mem.at, h) \cap mem'.dirty # {}
    <3>1. CASE e \in mem.stale
      <4>1. PICK h \in Cached(mem, e) : h \in mem.pg_dirty \/ Refs(mem.at, h) \cap mem.dirty # {}
        BY <3>1 DEF IInv, Memories, Books, Known
      <4>2. mem.dirty \subseteq mem'.dirty
        BY <1>2
      <4>3. QED
        BY <4>1, <4>2
    <3>2. CASE e \notin mem.stale
      <4>1. write /\ e = mem.index[f] /\ pl \in mem'.dirty
        BY <1>2, <3>2
      <4>2. f \in Cached(mem, e) /\ pl \in Refs(mem.at, f)
        BY <1>1, <4>1 DEF Cached, Refs
      <4>3. QED
        BY <4>1, <4>2
    <3>3. QED
      BY <3>1, <3>2
  <2>3. QED
    BY <1>2, <1>4, <1>5, <2>1, <2>2 DEF Known
<1>9. Memories'
  BY <1>3, <1>7, <1>8 DEF Memories, Books
<1>10. Processes'
  BY <1>2, <1>4, SameTables DEF IInv
<1>11. Daemon'
  BY <1>2, <1>4 DEF IInv, Daemon, WaitersServed, swap_vars
<1>12. TypeOK'
  BY <1>3, <1>4 DEF IInv, TypeOK, proc_vars, swap_vars
<1>13. QED
  BY <1>9, <1>10, <1>11, <1>12 DEF IInv

LEMMA FaultKeeps ==
    ASSUME IInv, NEW s \in Spaces, NEW v \in Pages, NEW write \in BOOLEAN,
           Fault(s, v, write)
    PROVE  IInv'
<1>1. /\ pc[s] = "user" /\ pc' = [pc EXCEPT ![s] = "fault"]
      /\ fault' = [fault EXCEPT ![s] = [page |-> v, write |-> write]]
      /\ UNCHANGED <<mem, newpage, fork, shm_lock, panic, undirtied>> /\ UNCHANGED swap_vars
  BY DEF Fault, Goto
<1>2. /\ \A r \in Spaces \ {s} : pc'[r] = pc[r] /\ fault'[r] = fault[r]
      /\ pc'[s] = "fault" /\ fault'[s].page = v /\ newpage[s] = None /\ fork[s].to = None
  BY <1>1 DEF IInv, TypeOK, Processes, NewPages, Forks
<1>3. Memories' /\ Daemon'
  BY <1>1 DEF IInv, Memories, Daemon, WaitersServed, Taken, swap_vars
<1>4. TypeOK'
  BY <1>1 DEF IInv, TypeOK, swap_vars
<1>5. Forks'
  <2>1. ASSUME NEW q \in Spaces, fork[q].to # None
        PROVE  fork[q].to \in Spaces \ {s} /\ pc[fork[q].to] = "none"
    BY <1>1, <2>1, ZenonT(40) DEF IInv, TypeOK, Processes, Forks
  <2>2. QED
    BY <1>1, <1>2, <2>1 DEF IInv, Processes, Forks
<1>6. NewPages' /\ Faults' /\ Copies'
  BY <1>1, <1>2 DEF IInv, Processes, NewPages, Faults, Copies, Place
<1>7. QED
  BY <1>3, <1>4, <1>5, <1>6 DEF IInv, Processes

LEMMA PrivateFaultKeeps ==
    ASSUME IInv, NEW s \in Spaces, kswapd \in {"asleep", "woken"}, NEW f \in Frames,
           PrivateFault(s, f)
    PROVE  IInv'
<1> DEFINE m == [mem EXCEPT !.free = @ \ {f}]
<1>1. /\ pc[s] = "fault" /\ f \in mem.free /\ Handle(s, m, f)
  BY DEF PrivateFault
<1>2. /\ Books(m, None, Taken \cup {f}, undirtied) /\ Private(m)
      /\ m.at = mem.at /\ m.used = mem.used /\ m.stale = mem.stale
  BY <1>1, TakeSafe DEF IInv, Memories
<1> HIDE DEF m
<1>3. newpage[s] = None /\ f # None /\ f \notin Taken
  BY <1>1, MemoryAssumption DEF IInv, Processes, NewPages, Memories, Books, Counts
<1>4. Taken = OthersPages(s)
  BY <1>3, OthersFacts DEF IInv
<1>5. Handling(s, m, f)
  <2>1. OthersPages(s) \cup ({f} \ {None}) = Taken \cup {f}
    BY <1>3, <1>4
  <2>2. QED
    BY <1>1, <1>2, <1>3, <1>4, <2>1 DEF Handling
<1>6. m.stale \subseteq m.used
  BY <1>2 DEF IInv, Memories
<1>7. QED
  BY <1>1, <1>5, <1>6, HandleKeeps DEF IInv

LEMMA SwappedShareFaultKeeps ==
    ASSUME IInv, NEW s \in Spaces, kswapd \in {"asleep", "woken"}, SwappedShareFault(s)
    PROVE  IInv'
<1>1. pc[s] = "fault" /\ fault[s].page \in Shared /\ Handle(s, mem, None)
  BY DEF SwappedShareFault
<1>2. newpage[s] = None
  BY <1>1 DEF IInv, Processes, NewPages
<1>3. Taken = OthersPages(s) /\ None \notin OthersPages(s)
  BY <1>2, OthersFacts DEF IInv
<1>4. Handling(s, mem, None)
  <2>1. OthersPages(s) \cup ({None} \ {None}) = Taken
    BY <1>3
  <2>2. QED
    BY <1>1, <1>3, <2>1 DEF Handling, IInv, Memories
<1>5. QED
  BY <1>1, <1>4, HandleKeeps DEF IInv, Memories

LEMMA SwapInKeeps ==
    ASSUME IInv, NEW s \in Spaces, kswapd \in {"asleep", "woken"}, SwapIn(s)
    PROVE  IInv'
<1> DEFINE e == mem.at[Place(s)]
           newp == newpage[s]
<1>1. /\ pc[s] = "in" /\ e \in Entries /\ (fault[s].page \notin Shared => newp # None)
      /\ IF Cached(mem, e) = {} THEN Read(s, mem, newp)
         ELSE \E page \in Cached(mem, e) : Resolve(s, mem, page, newp)
  BY DEF SwapIn, IInv, Processes, Faults
<1>2. /\ newp \in Frames \cup {None} /\ newp \notin OthersPages(s)
      /\ Taken = OthersPages(s) \cup ({newp} \ {None})
  BY OthersFacts DEF IInv
<1>3. Handling(s, mem, newp)
  BY <1>1, <1>2 DEF Handling, IInv, Memories
<1>4. CASE Cached(mem, e) = {}
  BY <1>1, <1>3, <1>4, ReadKeeps DEF IInv
<1>5. CASE Cached(mem, e) # {}
  <2>1. PICK page \in Cached(mem, e) : Resolve(s, mem, page, newp)
    BY <1>1, <1>5
  <2>2. page \in Frames /\ mem.index[page] = e
    BY <2>1 DEF Cached
  <2>3. QED
    BY <1>1, <1>3, <2>1, <2>2, ResolveKeeps DEF IInv
<1>6. QED
  BY <1>4, <1>5

LEMMA ZeroFillKeeps ==
    ASSUME IInv, NEW s \in Spaces, kswapd \in {"asleep", "woken"}, NEW f \in Frames,
           ZeroFill(s, f)
    PROVE  IInv'
<1> DEFINE pl == Place(s)
           m == [mem EXCEPT !.free = @ \ {f}]
           r == page_insert(m, pl, f, TRUE)
<1>1. /\ pc[s] = "fault" /\ mem.at[pl] = None /\ f \in mem.free
      /\ mem' = [r EXCEPT !.stale = @ \cap r.used] /\ undirtied' = r.used \cap undirtied
      /\ pc' = [pc EXCEPT ![s] = "user"] /\ fault' = [fault EXCEPT ![s] = NoFault]
      /\ newpage' = [newpage EXCEPT ![s] = None]
      /\ UNCHANGED <<fork, shm_lock, panic>> /\ UNCHANGED swap_vars
  BY DEF ZeroFill, EndFault, Goto, Update
<1>2. pl = <<s, fault[s].page>> /\ fault[s].page \in Pages /\ pl \in Places
  BY <1>1, PlaceFacts DEF Place, IInv, Processes, Faults
<1>3. newpage[s] = None /\ Taken = OthersPages(s) /\ f \notin Taken /\ f # None
  <2>1. newpage[s] = None /\ f \notin Taken /\ f # None
    BY <1>1, MemoryAssumption DEF IInv, Processes, NewPages, Memories, Books, Counts
  <2>2. QED
    BY <2>1, OthersFacts DEF IInv
<1>4. /\ Books(m, None, Taken \cup {f}, undirtied) /\ Private(m) /\ m.at = mem.at
      /\ m \in MemoryType
  BY <1>1, TakeSafe, SMTT(40) DEF IInv, Memories, Books
<1> HIDE DEF m, pl
<1>5. Refs(m.at, f) = {} /\ m.index[f] = None /\ f \notin m.free
  BY <1>4 DEF Books, Counts
<1>6. OwnPage(m, pl, f, TRUE)
  <2>1. \A q \in m.writable : m.at[q] # f
    BY <1>4, <1>5 DEF Refs, MemoryType
  <2>2. QED
    BY <1>5, <2>1 DEF OwnPage
<1>7. /\ Books(r, None, (Taken \cup {f}) \ {f}, undirtied \cup Forgotten(m, pl, f))
      /\ Private(r) /\ Inserted(m, r, pl, f)
  BY <1>2, <1>4, <1>5, <1>6, InsertSafe
<1>8. (Taken \cup {f}) \ {f} = OthersPages(s) /\ Forgotten(m, pl, f) = {}
  BY <1>1, <1>3, <1>4 DEF Forgotten
<1>9. undirtied \cup Forgotten(m, pl, f) = undirtied /\ undirtied \in SUBSET Entries
  BY <1>8 DEF IInv, TypeOK
<1> HIDE DEF r
<1>10. Books(r, None, OthersPages(s), undirtied)
  BY <1>7, <1>8, <1>9
<1>11. \A t \in Spaces \ {s}, v \in Pages : r.at[<<t, v>>] = mem.at[<<t, v>>]
  <2>1. m.at \in [Places -> Held]
    BY <1>4, TypeFacts
  <2>2. ASSUME NEW t \in Spaces \ {s}, NEW v \in Pages PROVE <<t, v>> \in Places \ {pl}
    BY <1>2, PlaceFacts
  <2>3. QED
    BY <1>4, <1>7, <2>1, <2>2 DEF Inserted, Moved
<1>12. QED
  BY <1>1, <1>7, <1>9, <1>10, <1>11, EndKeeps DEF IInv

\* shmem_get_entry() makes a page of the shared memory object.
LEMMA MadeSafe ==
    ASSUME IInv, NEW v \in Shared, mem.at[<<Shm, v>>] = None, NEW f \in mem.free, NEW r,
           r = [mem EXCEPT !.free = @ \ {f}, !.at[<<Shm, v>>] = f, !.ref[f] = @ + 1]
    PROVE  /\ Books(r, None, Taken, undirtied) /\ Private(r) /\ f \in Frames
           /\ Moved(mem.at, r.at, <<Shm, v>>, f)
<1> DEFINE pl == <<Shm, v>>
           m == [mem EXCEPT !.free = @ \ {f}]
           more == [m EXCEPT !.ref[f] = @ + 1]
<1>0. mem \in MemoryType /\ pl \in Places /\ f \in Frames /\ f \in Held
  BY MemoryAssumption DEF IInv, TypeOK, MemoryType, Places, Held
<1>1. /\ Books(m, None, Taken \cup {f}, undirtied) /\ Private(m) /\ f \in Frames
      /\ m.at = mem.at
  BY TakeSafe DEF IInv, Memories
<1>2. f \notin m.free /\ Refs(m.at, f) = {} /\ f \notin Taken
  BY <1>0, <1>1 DEF Books, Counts, IInv, Memories
<1>3. /\ Books(more, f, (Taken \cup {f}) \ {f}, undirtied) /\ Private(more)
      /\ more.at = mem.at
  <2> HIDE DEF m
  <2>1. QED
    BY <1>1, <1>2, ReserveSafe
<1>4. (Taken \cup {f}) \ {f} = Taken
  BY <1>2
<1>5. pl \notin mem.writable /\ pl \notin mem.dirty
  BY MemoryAssumption DEF IInv, Memories, Private, Books, Known
<1>6. Mapped(more, r, pl, f, FALSE)
  <2> DEFINE at == [mem.at EXCEPT ![pl] = f]
             ref == [mem.ref EXCEPT ![f] = @ + 1]
             free == mem.free \ {f}
  <2>1. /\ at \in [Places -> Frames \cup Entries \cup {None}] /\ ref \in [Frames -> Nat]
        /\ free \in SUBSET Frames
        /\ more = [[mem EXCEPT !.free = free] EXCEPT !.ref = ref]
        /\ r = [mem EXCEPT !.free = free, !.at = at, !.ref = ref]
    BY <1>0 DEF MemoryType
  <2>2. Moved(mem.at, at, pl, f)
    BY DEF Moved
  <2> HIDE DEF at, ref, free, m, more, pl
  <2>3. /\ more.at = mem.at /\ more.ref = ref /\ more.free = free
        /\ more.writable = mem.writable /\ more.dirty = mem.dirty /\ more.index = mem.index
        /\ more.pg_dirty = mem.pg_dirty /\ more.active = mem.active
        /\ more.inactive = mem.inactive /\ more.used = mem.used
        /\ more.mem_map = mem.mem_map /\ more.stale = mem.stale
    BY <1>0, <2>1 DEF MemoryType
  <2>4. /\ r.at = at /\ r.ref = ref /\ r.free = free
        /\ r.writable = mem.writable /\ r.dirty = mem.dirty /\ r.index = mem.index
        /\ r.pg_dirty = mem.pg_dirty /\ r.active = mem.active
        /\ r.inactive = mem.inactive /\ r.used = mem.used
        /\ r.mem_map = mem.mem_map /\ r.stale = mem.stale /\ r \in MemoryType
    BY <1>0, <2>1 DEF MemoryType
  <2>5. QED
    BY <1>5, <2>2, <2>3, <2>4 DEF Mapped
<1>7. OwnPage(more, pl, f, FALSE)
  <2>1. more.writable \subseteq Places
    BY <1>3, TypeFacts DEF Books
  <2> HIDE DEF more
  <2>2. QED
    BY <1>1, <1>2, <1>3, <2>1 DEF OwnPage, Refs
<1> HIDE DEF m, more, pl
<1>8. more.at[pl] = None
  BY <1>3 DEF pl
<1>9. Books(r, None, Taken, undirtied) /\ Private(r) /\ Moved(more.at, r.at, pl, f)
  BY <1>0, <1>3, <1>4, <1>6, <1>7, <1>8, MapSafe
<1>10. QED
  BY <1>0, <1>3, <1>9 DEF pl

LEMMA ShareFaultKeeps ==
    ASSUME IInv, NEW s \in Spaces, kswapd \in {"asleep", "woken"}, NEW f \in Frames,
           ShareFault(s, f)
    PROVE  IInv'
<1> DEFINE pl == Place(s)
           shared == <<Shm, fault[s].page>>
           made == IF mem.at[shared] # None THEN mem
                   ELSE [mem EXCEPT !.free = @ \ {f}, !.at[shared] = f, !.ref[f] = @ + 1]
           r == page_insert(made, pl, f, TRUE)
<1>1. /\ pc[s] = "fault" /\ mem.at[pl] = None /\ fault[s].page \in Shared
      /\ IF mem.at[shared] = None THEN f \in mem.free ELSE f = mem.at[shared]
      /\ mem' = [r EXCEPT !.stale = @ \cap r.used] /\ undirtied' = r.used \cap undirtied
      /\ pc' = [pc EXCEPT ![s] = "user"] /\ fault' = [fault EXCEPT ![s] = NoFault]
      /\ newpage' = [newpage EXCEPT ![s] = None] /\ shm_lock' = None
      /\ UNCHANGED <<fork, panic>> /\ UNCHANGED swap_vars
  BY DEF ShareFault, SharedFaultNeeds, EndFault, Goto, Update
<1>2. /\ pl = <<s, fault[s].page>> /\ fault[s].page \in Pages /\ pl \in Places
      /\ shared \in Places /\ shared # pl
  BY <1>1, PlaceFacts DEF Place, IInv, Processes, Faults
<1>3. newpage[s] = None /\ Taken = OthersPages(s)
  BY <1>1, OthersFacts DEF IInv, Processes, NewPages
<1>4. /\ mem \in MemoryType /\ mem.at \in [Places -> Held] /\ f # None
  BY TypeFacts DEF IInv, TypeOK
<1>5. /\ Books(made, None, Taken, undirtied) /\ Private(made) /\ made.at[shared] = f
      /\ \A q \in Places \ {shared} : made.at[q] = mem.at[q]
  <2>1. CASE mem.at[shared] = None
    <3>1. made = [mem EXCEPT !.free = @ \ {f}, !.at[shared] = f, !.ref[f] = @ + 1]
      BY <2>1
    <3>2. f \in mem.free
      BY <1>1, <2>1
    <3> HIDE DEF made
    <3>3. /\ Books(made, None, Taken, undirtied) /\ Private(made)
          /\ Moved(mem.at, made.at, shared, f)
      BY <1>1, <2>1, <3>1, <3>2, MadeSafe
    <3>4. QED
      BY <1>2, <1>4, <3>3 DEF Moved
  <2>2. CASE mem.at[shared] # None
    BY <1>1, <1>2, <2>2 DEF IInv, Memories
  <2>3. QED
    BY <2>1, <2>2
<1> HIDE DEF made, pl
<1>6. shared \in Refs(made.at, f) /\ f \notin made.free /\ f \notin Taken
  <2>1. shared \in Refs(made.at, f)
    BY <1>2, <1>5 DEF Refs
  <2>2. QED
    BY <1>5, <2>1 DEF Books, Counts
<1>7. OwnPage(made, pl, f, TRUE)
  <2>1. ASSUME NEW q \in made.writable, q[2] \notin Shared, made.at[q] = f PROVE FALSE
    <3>1. Refs(made.at, f) = {q}
      BY <1>5, <2>1 DEF Private
    <3>2. QED
      BY <1>1, <1>6, <2>1, <3>1
  <2>2. pl[2] \in Shared
    BY <1>1, <1>2
  <2>3. QED
    BY <2>1, <2>2 DEF OwnPage
<1>8. /\ Books(r, None, Taken \ {f}, undirtied \cup Forgotten(made, pl, f))
      /\ Private(r) /\ Inserted(made, r, pl, f)
  <2>1. TRUE \in BOOLEAN /\ pl \in Places /\ f \notin made.free
    BY <1>2, <1>6
  <2>2. QED
    BY ONLY <1>5, <1>7, <2>1, InsertSafe, f \in Frames DEF r
<1>9. made.at[pl] = None
  BY <1>1, <1>2, <1>5
<1>10. /\ Taken \ {f} = OthersPages(s) /\ undirtied \cup Forgotten(made, pl, f) = undirtied
       /\ undirtied \in SUBSET Entries
  BY <1>3, <1>4, <1>6, <1>9 DEF Forgotten, IInv, TypeOK
<1> HIDE DEF r
<1>11. \A t \in Spaces \ {s}, v \in Pages : r.at[<<t, v>>] = mem.at[<<t, v>>]
  <2>1. ASSUME NEW t \in Spaces \ {s}, NEW v \in Pages
        PROVE  <<t, v>> \in Places \ {shared, pl}
    BY <1>2, PlaceFacts
  <2>2. made.at \in [Places -> Held]
    BY <1>5, TypeFacts DEF Books
  <2>3. QED
    BY <1>5, <1>8, <2>1, <2>2, ZenonT(40) DEF Inserted, Moved
<1>12. Books(r, None, OthersPages(s), undirtied)
  BY <1>8, <1>10
<1>13. QED
  BY <1>1, <1>8, <1>10, <1>11, <1>12, EndKeeps DEF IInv

LEMMA ShareFaultSwappedKeeps ==
    ASSUME IInv, NEW s \in Spaces, ShareFaultSwapped(s)
    PROVE  IInv'
<1>1. /\ UNCHANGED proc_vars /\ UNCHANGED swap_vars /\ UNCHANGED <<mem, undirtied>>
      /\ panic' = "invalid swap_entry_t"
  BY DEF ShareFaultSwapped
<1>2. Processes' /\ Taken' = Taken
  BY <1>1, SameTables DEF IInv
<1>3. TypeOK'
  BY <1>1 DEF IInv, TypeOK, proc_vars, swap_vars
<1>4. Memories' /\ Daemon'
  BY <1>1, <1>2 DEF IInv, Memories, Daemon, WaitersServed, swap_vars
<1>5. QED
  BY <1>2, <1>3, <1>4 DEF IInv

LEMMA NoFrameKeeps ==
    ASSUME IInv, NEW s \in Spaces, kswapd \in {"asleep", "woken"}, NoFrame(s)
    PROVE  IInv'
<1>1. /\ UNCHANGED <<mem, pc, fault, newpage, fork, panic, undirtied>>
      /\ shm_lock' \in {s, shm_lock} /\ try_free_pages(s)
  BY DEF NoFrame
<1>2. /\ Daemon' /\ waiting' \subseteq Spaces /\ pressure' \in Int
      /\ kswapd' = "woken" /\ scan' = scan
  BY <1>1, WaitKeeps DEF IInv
<1>3. TypeOK'
  BY <1>1, <1>2 DEF IInv, TypeOK
<1>4. Memories' /\ Processes'
  BY <1>1 DEF IInv, Memories, Taken, Processes, NewPages, Faults, Forks, Copies, Place
<1>5. QED
  BY <1>2, <1>3, <1>4 DEF IInv

-----------------------------------------------------------------------------
(* Fork, unmapping and exit.                                               *)

LEMMA ForkBeginKeeps ==
    ASSUME IInv, NEW s \in Spaces, NEW to \in Spaces, ForkBegin(s, to)
    PROVE  IInv'
<1>1. /\ pc[s] = "user" /\ pc[to] = "none" /\ \A r \in Spaces : fork[r].to # to
      /\ fork' = [fork EXCEPT ![s] = [to |-> to, left |-> Pages]]
      /\ pc' = [pc EXCEPT ![s] = "fork"]
      /\ UNCHANGED <<mem, fault, newpage, shm_lock, panic, undirtied>> /\ UNCHANGED swap_vars
  BY DEF ForkBegin, Goto, Alive
<1>2. to # None
  BY MemoryAssumption
<1>3. /\ \A r \in Spaces \ {s} : pc'[r] = pc[r] /\ fork'[r] = fork[r]
      /\ pc'[s] = "fork" /\ fork'[s] = [to |-> to, left |-> Pages] /\ to # s
  BY <1>1 DEF IInv, TypeOK
<1>4. TypeOK'
  BY <1>1 DEF IInv, TypeOK, swap_vars
<1>5. Memories' /\ Daemon'
  BY <1>1 DEF IInv, Memories, Daemon, WaitersServed, Taken, swap_vars
<1>6. NewPages' /\ Faults'
  <2>1. newpage[s] = None
    BY <1>1 DEF IInv, Processes, NewPages
  <2>2. QED
    BY <1>1, <1>3, <2>1 DEF IInv, Processes, NewPages, Faults, Place
<1>7. Forks'
  <2>1. ASSUME NEW q \in Spaces, fork[q].to # None
        PROVE  fork[q].to \in Spaces \ {s, to} /\ pc[fork[q].to] = "none"
    BY <1>1, <2>1, ZenonT(40) DEF IInv, TypeOK, Processes, Forks
  <2>2. QED
    BY <1>1, <1>2, <1>3, <2>1 DEF IInv, Processes, Forks
<1>8. Copies'
  <2>1. ASSUME NEW q \in Spaces, NEW v \in Pages, pc'[q] = "none", mem.at[<<q, v>>] # None
        PROVE  \E r \in Spaces : fork'[r].to = q /\ v \notin fork'[r].left
    <3>1. pc[q] = "none"
      BY <1>3, <2>1
    <3>2. PICK r \in Spaces : fork[r].to = q /\ v \notin fork[r].left
      BY <2>1, <3>1 DEF IInv, Processes, Copies
    <3>3. r # s
      BY <1>1, <3>2, MemoryAssumption DEF IInv, Processes, Forks
    <3>4. QED
      BY <1>3, <3>2, <3>3
  <2>2. QED
    BY <1>1, <2>1 DEF Copies
<1>9. QED
  BY <1>4, <1>5, <1>6, <1>7, <1>8 DEF IInv, Processes

LEMMA ForkEndKeeps ==
    ASSUME IInv, NEW s \in Spaces, ForkEnd(s)
    PROVE  IInv'
<1> DEFINE to == fork[s].to
<1>1. /\ pc[s] = "fork" /\ fork' = [fork EXCEPT ![s] = NoFork]
      /\ pc' = [pc EXCEPT ![s] = "user", ![to] = "user"]
      /\ UNCHANGED <<mem, fault, newpage, shm_lock, panic, undirtied>> /\ UNCHANGED swap_vars
  BY DEF ForkEnd
<1>2. to \in Spaces \ {s} /\ pc[to] = "none" /\ \A r \in Spaces \ {s} : fork[r].to # to
  BY <1>1 DEF IInv, TypeOK, Processes, Forks
<1> HIDE DEF to
<1>3. /\ \A r \in Spaces \ {s} : fork'[r] = fork[r]
      /\ \A r \in Spaces \ {s, to} : pc'[r] = pc[r]
      /\ pc'[s] = "user" /\ pc'[to] = "user" /\ fork'[s].to = None
  BY <1>1, <1>2 DEF IInv, TypeOK, NoFork
<1>4. TypeOK'
  BY <1>1, <1>2 DEF IInv, TypeOK, NoFork, swap_vars
<1>5. Memories' /\ Daemon'
  BY <1>1 DEF IInv, Memories, Daemon, WaitersServed, Taken, swap_vars
<1>6. NewPages' /\ Faults'
  <2>1. newpage[s] = None /\ newpage[to] = None
    BY <1>1, <1>2 DEF IInv, Processes, NewPages
  <2>2. NewPages'
    BY <1>1, <1>3, <2>1 DEF IInv, Processes, NewPages
  <2>3. Faults'
    BY <1>1, <1>3 DEF IInv, Processes, Faults, Place
  <2>4. QED
    BY <2>2, <2>3
<1>7. Forks'
  <2>1. ASSUME NEW q \in Spaces \ {s}, fork[q].to # None
        PROVE  fork[q].to \in Spaces \ {s, to} /\ pc[fork[q].to] = "none"
    BY <1>1, <1>2, <2>1 DEF IInv, TypeOK, Processes, Forks
  <2>2. fork[to].to = None
    BY <1>2 DEF IInv, Processes, Forks
  <2>3. ASSUME NEW q \in Spaces \ {s, to}
        PROVE  /\ pc'[q] = "fork" <=> fork'[q].to # None
               /\ fork'[q].to # None => pc'[fork'[q].to] = "none"
               /\ \A r \in Spaces : fork'[q].to = fork'[r].to /\ fork'[q].to # None => q = r
    BY <1>3, <2>1 DEF IInv, Processes, Forks
  <2>4. fork'[to].to = None
    BY <1>2, <1>3, <2>2
  <2>5. QED
    BY <1>3, <2>3, <2>4 DEF Forks
<1>8. Copies'
  <2>1. ASSUME NEW q \in Spaces, NEW v \in Pages, pc'[q] = "none", mem.at[<<q, v>>] # None
        PROVE  \E r \in Spaces : fork'[r].to = q /\ v \notin fork'[r].left
    <3>1. pc[q] = "none" /\ q # to
      BY <1>2, <1>3, <2>1
    <3>2. PICK r \in Spaces : fork[r].to = q /\ v \notin fork[r].left
      BY <2>1, <3>1 DEF IInv, Processes, Copies
    <3>3. r # s
      BY <3>1, <3>2 DEF to
    <3>4. QED
      BY <1>3, <3>2, <3>3
  <2>2. QED
    BY <1>1, <2>1 DEF Copies
<1>9. QED
  BY <1>4, <1>5, <1>6, <1>7, <1>8 DEF IInv, Processes

\* A place loses PTE_W.
LEMMA WithdrawSafe ==
    ASSUME NEW m, NEW T, NEW U, Books(m, None, T, U), Private(m),
           NEW W, W \subseteq m.writable, NEW r, r = [m EXCEPT !.writable = W]
    PROVE  /\ Books(r, None, T, U) /\ Private(r) /\ r.writable = W
           /\ r.at = m.at /\ r.dirty = m.dirty /\ r.index = m.index /\ r.pg_dirty = m.pg_dirty
           /\ r.free = m.free /\ r.used = m.used /\ r.stale = m.stale
           /\ r.inactive = m.inactive
<1>1. m \in MemoryType
  BY DEF Books
<1>2. /\ r \in MemoryType /\ r.writable = W
      /\ r.at = m.at /\ r.dirty = m.dirty /\ r.ref = m.ref
      /\ r.index = m.index /\ r.pg_dirty = m.pg_dirty /\ r.active = m.active
      /\ r.inactive = m.inactive /\ r.used = m.used /\ r.mem_map = m.mem_map
      /\ r.free = m.free /\ r.stale = m.stale
  BY <1>1 DEF MemoryType
<1>3. \A e : Cached(r, e) = Cached(m, e)
  BY <1>2 DEF Cached
<1>4. Counts(r, None, T) /\ Caches(r)
  BY <1>2, <1>3 DEF Books, Counts, Caches
<1>5. Known(r, U)
  BY <1>2, <1>3 DEF Books, Known
<1>6. QED
  BY <1>2, <1>4, <1>5 DEF Books, Private

\* The memory after one page of copy_range() from s to t.
Copied(s, t, v) ==
    IF mem.at[<<s, v>>] \in Frames
    THEN page_insert([mem EXCEPT !.writable = IF v \in Shared THEN @ ELSE @ \ {<<s, v>>}],
                     <<t, v>>, mem.at[<<s, v>>],
                     v \in Shared /\ <<s, v>> \in mem.writable)
    ELSE IF mem.at[<<s, v>>] \in Entries
         THEN [swap_duplicate(mem, mem.at[<<s, v>>]) EXCEPT !.at[<<t, v>>] = mem.at[<<s, v>>]]
    ELSE mem

LEMMA CopySafe ==
    ASSUME IInv, NEW v \in Pages, NEW s \in Spaces, NEW t \in Spaces,
           mem.at[<<t, v>>] = None, NEW r,
           r = Copied(s, t, v)
    PROVE  /\ Books(r, None, Taken, undirtied) /\ Private(r) /\ r.stale \subseteq r.used
           /\ \A q \in Places \ {<<t, v>>} : r.at[q] = mem.at[q]
<1> DEFINE from == <<s, v>>
           to == <<t, v>>
           f == mem.at[from]
<1>0. /\ from \in Places /\ to \in Places /\ mem \in MemoryType
      /\ mem.at \in [Places -> Held] /\ mem.writable \subseteq Places /\ None \notin Frames
      /\ Books(mem, None, Taken, undirtied) /\ Private(mem) /\ mem.stale \subseteq mem.used
  BY PlaceFacts, TypeFacts DEF IInv, TypeOK, Memories
<1>1. from \in Refs(mem.at, f)
  BY <1>0 DEF Refs
<1>2. CASE f \in Frames
  <2> DEFINE m == [mem EXCEPT !.writable = IF v \in Shared THEN @ ELSE @ \ {from}]
             write == v \in Shared /\ from \in mem.writable
             W == IF v \in Shared THEN mem.writable ELSE mem.writable \ {from}
  <2>1. W \subseteq mem.writable /\ m = [mem EXCEPT !.writable = W]
    OBVIOUS
  <2> HIDE DEF W, m
  <2>2. /\ Books(m, None, Taken, undirtied) /\ Private(m) /\ m.writable = W
        /\ m.at = mem.at /\ m.free = mem.free /\ m.used = mem.used /\ m.stale = mem.stale
    BY ONLY <1>0, <2>1, WithdrawSafe
  <2>3. v \notin Shared => from \notin m.writable
    BY <2>2 DEF W
  <2>4. Private(m) /\ Books(m, None, Taken, undirtied)
    BY <2>2
  <2>5. r = page_insert(m, to, f, write) /\ write \in BOOLEAN
    BY <1>2 DEF Copied, m
  <2> HIDE DEF write
  <2>6. f \notin m.free /\ f \notin Taken /\ m.at[to] = None /\ f # None
    BY <1>0, <1>1, <1>2, <2>2 DEF Books, Counts
  <2>7. OwnPage(m, to, f, write)
    <3>1. ASSUME NEW q \in m.writable, q[2] \notin Shared, m.at[q] = f PROVE FALSE
      <4>1. Refs(m.at, f) = {q}
        BY <2>4, <3>1 DEF Private
      <4>2. QED
        BY <1>1, <2>2, <2>3, <3>1, <4>1
    <3>2. QED
      BY <3>1 DEF OwnPage, write
  <2> HIDE DEF f, to
  <2>8. /\ Books(r, None, Taken \ {f}, undirtied \cup Forgotten(m, to, f)) /\ Private(r)
        /\ Inserted(m, r, to, f)
    BY <1>0, <1>2, <2>4, <2>5, <2>6, <2>7, InsertSafe
  <2>9. Taken \ {f} = Taken /\ undirtied \cup Forgotten(m, to, f) = undirtied
    BY <2>6 DEF Forgotten
  <2>10. r.stale \subseteq r.used
    BY <1>0, <2>2, <2>6, <2>8 DEF Inserted
  <2>11. \A q \in Places \ {to} : r.at[q] = mem.at[q]
    BY <1>0, <2>2, <2>8 DEF Inserted, Moved
  <2>12. QED
    BY <2>8, <2>9, <2>10, <2>11 DEF to
<1>3. CASE f \in Entries
  <2>1. r = CopyEntry(mem, to, f)
    BY <1>3, MemoryAssumption DEF Copied, CopyEntry
  <2>2. Refs(mem.at, f) # {} /\ mem.at[to] = None
    BY <1>1
  <2> HIDE DEF f, to
  <2>3. /\ Books(r, None, Taken, undirtied) /\ Private(r) /\ Moved(mem.at, r.at, to, f)
        /\ r.used = mem.used /\ r.stale = mem.stale
    <3>1. Books(mem, None, Taken, undirtied) /\ Private(mem) /\ to \in Places
      BY <1>0 DEF to
    <3>2. f \in Entries
      BY <1>3
    <3>3. QED
      BY ONLY <2>1, <2>2, <3>1, <3>2, CopyEntrySafe
  <2>4. \A q \in Places \ {to} : r.at[q] = mem.at[q]
    BY <1>0, <2>3 DEF Moved
  <2>5. QED
    BY <1>0, <2>3, <2>4 DEF to
<1>4. CASE f \notin Frames \cup Entries
  BY <1>0, <1>4 DEF Copied
<1>5. QED
  BY <1>2, <1>3, <1>4

LEMMA CopyPageKeeps ==
    ASSUME IInv, NEW s \in Spaces, kswapd \in {"asleep", "woken"}, NEW v \in Pages,
           CopyPage(s, v)
    PROVE  IInv'
<1> DEFINE t == fork[s].to
<1>1. /\ pc[s] = "fork" /\ v \in fork[s].left
      /\ fork' = [fork EXCEPT ![s].left = @ \ {v}]
      /\ UNCHANGED <<pc, fault, newpage, shm_lock, panic, undirtied>> /\ UNCHANGED swap_vars
  BY DEF CopyPage
<1>2. t \in Spaces \ {s} /\ pc[t] = "none" /\ \A r \in Spaces \ {s} : fork[r].to # t
  BY <1>1 DEF IInv, TypeOK, Processes, Forks
<1>3. mem.at[<<t, v>>] = None
  BY <1>1, <1>2 DEF IInv, Processes, Copies
<1>4. /\ Books(mem', None, Taken, undirtied) /\ Private(mem') /\ mem'.stale \subseteq mem'.used
      /\ \A q \in Places \ {<<t, v>>} : mem'.at[q] = mem.at[q]
  <2>1. mem' = Copied(s, t, v)
    BY DEF CopyPage, Copied
  <2> HIDE DEF t
  <2>2. QED
    BY <1>2, <1>3, <2>1, CopySafe
<1> HIDE DEF t
<1>5. /\ \A r \in Spaces \ {s} : fork'[r] = fork[r]
      /\ fork'[s].to = t /\ fork'[s].left = fork[s].left \ {v}
      /\ \A r \in Spaces : fork'[r].to = fork[r].to
  BY <1>1 DEF IInv, TypeOK, t
<1>6. Memories'
  BY <1>1, <1>4 DEF Memories, Taken
<1>7. Daemon'
  BY <1>1 DEF IInv, Daemon, WaitersServed, swap_vars
<1>8. TypeOK'
  BY <1>1, <1>4 DEF IInv, TypeOK, Books, swap_vars
<1>9. NewPages' /\ Forks'
  BY <1>1, <1>5 DEF IInv, Processes, NewPages, Forks
<1>10. Faults'
  <2>1. ASSUME NEW q \in Spaces, pc[q] = "in" PROVE mem'.at[Place(q)] = mem.at[Place(q)]
    <3>1. Place(q) \in Places \ {<<t, v>>}
      BY <1>2, <2>1, PlaceFacts DEF IInv, Processes, Faults, Place
    <3>2. QED
      BY <1>4, <3>1
  <2>2. QED
    BY <1>1, <2>1 DEF IInv, Processes, Faults, Place
<1>11. Copies'
  <2>1. ASSUME NEW q \in Spaces, NEW w \in Pages, pc[q] = "none", mem'.at[<<q, w>>] # None
        PROVE  \E r \in Spaces : fork'[r].to = q /\ w \notin fork'[r].left
    <3>1. CASE q = t /\ w = v
      BY <1>5, <3>1
    <3>2. CASE ~(q = t /\ w = v)
      <4>1. mem.at[<<q, w>>] # None
        BY <1>4, <2>1, <3>2, PlaceFacts
      <4>2. PICK r \in Spaces : fork[r].to = q /\ w \notin fork[r].left
        BY <2>1, <4>1 DEF IInv, Processes, Copies
      <4>3. fork'[r].left \subseteq fork[r].left
        BY <1>5
      <4>4. QED
        BY <1>5, <4>2, <4>3
    <3>3. QED
      BY <3>1, <3>2
  <2>2. QED
    BY <1>1, <2>1 DEF Copies
<1>12. QED
  BY <1>6, <1>7, <1>8, <1>9, <1>10, <1>11 DEF IInv, Processes

LEMMA BrkKeeps ==
    ASSUME IInv, NEW s \in Spaces, kswapd \in {"asleep", "woken"}, NEW v \in Pages, Brk(s, v)
    PROVE  IInv'
<1> DEFINE pl == <<s, v>>
           r == page_remove_pte(mem, pl)
<1>1. /\ pc[s] = "user" /\ UNCHANGED proc_vars /\ UNCHANGED swap_vars /\ panic' = panic
      /\ mem' = [r EXCEPT !.stale = @ \cap r.used] /\ undirtied' = r.used \cap undirtied
  BY DEF Brk, Update
<1>2. Books(r, None, Taken, undirtied) /\ Private(r) /\ Moved(mem.at, r.at, pl, None)
  <2>1. Books(r, None, Taken, undirtied) /\ Private(r) /\ Removed(mem, r, pl)
    BY PlaceFacts, RemoveSafe DEF IInv, Memories
  <2>2. QED
    BY <2>1 DEF Removed
<1> HIDE DEF r, pl
<1>3. /\ Books(mem', None, Taken, undirtied') /\ Private(mem')
      /\ mem'.stale \subseteq mem'.used /\ mem'.at = r.at
  BY <1>1, <1>2, TrimSafe
<1>4. pc' = pc /\ fault' = fault /\ newpage' = newpage /\ fork' = fork /\ shm_lock' = shm_lock
  BY <1>1 DEF proc_vars
<1>5. \A t \in Spaces \ {s}, w \in Pages : mem'.at[<<t, w>>] = mem.at[<<t, w>>]
  <2>1. mem.at \in [Places -> Held]
    BY TypeFacts DEF IInv, TypeOK
  <2>2. QED
    BY <1>2, <1>3, <2>1, PlaceFacts DEF Moved, pl
<1>6. Memories'
  BY <1>3, <1>4 DEF Memories, Taken
<1>7. NewPages' /\ Forks'
  BY <1>4 DEF IInv, Processes, NewPages, Forks
<1>8. Faults' /\ Copies'
  BY <1>1, <1>4, <1>5 DEF IInv, Processes, Faults, Copies, Place
<1>9. Daemon'
  BY <1>1 DEF IInv, Daemon, WaitersServed, swap_vars
<1>10. TypeOK'
  <2>1. mem' \in MemoryType /\ undirtied' \subseteq Entries
    BY <1>1, <1>3 DEF Books, IInv, TypeOK
  <2>2. QED
    BY <1>1, <1>4, <2>1 DEF IInv, TypeOK, swap_vars
<1>11. QED
  BY <1>6, <1>7, <1>8, <1>9, <1>10 DEF IInv, Processes

LEMMA ExitKeeps ==
    ASSUME IInv, NEW s \in Spaces, kswapd \in {"asleep", "woken"}, Exit(s)
    PROVE  IInv'
<1>1. pc[s] = "user" /\ Leave(s, mem)
  BY DEF Exit
<1>2. newpage[s] = None
  BY <1>1 DEF IInv, Processes, NewPages
<1>3. Taken = OthersPages(s)
  BY <1>2, OthersFacts DEF IInv
<1>4. Books(mem, None, OthersPages(s), undirtied) /\ Private(mem)
  BY <1>3 DEF IInv, Memories
<1>5. QED
  BY <1>1, <1>4, LeaveKeeps DEF IInv

-----------------------------------------------------------------------------
(* kswapd.                                                                 *)

SwapTypeOK ==
    /\ waiting \subseteq Spaces /\ pressure \in Int
    /\ kswapd \in {"asleep", "woken", "out", "launder", "refill"} /\ scan \subseteq Frames

LEMMA SwapTypes == TypeOK => SwapTypeOK
  BY DEF TypeOK, SwapTypeOK

\* A step of kswapd that leaves the page tables alone.
LEMMA DaemonEnds ==
    ASSUME IInv, UNCHANGED proc_vars, panic' = panic, mem'.at = mem.at,
           Books(mem', None, Taken, undirtied'), Private(mem'),
           mem'.stale \subseteq mem'.used, undirtied' \subseteq Entries,
           SwapTypeOK', Daemon'
    PROVE  IInv'
<1>1. Processes' /\ Taken' = Taken
  BY SameTables DEF IInv
<1>2. Memories'
  BY <1>1 DEF Memories
<1>3. mem' \in MemoryType
  BY DEF Books
<1>4. TypeOK'
  BY <1>3 DEF IInv, TypeOK, SwapTypeOK, proc_vars
<1>5. QED
  BY <1>1, <1>2, <1>4 DEF IInv

LEMMA RoundKeeps ==
    ASSUME IInv, KswapdTimer \/ KswapdRuns \/ OutEnds
    PROVE  IInv'
<1>1. UNCHANGED proc_vars /\ mem' = mem /\ panic' = panic /\ undirtied' = undirtied
  BY DEF KswapdTimer, KswapdRuns, OutEnds, StartRound
<1>2. /\ Books(mem, None, Taken, undirtied) /\ Private(mem) /\ mem.stale \subseteq mem.used
      /\ undirtied \subseteq Entries /\ mem.inactive \subseteq Frames
  BY TypeFacts DEF IInv, Memories, TypeOK
<1>3. SwapTypeOK' /\ Daemon'
  BY <1>1, <1>2 DEF KswapdTimer, KswapdRuns, OutEnds, StartRound, SwapTypeOK, Daemon,
                    WaitersServed, IInv, TypeOK
<1>4. QED
  BY <1>1, <1>2, <1>3, DaemonEnds

LEMMA ClearAccessedKeeps ==
    ASSUME IInv, NEW pl, ClearAccessed(pl)
    PROVE  IInv'
<1>1. /\ UNCHANGED proc_vars /\ UNCHANGED swap_vars /\ panic' = panic
      /\ undirtied' = undirtied /\ mem' = [mem EXCEPT !.accessed = @ \ {pl}]
      /\ mem \in MemoryType
  BY DEF ClearAccessed, IInv, TypeOK
<1>2. /\ mem' \in MemoryType
      /\ mem'.at = mem.at /\ mem'.writable = mem.writable /\ mem'.dirty = mem.dirty
      /\ mem'.ref = mem.ref
      /\ mem'.index = mem.index /\ mem'.pg_dirty = mem.pg_dirty /\ mem'.active = mem.active
      /\ mem'.inactive = mem.inactive /\ mem'.used = mem.used /\ mem'.mem_map = mem.mem_map
      /\ mem'.free = mem.free /\ mem'.stale = mem.stale
  BY <1>1 DEF MemoryType
<1>3. \A e : Cached(mem', e) = Cached(mem, e)
  BY <1>2 DEF Cached
<1>4. Counts(mem', None, Taken) /\ Caches(mem')
  BY <1>2, <1>3 DEF IInv, Memories, Books, Counts, Caches
<1>5. Known(mem', undirtied)
  BY <1>2, <1>3 DEF IInv, Memories, Books, Known
<1>6. Books(mem', None, Taken, undirtied') /\ Private(mem') /\ mem'.stale \subseteq mem'.used
  BY <1>1, <1>2, <1>4, <1>5 DEF IInv, Memories, Books, Private
<1>7. SwapTypeOK' /\ Daemon' /\ undirtied' \subseteq Entries
  BY <1>1, <1>2 DEF IInv, TypeOK, SwapTypeOK, Daemon, WaitersServed, swap_vars
<1>8. QED
  BY <1>1, <1>2, <1>6, <1>7, DaemonEnds

\* Frames change between the active and the inactive list.
Shuffle(m, A, I) == [m EXCEPT !.active = A, !.inactive = I]

LEMMA ListsSafe ==
    ASSUME NEW m, NEW T, NEW U, Books(m, None, T, U), Private(m), NEW A, NEW I,
           A \cup I = m.active \cup m.inactive, A \cap I = {},
           NEW r, r = Shuffle(m, A, I)
    PROVE  /\ Books(r, None, T, U) /\ Private(r) /\ r.inactive = I
           /\ r.at = m.at /\ r.used = m.used /\ r.stale = m.stale
<1>1. m \in MemoryType
  BY DEF Books
<1>2. /\ A \in SUBSET Frames /\ I \in SUBSET Frames
  BY <1>1, TypeFacts
<1>3. /\ r \in MemoryType /\ r.active = A /\ r.inactive = I
      /\ r.at = m.at /\ r.dirty = m.dirty /\ r.ref = m.ref /\ r.writable = m.writable
      /\ r.index = m.index /\ r.pg_dirty = m.pg_dirty
      /\ r.used = m.used /\ r.mem_map = m.mem_map
      /\ r.free = m.free /\ r.stale = m.stale
  BY <1>1, <1>2 DEF MemoryType, Shuffle
<1>4. \A e : Cached(r, e) = Cached(m, e)
  BY <1>3 DEF Cached
<1>5. Counts(r, None, T)
  BY <1>3, <1>4 DEF Books, Counts
<1>6. Caches(r)
  BY <1>3 DEF Books, Caches
<1>7. Known(r, U)
  BY <1>3, <1>4 DEF Books, Known
<1>8. QED
  BY <1>3, <1>5, <1>6, <1>7 DEF Books, Private

LEMMA RefillKeeps ==
    ASSUME IInv, Refill
    PROVE  IInv'
<1> DEFINE idle == {f \in mem.active : mem.ref[f] = 0}
           A == mem.active \ idle
           I == mem.inactive \cup idle
<1>1. /\ UNCHANGED proc_vars /\ panic' = panic /\ undirtied' = undirtied
      /\ kswapd = "launder" /\ scan = {} /\ scan' = scan
      /\ mem' = Shuffle(mem, A, I)
      /\ \/ kswapd' = "out" /\ pressure' = pressure /\ waiting' = waiting
         \/ kswapd' = "asleep" /\ pressure' = 0 /\ waiting' = {}
  BY DEF Refill, Shuffle
<1>2. /\ A \cup I = mem.active \cup mem.inactive /\ A \cap I = {}
      /\ Books(mem, None, Taken, undirtied) /\ Private(mem) /\ mem.stale \subseteq mem.used
  BY DEF IInv, Memories, Books, Caches
<1> HIDE DEF A, I
<1>3. /\ Books(mem', None, Taken, undirtied) /\ Private(mem')
      /\ mem'.at = mem.at /\ mem'.used = mem.used /\ mem'.stale = mem.stale
  BY <1>1, <1>2, ListsSafe
<1>4. SwapTypeOK' /\ undirtied' \subseteq Entries
  <2>1. SwapTypeOK /\ undirtied \subseteq Entries
    BY SwapTypes DEF IInv, TypeOK
  <2>2. QED
    BY <1>1, <2>1 DEF SwapTypeOK
<1>5. Daemon'
  <2>1. kswapd' = "asleep" => waiting' = {} /\ pressure' = 0
    BY <1>1
  <2>2. kswapd' # "woken" /\ scan' = {}
    BY <1>1
  <2>3. QED
    BY <2>1, <2>2 DEF Daemon, WaitersServed
<1>6. QED
  BY <1>1, <1>2, <1>3, <1>4, <1>5, DaemonEnds

\* A page was written to the disk.
Clean(m, f, e) == [m EXCEPT !.pg_dirty = @ \ {f}, !.stale = @ \ {e}]

LEMMA CleanSafe ==
    ASSUME NEW m, NEW T, NEW U, Books(m, None, T, U), Private(m), NEW f \in Frames,
           NEW e, m.index[f] = e, NEW r, r = Clean(m, f, e)
    PROVE  /\ Books(r, None, T, U) /\ Private(r) /\ r.stale = m.stale \ {e}
           /\ r.at = m.at /\ r.used = m.used /\ r.inactive = m.inactive
           /\ r.ref = m.ref /\ r.index = m.index /\ r.mem_map = m.mem_map
<1>1. m \in MemoryType
  BY DEF Books
<1>2. /\ r \in MemoryType /\ r.pg_dirty = m.pg_dirty \ {f} /\ r.stale = m.stale \ {e}
      /\ r.at = m.at /\ r.dirty = m.dirty /\ r.ref = m.ref /\ r.writable = m.writable
      /\ r.index = m.index /\ r.active = m.active /\ r.inactive = m.inactive
      /\ r.used = m.used /\ r.mem_map = m.mem_map /\ r.free = m.free
  BY <1>1 DEF MemoryType, Clean
<1>3. \A x : Cached(r, x) = Cached(m, x)
  BY <1>2 DEF Cached
<1>4. Counts(r, None, T) /\ Caches(r)
  BY <1>2, <1>3 DEF Books, Counts, Caches
<1>5. Known(r, U)
  <2>1. ASSUME NEW x \in (r.stale \cap r.used) \ U
        PROVE  \E h \in Cached(r, x) : h \in r.pg_dirty \/ Refs(r.at, h) \cap r.dirty # {}
    <3>1. x # e /\ x \in (m.stale \cap m.used) \ U
      BY <1>2
    <3>2. PICK h \in Cached(m, x) : h \in m.pg_dirty \/ Refs(m.at, h) \cap m.dirty # {}
      BY <3>1 DEF Books, Known
    <3>3. h # f
      BY <3>1 DEF Cached
    <3>4. QED
      BY <1>2, <1>3, <3>2, <3>3
  <2>2. QED
    BY <1>2, <2>1 DEF Books, Known
<1>6. QED
  BY <1>2, <1>4, <1>5 DEF Books, Private

\* page_launder() gives a frame without use back.
LEMMA AwaySafe ==
    ASSUME IInv, NEW f \in Frames, mem.index[f] # None, mem.ref[f] = 0,
           NEW m, NEW D,
           m = (IF mem.mem_map[mem.index[f]] # 0 /\ f \in mem.pg_dirty
                THEN Clean(mem, f, mem.index[f]) ELSE mem),
           D = (IF mem.mem_map[mem.index[f]] # 0 THEN m.used ELSE m.used \ {mem.index[f]}),
           NEW r, r = Away(m, D, f)
    PROVE  /\ Books(r, None, Taken, undirtied) /\ Private(r)
           /\ r.at = mem.at /\ r.inactive = mem.inactive \ {f}
<1> DEFINE e == mem.index[f]
<1>1. Books(mem, None, Taken, undirtied) /\ Private(mem) /\ mem.stale \subseteq mem.used
  BY DEF IInv, Memories
<1>2. /\ Books(m, None, Taken, undirtied) /\ Private(m)
      /\ m.at = mem.at /\ m.used = mem.used /\ m.inactive = mem.inactive
      /\ m.ref = mem.ref /\ m.index = mem.index /\ m.mem_map = mem.mem_map
  <2>1. CASE m = mem
    BY <1>1, <2>1
  <2>2. CASE m = Clean(mem, f, e)
    <3> HIDE DEF e
    <3>1. mem.index[f] = e
      BY DEF e
    <3>2. QED
      BY <1>1, <2>2, <3>1, CleanSafe
  <2>3. QED
    BY <2>1, <2>2
<1>3. mem.mem_map[e] # 0 => e \notin m.stale \ undirtied
  <2>1. CASE mem.mem_map[e] # 0 /\ f \in mem.pg_dirty
    <3>1. m = Clean(mem, f, e)
      BY <2>1
    <3> HIDE DEF e
    <3>2. mem.index[f] = e
      BY DEF e
    <3>3. m.stale = mem.stale \ {e}
      BY <1>1, <3>1, <3>2, CleanSafe
    <3>4. QED
      BY <3>3
  <2>2. CASE f \notin mem.pg_dirty
    <3>1. m = mem
      BY <2>2
    <3>2. Refs(mem.at, f) = {}
      BY <1>1, CountFacts, MemoryAssumption DEF Books, Counts
    <3>3. \A h \in Cached(mem, e) : h = f
      BY <1>1 DEF Books, Caches, Cached
    <3>4. QED
      BY <1>1, <2>2, <3>1, <3>2, <3>3 DEF Books, Known
  <2>3. QED
    BY <2>1, <2>2
<1>4. \/ D = m.used /\ m.ref[f] = 0 /\ m.mem_map[m.index[f]] # 0
         /\ m.index[f] \notin m.stale \ undirtied
      \/ D = m.used \ {m.index[f]} /\ m.mem_map[m.index[f]] = 0
  BY <1>2, <1>3
<1>5. /\ Books(r, None, Taken, undirtied) /\ Private(r)
      /\ r.at = m.at /\ r.inactive = m.inactive \ {f}
  <2>1. f \in Frames /\ m.index[f] # None /\ r = Away(m, D, f)
    BY <1>2
  <2>2. Books(m, None, Taken, undirtied) /\ Private(m)
    BY <1>2
  <2>3. /\ Books(r, None, Taken, undirtied) /\ Private(r)
        /\ r.at = m.at /\ r.inactive = m.inactive \ {f} /\ r.used = D /\ r.stale = m.stale
        /\ r.active = m.active \ {f} /\ r.index = [m.index EXCEPT ![f] = None]
        /\ r.writable = m.writable /\ r.dirty = m.dirty /\ r.ref = m.ref
        /\ r.mem_map = m.mem_map
    BY ONLY <1>4, <2>1, <2>2, LeaveSafe
  <2>4. QED
    BY <2>3
<1>6. QED
  BY <1>2, <1>5

LEMMA LaunderKeeps ==
    ASSUME IInv, NEW f \in Frames, NEW written \in BOOLEAN, Launder(f, written)
    PROVE  IInv'
<1> DEFINE e == mem.index[f]
           wanted == mem.mem_map[e] # 0
           m == IF wanted /\ f \in mem.pg_dirty THEN Clean(mem, f, e) ELSE mem
           D == IF wanted THEN m.used ELSE m.used \ {e}
           r == Away(m, D, f)
<1>1. /\ UNCHANGED proc_vars /\ panic' = panic
      /\ kswapd = "launder" /\ f \in scan /\ scan' = scan \ {f}
      /\ kswapd' = kswapd /\ waiting' = waiting
  BY DEF Launder
<1>2. /\ Books(mem, None, Taken, undirtied) /\ Private(mem) /\ mem.stale \subseteq mem.used
      /\ f \in mem.inactive /\ scan \subseteq mem.inactive /\ mem.index[f] # None
      /\ undirtied \subseteq Entries
  BY <1>1 DEF IInv, TypeOK, Memories, Daemon, Books, Caches
<1>0. pressure' \in {pressure, pressure - 1}
  BY DEF Launder
<1>3. \/ /\ mem' = [mem EXCEPT !.inactive = @ \ {f}, !.active = @ \cup {f}]
         /\ undirtied' = undirtied
      \/ mem.ref[f] = 0 /\ Update(r)
      \/ mem' = mem /\ undirtied' = undirtied
  BY DEF Launder, Clean, Away
<1>4. ASSUME scan \ {f} \subseteq mem'.inactive
      PROVE  SwapTypeOK' /\ Daemon'
  <2>1. SwapTypeOK'
    <3>1. SwapTypeOK
      BY SwapTypes DEF IInv
    <3>2. QED
      BY <1>0, <1>1, <3>1 DEF SwapTypeOK
  <2>2. Daemon'
    BY <1>1, <1>4 DEF Daemon, WaitersServed
  <2>3. QED
    BY <2>1, <2>2
<1>5. CASE /\ mem' = [mem EXCEPT !.inactive = @ \ {f}, !.active = @ \cup {f}]
           /\ undirtied' = undirtied
  <2> DEFINE A == mem.active \cup {f}
             I == mem.inactive \ {f}
  <2>1. A \cup I = mem.active \cup mem.inactive /\ A \cap I = {}
    BY <1>2 DEF Books, Caches
  <2>2. mem' = Shuffle(mem, A, I)
    BY <1>2, <1>5 DEF Books, MemoryType, Shuffle
  <2>3. scan \ {f} \subseteq I
    BY <1>2
  <2> HIDE DEF A, I
  <2>4. /\ Books(mem', None, Taken, undirtied) /\ Private(mem') /\ mem'.inactive = I
        /\ mem'.at = mem.at /\ mem'.used = mem.used /\ mem'.stale = mem.stale
    BY <1>2, <2>1, <2>2, ListsSafe
  <2>5. QED
    BY <1>1, <1>2, <1>4, <1>5, <2>3, <2>4, DaemonEnds
<1>6. CASE mem.ref[f] = 0 /\ Update(r)
  <2>1. mem' = [r EXCEPT !.stale = @ \cap r.used] /\ undirtied' = r.used \cap undirtied
    BY <1>6 DEF Update
  <2>2. m = (IF mem.mem_map[mem.index[f]] # 0 /\ f \in mem.pg_dirty
             THEN Clean(mem, f, mem.index[f]) ELSE mem)
    OBVIOUS
  <2>3. D = (IF mem.mem_map[mem.index[f]] # 0 THEN m.used ELSE m.used \ {mem.index[f]})
    OBVIOUS
  <2>4. r = Away(m, D, f)
    OBVIOUS
  <2> HIDE DEF r, D, m, wanted, e
  <2>5. /\ Books(r, None, Taken, undirtied) /\ Private(r)
        /\ r.at = mem.at /\ r.inactive = mem.inactive \ {f}
    BY <1>2, <1>6, <2>2, <2>3, <2>4, AwaySafe
  <2>6. /\ Books(mem', None, Taken, undirtied') /\ Private(mem')
        /\ mem'.stale \subseteq mem'.used /\ mem'.at = r.at /\ mem'.inactive = r.inactive
    BY <2>1, <2>5, TrimSafe
  <2>7. scan \ {f} \subseteq mem'.inactive /\ undirtied' \subseteq Entries
    BY <1>2, <2>1, <2>5, <2>6
  <2>8. QED
    BY <1>1, <1>4, <2>5, <2>6, <2>7, DaemonEnds
<1>7. CASE mem' = mem /\ undirtied' = undirtied
  BY <1>1, <1>2, <1>4, <1>7, DaemonEnds
<1>8. QED
  BY <1>3, <1>5, <1>6, <1>7

\* swap_out_vma() takes a page away.
Marked(m, pl, f) == [m EXCEPT !.pg_dirty = IF pl \in m.dirty THEN @ \cup {f} ELSE @]

LEMMA MarkSafe ==
    ASSUME NEW m, NEW T, NEW U, Books(m, None, T, U), Private(m), NEW pl,
           NEW f \in Frames, NEW r, r = Marked(m, pl, f)
    PROVE  /\ Books(r, None, T, U) /\ Private(r)
           /\ r.at = m.at /\ r.dirty = m.dirty /\ r.index = m.index
           /\ r.inactive = m.inactive /\ (pl \in r.dirty => f \in r.pg_dirty)
<1>1. m \in MemoryType
  BY DEF Books
<1> DEFINE D == IF pl \in m.dirty THEN m.pg_dirty \cup {f} ELSE m.pg_dirty
<1>2. r = [m EXCEPT !.pg_dirty = D] /\ D \in SUBSET Frames /\ m.pg_dirty \subseteq D
  BY <1>1 DEF Marked, MemoryType
<1>3. pl \in m.dirty => f \in D
  OBVIOUS
<1> HIDE DEF D
<1>4. /\ r \in MemoryType /\ r.pg_dirty = D
      /\ r.at = m.at /\ r.dirty = m.dirty /\ r.ref = m.ref /\ r.writable = m.writable
      /\ r.index = m.index /\ r.active = m.active /\ r.inactive = m.inactive
      /\ r.used = m.used /\ r.mem_map = m.mem_map /\ r.free = m.free /\ r.stale = m.stale
  BY <1>1, <1>2 DEF MemoryType
<1>5. \A x : Cached(r, x) = Cached(m, x)
  BY <1>4 DEF Cached
<1>6. Counts(r, None, T) /\ Caches(r)
  BY <1>4, <1>5 DEF Books, Counts, Caches
<1>7. Known(r, U)
  BY <1>2, <1>4, <1>5 DEF Books, Known
<1>8. QED
  BY <1>3, <1>4, <1>6, <1>7 DEF Books, Private

Gone(out, pl, f, e) ==
    IF pl[2] \in Shared /\ out.ref[f] = 1 /\ out.at[<<Shm, pl[2]>>] = f
    THEN Replace(out, <<Shm, pl[2]>>, f, e) ELSE out

LEMMA GoneSafe ==
    ASSUME IInv, NEW pl \in Spaces \X Pages, mem.at[pl] \in Frames,
           NEW m \in WithEntry(mem.at[pl]), NEW marked, marked = Marked(m, pl, mem.at[pl]),
           NEW e, e = m.index[mem.at[pl]],
           NEW out, out = Replace(marked, pl, mem.at[pl], e),
           NEW r, r = Gone(out, pl, mem.at[pl], e)
    PROVE  /\ Books(r, None, Taken, undirtied) /\ Private(r)
           /\ \A q \in Places \ {pl, <<Shm, pl[2]>>} : r.at[q] = mem.at[q]
<1> DEFINE f == mem.at[pl]
           shared == <<Shm, pl[2]>>
<1>0. f \in Frames /\ mem.at[pl] = f /\ m \in WithEntry(f) /\ marked = Marked(m, pl, f)
      /\ out = Replace(marked, pl, f, e) /\ r = Gone(out, pl, f, e) /\ e = m.index[f]
  OBVIOUS
<1>1. /\ pl \in Places /\ shared \in Places /\ shared \notin Spaces \X Pages
      /\ Books(mem, None, Taken, undirtied) /\ Private(mem)
      /\ mem.at \in [Places -> Held]
  BY MemoryAssumption, TypeFacts DEF Places, IInv, TypeOK, Memories
<1> HIDE DEF f, shared
<1>2. Refs(mem.at, f) # {}
  BY <1>0, <1>1 DEF Refs
<1>3. /\ Books(m, None, Taken, undirtied) /\ Private(m)
      /\ m.at = mem.at /\ m.dirty = mem.dirty /\ e \in Entries
  BY <1>0, <1>1, <1>2, EntrySafe
<1>4. /\ Books(marked, None, Taken, undirtied) /\ Private(marked)
      /\ marked.at = mem.at /\ marked.dirty = mem.dirty /\ marked.index[f] = e
      /\ pl \in marked.dirty => f \in marked.pg_dirty
  <2>1. /\ Books(marked, None, Taken, undirtied) /\ Private(marked)
        /\ marked.at = m.at /\ marked.dirty = m.dirty /\ marked.index = m.index
        /\ marked.inactive = m.inactive /\ (pl \in marked.dirty => f \in marked.pg_dirty)
    BY <1>0, <1>3, MarkSafe
  <2>2. QED
    BY <1>0, <1>3, <2>1
<1>5. /\ Books(out, None, Taken, undirtied) /\ Private(out) /\ Moved(marked.at, out.at, pl, e)
      /\ out.inactive = marked.inactive /\ out.used = marked.used /\ out.index = marked.index
      /\ out.dirty = marked.dirty \ {pl} /\ out.writable = marked.writable \ {pl}
  BY <1>0, <1>1, <1>3, <1>4, ReplaceSafe
<1>6. \A q \in Places \ {pl} : out.at[q] = mem.at[q]
  BY <1>1, <1>4, <1>5, ZenonT(40) DEF Moved
<1>7. CASE r = out
  BY <1>5, <1>6, <1>7 DEF shared
<1>8. CASE out.at[shared] = f /\ r = Replace(out, shared, f, e)
  <2>1. shared \notin out.dirty
    BY <1>1, <1>5 DEF Books, Known
  <2>2. out.index[f] = e /\ (shared \in out.dirty => f \in out.pg_dirty)
    BY <1>4, <1>5, <2>1
  <2>3. /\ Books(r, None, Taken, undirtied) /\ Private(r) /\ Moved(out.at, r.at, shared, e)
        /\ r.inactive = out.inactive /\ r.used = out.used /\ r.index = out.index
        /\ r.dirty = out.dirty \ {shared} /\ r.writable = out.writable \ {shared}
    <3>1. /\ Books(out, None, Taken, undirtied) /\ Private(out) /\ shared \in Places
          /\ f \in Frames /\ out.at[shared] = f /\ e \in Entries /\ out.index[f] = e
          /\ shared \in out.dirty => f \in out.pg_dirty
          /\ r = Replace(out, shared, f, e)
      BY <1>0, <1>1, <1>3, <1>5, <1>8, <2>2
    <3>2. QED
      BY ONLY <3>1, ReplaceSafe
  <2>4. out.at \in [Places -> Held]
    BY <1>5, TypeFacts DEF Books
  <2>5. \A q \in Places \ {pl, shared} : r.at[q] = out.at[q]
    BY <2>3, <2>4 DEF Moved
  <2>6. \A q \in Places \ {pl, shared} : r.at[q] = mem.at[q]
    BY <1>6, <2>5
  <2>7. QED
    BY <2>3, <2>6 DEF shared
<1>9. r = out \/ (out.at[shared] = f /\ r = Replace(out, shared, f, e))
  BY <1>0 DEF Gone, shared
<1>10. QED
  BY <1>7, <1>8, <1>9

LEMMA SwapOutKeeps ==
    ASSUME IInv, NEW pl \in Spaces \X Pages, SwapOut(pl)
    PROVE  IInv'
<1> DEFINE f == mem.at[pl]
<1>1. /\ kswapd = "out" /\ pl[1] \in Alive /\ f \in Frames
      /\ UNCHANGED proc_vars /\ UNCHANGED swap_vars /\ panic' = panic
  BY DEF SwapOut
<1>2. PICK m \in WithEntry(f) :
        Update(Gone(Replace(Marked(m, pl, f), pl, f, m.index[f]), pl, f, m.index[f]))
  BY DEF SwapOut, Marked, Gone
<1> DEFINE r == Gone(Replace(Marked(m, pl, f), pl, f, m.index[f]), pl, f, m.index[f])
<1>3. mem' = [r EXCEPT !.stale = @ \cap r.used] /\ undirtied' = r.used \cap undirtied
  BY <1>2 DEF Update
<1>4. /\ Books(r, None, Taken, undirtied) /\ Private(r)
      /\ \A q \in Places \ {pl, <<Shm, pl[2]>>} : r.at[q] = mem.at[q]
  BY <1>1, GoneSafe
<1> HIDE DEF r
<1>5. /\ Books(mem', None, Taken, undirtied') /\ Private(mem')
      /\ mem'.stale \subseteq mem'.used /\ mem'.at = r.at
  BY <1>3, <1>4, TrimSafe
<1>6. pc' = pc /\ fault' = fault /\ newpage' = newpage /\ fork' = fork /\ shm_lock' = shm_lock
  BY <1>1 DEF proc_vars
<1>7. pc[pl[1]] # "none" /\ f \notin Entries
  BY <1>1, MemoryAssumption DEF Alive
<1>8. Memories'
  BY <1>5, <1>6 DEF Memories, Taken
<1>9. NewPages' /\ Forks'
  BY <1>6 DEF IInv, Processes, NewPages, Forks
<1>10. ASSUME NEW q \in Spaces, NEW v \in Pages, <<q, v>> # pl
       PROVE  mem'.at[<<q, v>>] = mem.at[<<q, v>>]
  BY <1>4, <1>5, <1>10, PlaceFacts
<1>11. Faults'
  <2>1. ASSUME NEW q \in Spaces, pc[q] = "in" PROVE mem'.at[Place(q)] = mem.at[Place(q)]
    <3>1. fault[q].page \in Pages /\ Place(q) # pl
      BY <1>7, <2>1 DEF IInv, Processes, Faults
    <3>2. QED
      BY <1>10, <3>1 DEF Place
  <2>2. QED
    BY <1>6, <2>1 DEF IInv, Processes, Faults, Place
<1>12. Copies'
  <2>1. ASSUME NEW q \in Spaces, NEW v \in Pages, pc[q] = "none"
        PROVE  mem'.at[<<q, v>>] = mem.at[<<q, v>>]
    <3>1. <<q, v>> # pl
      BY <1>7, <2>1
    <3>2. QED
      BY <1>10, <3>1
  <2>2. QED
    BY <1>6, <2>1 DEF IInv, Processes, Copies
<1>13. Daemon'
  BY <1>1 DEF IInv, Daemon, WaitersServed, swap_vars
<1>14. TypeOK'
  <2>1. mem' \in MemoryType /\ undirtied' \subseteq Entries
    BY <1>3, <1>5 DEF Books, IInv, TypeOK
  <2>2. QED
    BY <1>1, <1>6, <2>1 DEF IInv, TypeOK, swap_vars
<1>15. QED
  BY <1>8, <1>9, <1>11, <1>12, <1>13, <1>14 DEF IInv, Processes

-----------------------------------------------------------------------------
(* Every step keeps the invariant.                                         *)

LEMMA RunningKeeps ==
    ASSUME IInv, NEW s \in Spaces, kswapd \in {"asleep", "woken"}, Running(s)
    PROVE  IInv'
<1>1. CASE \E v \in Pages, write \in BOOLEAN : Access(s, v, write) \/ Fault(s, v, write)
  BY <1>1, AccessKeeps, FaultKeeps
<1>2. CASE \E f \in Frames : ZeroFill(s, f) \/ ShareFault(s, f) \/ PrivateFault(s, f)
  BY <1>2, ZeroFillKeeps, ShareFaultKeeps, PrivateFaultKeeps
<1>3. CASE SwappedShareFault(s) \/ ShareFaultSwapped(s) \/ SwapIn(s) \/ NoFrame(s)
  BY <1>3, SwappedShareFaultKeeps, ShareFaultSwappedKeeps, SwapInKeeps, NoFrameKeeps
<1>4. CASE \E to \in Spaces : ForkBegin(s, to)
  BY <1>4, ForkBeginKeeps
<1>5. CASE \E v \in Pages : CopyPage(s, v) \/ Brk(s, v)
  BY <1>5, CopyPageKeeps, BrkKeeps
<1>6. CASE ForkEnd(s) \/ Exit(s)
  BY <1>6, ForkEndKeeps, ExitKeeps
<1>7. QED
  BY <1>1, <1>2, <1>3, <1>4, <1>5, <1>6 DEF Running

LEMMA KswapdKeeps ==
    ASSUME IInv, Kswapd
    PROVE  IInv'
<1>1. CASE KswapdTimer \/ KswapdRuns \/ OutEnds
  BY <1>1, RoundKeeps
<1>2. CASE Refill
  BY <1>2, RefillKeeps
<1>3. CASE \E pl \in Spaces \X Pages : ClearAccessed(pl) \/ SwapOut(pl)
  BY <1>3, ClearAccessedKeeps, SwapOutKeeps
<1>4. CASE \E f \in Frames, written \in BOOLEAN : Launder(f, written)
  BY <1>4, LaunderKeeps
<1>5. QED
  BY <1>1, <1>2, <1>3, <1>4 DEF Kswapd

LEMMA StutterKeeps == IInv /\ UNCHANGED vars => IInv'
<1> SUFFICES ASSUME IInv, UNCHANGED vars PROVE IInv'
  OBVIOUS
<1>1. /\ UNCHANGED proc_vars /\ UNCHANGED swap_vars
      /\ mem' = mem /\ panic' = panic /\ undirtied' = undirtied
  BY DEF vars
<1>2. /\ Books(mem, None, Taken, undirtied) /\ Private(mem) /\ mem.stale \subseteq mem.used
      /\ undirtied \subseteq Entries
  BY DEF IInv, Memories, TypeOK
<1>3. Daemon'
  BY <1>1 DEF IInv, Daemon, WaitersServed, swap_vars
<1>4. SwapTypeOK'
  <2>1. SwapTypeOK
    BY SwapTypes DEF IInv
  <2>2. QED
    BY <1>1, <2>1 DEF SwapTypeOK, swap_vars
<1>5. QED
  BY <1>1, <1>2, <1>3, <1>4, DaemonEnds

LEMMA NextKeeps == IInv /\ [Next]_vars => IInv'
<1>1. ASSUME IInv, NEW s \in Spaces, Runs(s), Running(s) PROVE IInv'
  BY <1>1, RunningKeeps DEF Runs
<1>2. QED
  BY <1>1, KswapdKeeps, StutterKeeps DEF Next

LEMMA Invariance == Spec => []IInv
<1>1. QED
  BY InitHolds, NextKeeps, PTL DEF Spec

-----------------------------------------------------------------------------
(* What the invariant says about the places and the cache.                 *)

LEMMA MappingsAreRefs == \A x : Mappings(x) = Refs(mem.at, x)
  BY DEF Mappings, Refs

LEMMA CountsFollow == IInv => CountsExact
<1> SUFFICES ASSUME IInv PROVE CountsExact
  OBVIOUS
<1>1. Books(mem, None, Taken, undirtied) /\ TypeOK
  BY DEF IInv, Memories
<1>2. None \notin Frames
  BY MemoryAssumption
<1>3. ASSUME NEW f \in Frames
      PROVE  /\ mem.ref[f] = Count(mem.at, f)
             /\ f \in mem.free <=> /\ Refs(mem.at, f) = {} /\ mem.index[f] = None
                                   /\ f \notin Taken
             /\ f \in Taken => Refs(mem.at, f) = {} /\ mem.index[f] = None
  <2>1. mem.ref[f] = Count(mem.at, f) + 0 /\ Count(mem.at, f) \in Nat
    BY <1>1, <1>2, CountFacts DEF Books, Counts
  <2>2. QED
    BY <1>1, <1>2, <2>1 DEF Books, Counts
<1>4. ASSUME NEW f \in Frames
      PROVE  LET taken == {s \in Spaces : newpage[s] = f}
                 used == Mappings(f) # {} \/ f \in Cache
             IN  /\ mem.ref[f] = Cardinality(Mappings(f))
                 /\ Cardinality(taken) <= 1
                 /\ f \in mem.free <=> ~used /\ taken = {}
                 /\ used => taken = {}
  <2> DEFINE taken == {s \in Spaces : newpage[s] = f}
             used == Mappings(f) # {} \/ f \in Cache
  <2>1. mem.ref[f] = Cardinality(Mappings(f))
    BY <1>3, MappingsAreRefs DEF Count
  <2>2. used <=> Refs(mem.at, f) # {} \/ mem.index[f] # None
    BY MappingsAreRefs DEF Cache
  <2>3. taken = {} <=> f \notin Taken
    BY <1>2 DEF Taken
  <2>4. Cardinality(taken) <= 1
    <3>1. CASE taken = {}
      <4>1. Cardinality(taken) = 0
        BY <3>1, FS_EmptySet
      <4>2. QED
        BY <4>1
    <3>2. CASE taken # {}
      <4>1. PICK s \in Spaces : newpage[s] = f
        BY <3>2
      <4>2. taken = {s}
        BY <1>2, <4>1 DEF IInv, Processes, NewPages
      <4>3. Cardinality(taken) = 1
        BY <4>2, FS_Singleton
      <4>4. QED
        BY <4>3
    <3>3. QED
      BY <3>1, <3>2
  <2> HIDE DEF taken, used
  <2>5. f \in mem.free <=> ~used /\ taken = {}
    BY <1>3, <2>2, <2>3
  <2>6. used => taken = {}
    BY <1>3, <2>2, <2>3
  <2>7. QED
    BY <2>1, <2>4, <2>5, <2>6 DEF taken, used
<1>5. \A e \in mem.used : /\ mem.mem_map[e] = Cardinality(Mappings(e))
                          /\ Mappings(e) # {} \/ Cached(mem, e) # {}
  BY <1>1, MappingsAreRefs DEF Books, Counts, Count
<1>6. \A e \in Entries \ mem.used : Mappings(e) = {}
  BY <1>1, MappingsAreRefs DEF Books, Counts
<1>7. QED
  BY <1>1, <1>4, <1>5, <1>6 DEF CountsExact

LEMMA CacheFollows == IInv => CacheConsistent
<1> SUFFICES ASSUME IInv PROVE CacheConsistent
  OBVIOUS
<1>1. Caches(mem) /\ scan \subseteq mem.inactive /\ mem \in MemoryType
  BY DEF IInv, Memories, Books, Daemon
<1>2. \A f \in Cache : mem.index[f] \in mem.used /\ Cached(mem, mem.index[f]) = {f}
  BY <1>1 DEF Caches, Cache, Cached
<1>3. mem.active \cup mem.inactive = Cache
  BY <1>1, TypeFacts DEF Caches, Cache
<1>4. QED
  BY <1>1, <1>2, <1>3 DEF Caches, CacheConsistent

LEMMA PrivateFollows == IInv => WritableIsPrivate
  BY MappingsAreRefs DEF IInv, Memories, Private, WritableIsPrivate

LEMMA KnownFollows == IInv => OnlyForgottenIsLost
<1> SUFFICES ASSUME IInv, NEW e \in mem.stale \ undirtied PROVE StaleIsDirty(e)
  BY DEF OnlyForgottenIsLost
<1>1. e \in (mem.stale \cap mem.used) \ undirtied
  BY DEF IInv, Memories
<1>2. PICK f \in Cached(mem, e) : f \in mem.pg_dirty \/ Refs(mem.at, f) \cap mem.dirty # {}
  BY <1>1 DEF IInv, Memories, Books, Known
<1>3. QED
  BY <1>2, MappingsAreRefs DEF StaleIsDirty

-----------------------------------------------------------------------------

\* page->ref and mem_map count exactly the page table entries that refer to a
\* frame and to a swap entry, whatever sleeps in the middle of a page fault, a
\* fork or an exit while kswapd takes pages away: no frame leaks, none is given
\* out twice, and no entry is freed under a page table entry that holds it.
THEOREM CountsAreExact == Spec => []CountsExact
<1>1. QED
  BY Invariance, CountsFollow, PTL

\* The swap cache never has two pages for one entry, and kswapd's active and
\* inactive lists hold its pages exactly once, so that page_launder() and
\* swap_in_page() agree on where the content of an entry is.
THEOREM CacheIsConsistent == Spec => []CacheConsistent
<1>1. QED
  BY Invariance, CacheFollows, PTL

\* Copy on write works: when a private page has PTE_W, no other address space
\* refers to its frame or to the swap entry the frame is cached under.
THEOREM WritablePagesArePrivate == Spec => []WritableIsPrivate
<1>1. QED
  BY Invariance, PrivateFollows, PTL

\* Whoever waits in try_free_pages() is not forgotten: kswapd does not go to
\* sleep before it wakes everybody in kswapd_done, and, woken, finds pressure.
THEOREM WaitersAreServed == Spec => []WaitersServed
<1>1. IInv => WaitersServed
  BY DEF IInv, Daemon
<1>2. QED
  BY Invariance, <1>1, PTL

\* A write that the disk does not have is in a cached page that PG_dirty or
\* PTE_D of a mapping marks for the next page_launder(); page_insert() over the
\* same frame is the only place that forgets one.
THEOREM OnlyPageInsertForgets == Spec => []OnlyForgottenIsLost
<1>1. QED
  BY Invariance, KnownFollows, PTL
=============================================================================
